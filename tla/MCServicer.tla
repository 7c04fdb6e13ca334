----------------------------- MODULE MCServicer -----------------------------
(***************************************************************************)
(* Servicer with one asset.  Race: runs that overlap on two cycles, each   *)
(* asking the one verifier.  Panel: a single run that asks three verifiers *)
(* of which one is not honest, and needs two.                              *)
(***************************************************************************)
EXTENDS Servicer, TLC

CONSTANTS v1, v2, v3, h1, agent, plain, brief, r1, r2

A == <<"a">>
C1 == <<"c1">>
C2 == <<"c2">>
MCAsset == {A}
OneCycle == {C1}
TwoCycles == {C1, C2}
MCVerifier == {v1, v2, v3}
MCKeyOf == [text \in MCVerifier |-> text]
MCOddText == <<>>
OneEndpoint == <<v1>>
ThreeEndpoints == <<v1, v2, v3>>
MCHonest == {v1, v2}
MCAccount == {agent}
MCHolder == {h1}
MCDetail == {plain}
OneBrief == {brief}
MCBriefBytes == [b \in Brief |-> 1024]
Rule(endpoints, quorum) ==
  {[holders |-> <<[to |-> h1, weight |-> 1]>>, verifiers |-> endpoints, quorum |-> quorum]}
OneOfOne == Rule(OneEndpoint, 1)
TwoOfThree == Rule(ThreeEndpoints, 2)
MCAttached == {1}
MCEvidence == {}
Runs == Permutations({r1, r2})
=============================================================================
