---------------------------- MODULE MCVaultExec ----------------------------
(***************************************************************************)
(* VaultExec for TLC: two assets, of which one lists a verifier twice and  *)
(* a holder twice, and evidence that repeats signers, mixes verdicts,      *)
(* replays a signature and puts a forged one before the signer's own.      *)
(***************************************************************************)
EXTENDS VaultExec

CONSTANTS v1, v2, v3, h1, h2, servicer, plain

A1 == <<"a1">>
A2 == <<"a2">>
C1 == <<"c1">>
C2 == <<"c2">>
MCAsset == {A1, A2}
MCCycle == {C1, C2}
MCVerifier == {v1, v2, v3}
MCAccount == {servicer}
MCHolder == {h1, h2}
MCDetail == {plain}
MCBrief == {}
MCBriefBytes == [b \in MCBrief |-> 1]
MCAttached == {2}

Holds(h, w) == [to |-> h, weight |-> w]
\* With a pool of 2 the holder of weight 1 in 3 is skipped: its share is 0.
MCRegistration ==
  {[holders |-> <<Holds(h1, 1), Holds(h2, 2)>>,
    verifiers |-> <<v1, v2>>, quorum |-> 2],
   [holders |-> <<Holds(h2, 2), Holds(h1, 1), Holds(h2, 1)>>,
    verifiers |-> <<v2, v3, v2>>, quorum |-> 1]}

Vote(v, a, c, verdict) == [signer |-> v, message |-> <<a, c, verdict, plain>>]
Entry(s) == [signer |-> s.signer, verdict |-> s.message[3], signature |-> s]
Fake(v) == [signer |-> v, verdict |-> TRUE, signature |-> Forged]
Arrays(s) ==
  [signers    |-> [i \in DOMAIN s |-> s[i].signer],
   verdicts   |-> [i \in DOMAIN s |-> s[i].verdict],
   signatures |-> [i \in DOMAIN s |-> s[i].signature],
   details    |-> [i \in DOMAIN s |-> plain]]

Yes11 == Entry(Vote(v1, A1, C1, TRUE))
Yes21 == Entry(Vote(v2, A1, C1, TRUE))
No21 == Entry(Vote(v2, A1, C1, FALSE))
Other32 == Entry(Vote(v3, A2, C2, TRUE))
MCEvidence ==
  {Arrays(s) : s \in
    {<<Yes11, Yes21>>, <<Yes11, Yes11>>, <<Fake(v1), Yes11, Yes21>>,
     <<No21, Yes21, Yes11>>, <<Yes21, No21>>, <<Other32, Yes21>>}}
  \cup {[Arrays(<<Yes11, Yes21>>) EXCEPT !.details = <<plain>>]}
=============================================================================
