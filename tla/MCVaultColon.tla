---------------------------- MODULE MCVaultColon ----------------------------
(***************************************************************************)
(* ServicerVault with ids that contain a colon: two pairs of an asset and  *)
(* a cycle share one key, so that the first to settle takes the flag, the  *)
(* receipt and the brief of both.                                          *)
(***************************************************************************)
EXTENDS ServicerVault

CONSTANTS v1, h1, servicer, plain

A1 == <<"a">>
A2 == <<"a", ":", "b">>
C1 == <<"b", ":", "c">>
C2 == <<"c">>
MCAsset == {A1, A2}
MCCycle == {C1, C2}
MCVerifier == {v1}
MCAccount == {servicer}
MCHolder == {h1}
MCDetail == {plain}
MCBrief == {}
MCBriefBytes == [b \in MCBrief |-> 1]
MCAttached == {1}
MCRegistration ==
  {[holders |-> <<[to |-> h1, weight |-> 1]>>, verifiers |-> <<v1>>, quorum |-> 1]}

Single(a, c) ==
  [signers |-> <<v1>>, verdicts |-> <<TRUE>>, details |-> <<plain>>,
   signatures |-> <<[signer |-> v1, message |-> <<a, c, TRUE, plain>>]>>]
MCEvidence == {Single(a, c) : a \in MCAsset, c \in MCCycle}
=============================================================================
