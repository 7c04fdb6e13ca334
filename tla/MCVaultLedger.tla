--------------------------- MODULE MCVaultLedger ---------------------------
(***************************************************************************)
(* ServicerVault with many ways to move money: two assets whose verifier   *)
(* sets overlap (one lists a verifier twice), two cycles each, holders     *)
(* that occur twice and shares that leave dust.  The ids are chosen so     *)
(* that the keys would collide without the colon between their parts.      *)
(***************************************************************************)
EXTENDS VaultRefinement, Dashboard

CONSTANTS v1, v2, v3, h1, h2, servicer, plain

A1 == <<"a">>
A2 == <<"a", "b">>
C1 == <<"b", "c">>
C2 == <<"c">>
MCAsset == {A1, A2}
MCCycle == {C1, C2}
MCVerifier == {v1, v2, v3}
MCAccount == {servicer}
MCHolder == {h1, h2}
MCDetail == {plain}
MCBrief == {}
MCBriefBytes == [b \in MCBrief |-> 1]
MCAttached == {3}

Holding(h, w) == [to |-> h, weight |-> w]
MCRegistration ==
  {[holders |-> <<Holding(h1, 1), Holding(h2, 2)>>,
    verifiers |-> <<v1, v2>>, quorum |-> 1],
   [holders |-> <<Holding(h2, 2), Holding(h1, 1), Holding(h2, 1)>>,
    verifiers |-> <<v2, v3, v2>>, quorum |-> 2],
   \* rejected: no weight, a quorum out of range, a weight sum over MaxWeight
   [holders |-> <<Holding(h1, 0)>>, verifiers |-> <<v1>>, quorum |-> 1],
   [holders |-> <<Holding(h1, 1)>>, verifiers |-> <<v3>>, quorum |-> 2],
   [holders |-> <<Holding(h1, 3), Holding(h1, 3)>>, verifiers |-> <<v3>>, quorum |-> 1]}

Vote(v, a, c, verdict) == [signer |-> v, message |-> <<a, c, verdict, plain>>]
Arrays(votes) ==
  [signers    |-> [i \in DOMAIN votes |-> votes[i].signer],
   verdicts   |-> [i \in DOMAIN votes |-> votes[i].message[3]],
   signatures |-> votes,
   details    |-> [i \in DOMAIN votes |-> plain]]

MCEvidence ==
  {Arrays(s) : s \in
    {<<Vote(v1, A1, C1, TRUE)>>,
     <<Vote(v2, A1, C1, FALSE), Vote(v1, A1, C1, TRUE)>>,
     <<Vote(v2, A1, C1, FALSE)>>,
     <<Vote(v2, A1, C2, TRUE)>>,
     <<Vote(v2, A2, C1, TRUE), Vote(v3, A2, C1, TRUE)>>,
     <<Vote(v3, A2, C2, TRUE), Vote(v2, A2, C2, TRUE)>>}}
=============================================================================
