--------------------------- MODULE MCVaultQuorum ---------------------------
(***************************************************************************)
(* ServicerVault with many kinds of evidence: one asset with two           *)
(* registered verifiers and one that is not, two cycles, and evidence      *)
(* arrays of up to three entries that repeat a signer, mix verdicts,       *)
(* replay a signature of the other cycle, mislabel one or forge one.       *)
(***************************************************************************)
EXTENDS VaultRefinement, SequencesExt

CONSTANTS v1, v2, v3, h1, h2, servicer, stranger, plain,
  brief, another, longBrief

MCAsset == {<<"a">>}
MCCycle == {<<"c1">>, <<"c2">>}
MCVerifier == {v1, v2, v3}
MCAccount == {servicer, stranger}
MCHolder == {h1, h2}
MCDetail == {plain}
MCBrief == {brief, another, longBrief}
MCBriefBytes == [b \in MCBrief |-> IF b = longBrief THEN 1025 ELSE 1024]
MCAttached == {3}
MCRegistration ==
  {[holders |-> <<[to |-> h1, weight |-> 1], [to |-> h2, weight |-> 1]>>,
    verifiers |-> <<v1, v2>>, quorum |-> 2],
   [holders |-> <<[to |-> h1, weight |-> 1]>>,
    verifiers |-> <<v2, v1, v2>>, quorum |-> 1]}

Vote(v, c, verdict) ==
  [signer |-> v, message |-> <<<<"a">>, c, verdict, plain>>]
Honest(s) == [signer |-> s.signer, verdict |-> s.message[3], signature |-> s]

Entries ==
  {Honest(Vote(v1, <<"c1">>, TRUE)), Honest(Vote(v2, <<"c1">>, TRUE)),
   Honest(Vote(v2, <<"c1">>, FALSE)), Honest(Vote(v3, <<"c1">>, TRUE)),
   Honest(Vote(v1, <<"c2">>, TRUE)), Honest(Vote(v2, <<"c2">>, TRUE)),
   \* mislabelled: another signer's signature, or the other verdict
   [signer |-> v2, verdict |-> TRUE, signature |-> Vote(v1, <<"c1">>, TRUE)],
   [signer |-> v2, verdict |-> TRUE, signature |-> Vote(v2, <<"c1">>, FALSE)],
   [signer |-> v2, verdict |-> TRUE, signature |-> Forged]}

Arrays(s) ==
  [signers    |-> [i \in DOMAIN s |-> s[i].signer],
   verdicts   |-> [i \in DOMAIN s |-> s[i].verdict],
   signatures |-> [i \in DOMAIN s |-> s[i].signature],
   details    |-> [i \in DOMAIN s |-> plain]]
Short(e) == [e EXCEPT !.verdicts = Front(@)]

MCEvidence ==
  {Arrays(s) : s \in BoundedSeq(Entries, 3)}
    \cup {Short(Arrays(s)) : s \in SeqOf(Entries, 2) \ {<<>>}}
=============================================================================
