---------------------------- MODULE VerdictQuorum ----------------------------
(***************************************************************************)
(* The agent's pre-check, packages/core/src/quorum.ts, beside the count    *)
(* that the contract makes of the same verdicts.  Verdicts arrive one by   *)
(* one; the properties hold of every sequence that may have arrived.       *)
(***************************************************************************)
EXTENDS Precheck

CONSTANTS
  SignedVerdict,   \* [verdict, signature, signer] that may arrive, signer in hex
  MaxVerdicts,     \* BOUND: length of the sequence
  Rules            \* [verifiers, quorum] of the asset under way

ASSUME VerdictAssumption ==
  /\ SignedVerdict \subseteq [verdict   : Messages,
                              signature : Signatures \cup {Forged} \cup DOMAIN OddText,
                              signer    : DOMAIN KeyOf]
  /\ Rules.verifiers \in Seq(Verifier)

VARIABLE verdicts

-----------------------------------------------------------------------------

Receive(sv) ==
  /\ Len(verdicts) < MaxVerdicts
  /\ verdicts' = Append(verdicts, sv)

QuorumInit == verdicts = <<>>
QuorumNext == \E sv \in SignedVerdict : Receive(sv)
QuorumSpec == QuorumInit /\ [][QuorumNext]_verdicts

-----------------------------------------------------------------------------
(* Properties. *)

Call == DistributeArgs(EvidenceOf(verdicts))
OnChainYes(a, c) == {Call.signers[i] : i \in YesVotes(Rules, a, c, Call)}
KeysOf(hexes) == {KeyOf[hex] : hex \in hexes}
Spellings(v) == {verdicts[i].signer : i \in {j \in DOMAIN verdicts : KeyOf[verdicts[j].signer] = v}}

\* For an asset and cycle whose verdicts these all are, from verifiers that are
\* all registered, the agent holds no cycle back that the contract would settle,
\* however keys are spelled; and if each key is spelled in one way, as
\* signVerdict does, both count the same signers, so that nothing the agent
\* submits is reverted for its quorum.
PrecheckAgrees ==
  \A a \in Asset, c \in Cycle :
    /\ Encodable(EvidenceOf(verdicts))
    /\ \A i \in DOMAIN verdicts :
         /\ verdicts[i].verdict[1] = a /\ verdicts[i].verdict[2] = c
         /\ KeyOf[verdicts[i].signer] \in Range(Rules.verifiers)
    => LET yes == YesSigners(verdicts)
       IN  /\ OnChainYes(a, c) \subseteq KeysOf(Range(yes))
           /\ (\A v \in Verifier : Cardinality(Spellings(v)) <= 1)
                => /\ OnChainYes(a, c) = KeysOf(Range(yes))
                   /\ Cardinality(OnChainYes(a, c)) = Len(yes)

\* Whatever passes verifyVerdict, which the verifier client demands of every
\* answer, passes the checks of the encoding, which are written a second time
\* and another way: no verifier can spoil the call for the others by the text
\* it sends for its key or signature.
VerifiedIsEncodable ==
  (\A i \in DOMAIN verdicts : VerifyVerdict(verdicts[i]))
    => Encodable(EvidenceOf(verdicts))

\* The spellings under which somebody has validly said "yes", and "no".
SaidYes == {verdicts[i].signer : i \in {j \in DOMAIN verdicts :
                                         VerifyVerdict(verdicts[j]) /\ SaysYes(verdicts[j])}}
SaidNo == {verdicts[i].signer : i \in {j \in DOMAIN verdicts :
                                        VerifyVerdict(verdicts[j]) /\ ~SaysYes(verdicts[j])}}

\* Whatever else arrives before or after, each spelling of a key is counted at
\* most once and only for a valid "yes", and always if it never validly says
\* "no"; a key in two spellings is counted twice.
YesCountsUnlessContradicted ==
  LET yes == YesSigners(verdicts)
  IN  /\ Cardinality(Range(yes)) = Len(yes)
      /\ Range(yes) \subseteq SaidYes
      /\ SaidYes \ SaidNo \subseteq Range(yes)

\* quorum.ts:15-16: "if a signer appears multiple times, only the first valid
\* "yes" from that signer is counted (subsequent votes ignored)".  The loop
\* counts the first valid verdict instead, so that a "no" hides a later "yes".
FirstYesCounts == Range(YesSigners(verdicts)) = SaidYes
=============================================================================
