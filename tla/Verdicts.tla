------------------------------ MODULE Verdicts ------------------------------
(***************************************************************************)
(* Signed verdicts, and which of them the contract counts: the evidence    *)
(* loop of `distribute` in contracts/src/servicer_vault.rs.                *)
(***************************************************************************)
EXTENDS Integers, Sequences, FiniteSets, Functions

CONSTANTS
  Asset,         \* asset ids; an id is a sequence of parts, ":" being one
  Cycle,         \* cycle ids, likewise
  Verifier,      \* Ed25519 identities, registered or not
  Detail,        \* the payload of a verdict: observed amount and source
  Forged         \* a byte string that is no verifier's signature

\* The canonical signed bytes; module Canonical justifies the tuple.
Message(a, c, verdict, detail) == <<a, c, verdict, detail>>
Messages == Asset \X Cycle \X BOOLEAN \X Detail

\* An ideal signature names the signer and the message it covers.
Signatures == [signer : Verifier, message : Messages]

\* Mutants of VerifySignature: any bytes pass; the ids are not covered.
VerifyNothing(message, signature, signer) == TRUE
VerifyUnbound(message, signature, signer) ==
  /\ signature # Forged
  /\ signature.signer = signer
  /\ signature.message[3] = message[3]

VerifySignature(message, signature, signer) ==
  signature = [signer |-> signer, message |-> message]

EvidenceArrays == [signers : Seq(Verifier), verdicts : Seq(BOOLEAN),
                   signatures : Seq(Signatures \cup {Forged}),
                   details : Seq(Detail)]

-----------------------------------------------------------------------------

ParallelArrays(e) ==
  /\ Len(e.verdicts) = Len(e.signers)
  /\ Len(e.signatures) = Len(e.signers)
  /\ Len(e.details) = Len(e.signers)

\* The entries that would pass the tests REGISTERED and VALID, and those that
\* the loop counts: DISTINCT keeps the first of each signer.
ValidVotes(cfg, a, c, e) ==
  {i \in DOMAIN e.signers :
     /\ e.signers[i] \in Range(cfg.verifiers)
     /\ VerifySignature(Message(a, c, e.verdicts[i], e.details[i]),
                        e.signatures[i], e.signers[i])}

\* Mutant of CountedVotes: a signer counts as often as it is listed.
VotesNotDeduplicated(cfg, a, c, e) == ValidVotes(cfg, a, c, e)

CountedVotes(cfg, a, c, e) ==
  LET valid == ValidVotes(cfg, a, c, e)
  IN  {i \in valid : \A j \in valid : j < i => e.signers[j] # e.signers[i]}
YesVotes(cfg, a, c, e) == {i \in CountedVotes(cfg, a, c, e) : e.verdicts[i]}
=============================================================================
