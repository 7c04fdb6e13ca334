------------------------------ MODULE Cashflow ------------------------------
(***************************************************************************)
(* What a verifier concludes from its source: decide of verifiers/src/     *)
(* verdict.ts and the Stripe source of stripe-cashflow-source.ts.  A cycle *)
(* of the verifier's asset stands for the "assetId:cycleId" key.           *)
(***************************************************************************)
EXTENDS Integers

CONSTANTS
  Cycle,
  ExpectedReference,   \* VERIFIER_EXPECTED_REFERENCE
  PaymentIndex,        \* cycle -> expectedAmount, for the cycles it lists
  Nothing              \* null: no record, no reference, no amount

ASSUME IndexAssumption ==
  /\ DOMAIN PaymentIndex \subseteq Cycle
  /\ \A c \in DOMAIN PaymentIndex : PaymentIndex[c] \in Nat

\* Stripe answers with the intent, or fetch rejects, the status is not 2xx or
\* the body not JSON.
IntentAnswer(intent) == [kind |-> "intent", intent |-> intent]
NoAnswer == [kind : {"unreachable", "notOk", "notJson"}]

EvidenceIn(c, intent) ==
  [expectedAmount |-> PaymentIndex[c],
   observedAmount |-> intent.amount, reference |-> intent.reference]

\* Mutant of Confirms: an intent that is still processing, or canceled, counts.
ConfirmsInAnyStatus(intent) == intent.reference # Nothing /\ intent.amount # Nothing

Confirms(intent) ==
  intent.status = "succeeded" /\ intent.reference # Nothing /\ intent.amount # Nothing

\* The source's fetch: what does not confirm a payment is no evidence at all.
StripeEvidence(c, answer) ==
  IF /\ c \in DOMAIN PaymentIndex
     /\ answer.kind = "intent" /\ Confirms(answer.intent)
  THEN EvidenceIn(c, answer.intent)
  ELSE Nothing

Decide(evidence) ==
  /\ evidence # Nothing
  /\ evidence.reference = ExpectedReference
  /\ evidence.observedAmount >= evidence.expectedAmount
=============================================================================
