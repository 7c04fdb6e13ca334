----------------------------- MODULE MCService -----------------------------
(***************************************************************************)
(* VerifierService with two priced requests that may offer one             *)
(* authorization, an unpriced one, and an intent that is right or wrong in *)
(* one respect.                                                            *)
(***************************************************************************)
EXTENDS VerifierService, TLC

CONSTANTS r1, r2, r3, a1, c1

MCRequests == {r1, r2, r3}
MCAuthorizations == {a1}
MCUnpriced == {r3}
MCCycles == {c1}

\* BOUND: the expected amount is 2, intents are of 1, of 2 or of no amount.
MCIndex == c1 :> 2
MCIntents ==
  {i \in [status : {"processing", "succeeded", "canceled"},
          reference : {"invoice", "another", Nothing}, amount : {1, 2, Nothing}] :
     i.reference = "invoice" \/ i.amount = 2}
=============================================================================
