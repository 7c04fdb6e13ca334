---------------------------- MODULE MCPaidQuery -----------------------------
(***************************************************************************)
(* PaidQuery with a query of a priced path, whose id is plain, has outer   *)
(* blanks or is blank, and a query of a path the gateway does not price.   *)
(***************************************************************************)
EXTENDS PaidQuery, TLC

CONSTANTS q1, q2, c1, padded, blank

MCQuery == {q1, q2}
MCRequest == MCQuery \X (1 .. 2) \X {"unpaid", "paid"}
MCAuthorization == MCQuery \X (1 .. 2)
MCUnpriced == {q2} \X (1 .. 2) \X {"unpaid", "paid"}
MCCycle == {c1}
MCNames == {c1, padded, blank}
MCTrimmed == c1 :> c1 @@ padded :> c1 @@ blank :> Malformed
MCIndex == c1 :> 2
\* BOUND: the expected amount is 2; an intent has it, or is too small.
MCIntent == [status : {"processing", "succeeded", "canceled"},
             reference : {"invoice"}, amount : {1, 2}]
=============================================================================
