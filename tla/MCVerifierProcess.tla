------------------------- MODULE MCVerifierProcess --------------------------
(***************************************************************************)
(* VerifierProcess in a good environment for either source and in each one *)
(* that differs from it in one variable, with files that are good, have    *)
(* one odd amount or a record under a wrong key, or are no tables.  Two    *)
(* pairs of ids have the same key; two others would have it without the    *)
(* colon.                                                                  *)
(***************************************************************************)
EXTENDS VerifierProcess, TLC

A1 == <<"a">>
A2 == <<"a", "b">>
A3 == <<"a", ":", "b">>
C1 == <<"b", "c">>
C2 == <<"c">>
C3 == <<"b", ":", "c">>
MCAsset == {A1, A2, A3}
MCCycle == {C1, C2, C3}

Good(source) ==
  [name \in Variables |-> IF name = "VERIFIER_SOURCE" THEN source ELSE "valid"]
MCEnvironment ==
  UNION {{[Good(source) EXCEPT ![name] = setting] :
             name \in Variables \ {"VERIFIER_SOURCE"}, setting \in Settings} :
           source \in {"unset", "file", "stripe", "another"}}

Digits(n) == [type |-> "string", digits |-> TRUE, value |-> n]
Blank == [type |-> "string", digits |-> FALSE, value |-> 0]
Decimal == [type |-> "string", digits |-> FALSE, value |-> NoValue]
Number(n) == [type |-> "number", digits |-> TRUE, value |-> n]
Absent == [type |-> "undefined", digits |-> FALSE, value |-> NoValue]

Record(reference, expected, observed) ==
  [of |-> <<A1, C1>>, intent |-> "valid", reference |-> reference,
   expected |-> expected, observed |-> observed]
Listing(record) == [kind |-> "table", table |-> Key(A1, C1) :> record]
Filing(a, c, of) ==
  [kind |-> "table",
   table |-> Key(a, c) :> [Record("expected", Digits(2), Digits(2)) EXCEPT !.of = of]]
Broken(kind) == [kind |-> kind, table |-> NoTable]

\* BOUND: the expected amount is 2.
MCFile ==
  {Listing(Nothing),
   Listing([Record("expected", Digits(2), Digits(2)) EXCEPT !.intent = "invalid"])}
  \cup {Listing(Record(reference, amounts[1], amounts[2])) :
          reference \in References,
          amounts \in {<<Digits(2), Digits(2)>>, <<Digits(2), Digits(1)>>,
                       <<Digits(2), Number(2)>>, <<Blank, Digits(1)>>,
                       <<Decimal, Digits(2)>>, <<Digits(2), Decimal>>,
                       <<Digits(2), Absent>>}}
  \cup {Filing(A1, C3, <<A1, C3>>), Filing(A3, C2, <<A3, C2>>), Filing(A2, C2, <<A1, C1>>)}
  \cup {Broken(kind) : kind \in {"unreadable", "notJson", "notObject"}}

MCAnswer ==
  {Nothing} \cup [reference : References, amount : {1, 2, NoValue}]
=============================================================================
