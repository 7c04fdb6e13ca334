-------------------------------- MODULE Sale --------------------------------
(***************************************************************************)
(* What paying for verdicts promises, whatever overlaps and fails: a       *)
(* priced request is sold its verdict only after an authorization was      *)
(* spent for it, an authorization pays for one request, and a request      *)
(* spends one authorization.                                               *)
(***************************************************************************)
CONSTANTS Request, Authorization, Unpriced, Nobody

VARIABLES
  outcome,   \* request -> "open", "sold" or "refused"
  spent      \* authorization -> the request it paid for, or Nobody

vars == <<outcome, spent>>

Paid(r) == \E a \in Authorization : spent[a] = r

Init ==
  /\ outcome = [r \in Request |-> "open"]
  /\ spent = [a \in Authorization |-> Nobody]

Charge(r, a) ==
  /\ outcome[r] = "open" /\ ~Paid(r)
  /\ spent[a] = Nobody
  /\ spent' = [spent EXCEPT ![a] = r]
  /\ UNCHANGED outcome

Sell(r) ==
  /\ outcome[r] = "open"
  /\ Paid(r) \/ r \in Unpriced
  /\ outcome' = [outcome EXCEPT ![r] = "sold"]
  /\ UNCHANGED spent

\* Requests that wait for the same call are refused together.
Refuse(R) ==
  /\ \A r \in R : outcome[r] = "open"
  /\ outcome' = [r \in Request |-> IF r \in R THEN "refused" ELSE outcome[r]]
  /\ UNCHANGED spent

Next ==
  \/ \E r \in Request, a \in Authorization : Charge(r, a)
  \/ \E r \in Request : Sell(r)
  \/ \E R \in SUBSET Request : Refuse(R)

Spec == Init /\ [][Next]_vars
=============================================================================
