----------------------------- MODULE PaidAnswer -----------------------------
(***************************************************************************)
(* What asking for a verdict, twice if need be, promises the agent: an     *)
(* attempt costs one payment at most, an answer is paid for by the attempt *)
(* that brought it, and no attempt is paid for that was not made.  A query *)
(* may fail although it was charged for, even after it has failed.         *)
(***************************************************************************)
EXTENDS Naturals

CONSTANTS Query, MaxAttempts

VARIABLES
  outcome,   \* query -> "open", "answered" or "failed"
  attempt,   \* query -> the attempt it is at
  charged    \* query -> the attempts that were paid for

vars == <<outcome, attempt, charged>>

Init ==
  /\ outcome = [q \in Query |-> "open"]
  /\ attempt = [q \in Query |-> 1]
  /\ charged = [q \in Query |-> {}]

Retry(q) ==
  /\ outcome[q] = "open" /\ attempt[q] < MaxAttempts
  /\ attempt' = [attempt EXCEPT ![q] = @ + 1]
  /\ UNCHANGED <<outcome, charged>>

Charge(q, n) ==
  /\ n <= attempt[q] /\ n \notin charged[q]
  /\ charged' = [charged EXCEPT ![q] = @ \cup {n}]
  /\ UNCHANGED <<outcome, attempt>>

Answer(q) ==
  /\ outcome[q] = "open" /\ attempt[q] \in charged[q]
  /\ outcome' = [outcome EXCEPT ![q] = "answered"]
  /\ UNCHANGED <<attempt, charged>>

Fail(q) ==
  /\ outcome[q] = "open" /\ attempt[q] = MaxAttempts
  /\ outcome' = [outcome EXCEPT ![q] = "failed"]
  /\ UNCHANGED <<attempt, charged>>

Next ==
  \E q \in Query :
    \/ Retry(q) \/ Answer(q) \/ Fail(q)
    \/ \E n \in 1 .. MaxAttempts : Charge(q, n)

Spec == Init /\ [][Next]_vars
=============================================================================
