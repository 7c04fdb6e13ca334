-------------------------- MODULE ChainClientProofs --------------------------
(***************************************************************************)
(* What the chain client tells its callers, proved for any number of       *)
(* sessions, any timeout, poll interval and latency, and any errors.       *)
(*                                                                         *)
(* The invariant is about one session at a time: Guarded says what is      *)
(* known of the guard's answer, Truthful what is known of the transaction, *)
(* Timely how far the clock may be.  They are operators of the session's   *)
(* record, its transaction, the clock and the item, so that a step that    *)
(* leaves these alone keeps them.                                          *)
(***************************************************************************)
EXTENDS ChainClient, TLAPS

Replies ==
  {NoReply, ItemReply} \cup {ErrorReply(e) : e \in Errors}
    \cup {Info(h, r) : h \in {"real", "zero"}, r \in {"none", "success", "failure"}}

Sess == [pc : {"idle", "guard", "guardReply", "put", "putReply", "submitted",
               "poll", "pollReply", "sleep", "done"},
         sent : Nat, reply : Replies, settledBefore : BOOLEAN,
         fault : Replies, began : Nat, deadline : Nat, wake : Nat,
         outcome : {"none", "already_distributed", "below_quorum", "success",
                    "failure", "timeout", "poll_failed", "threw"}]
Tx == [status : {"none", "pending", "success", "failure", "expired"}, at : Nat]

TypeCorrect ==
  /\ now \in Nat
  /\ session \in [Session -> Sess]
  /\ tx \in [Session -> Tx]
  /\ item \in BOOLEAN

\* A reply that is an ambiguous error.
Misleads(reply) == \E e \in Errors : reply = ErrorReply(e) /\ Ambiguous(e)

AfterGuard == {"put", "putReply", "submitted", "poll", "pollReply", "sleep"}
Calls == {"guard", "guardReply", "put", "putReply", "submitted", "poll", "pollReply"}
Executed(t) == t.status \in {"success", "failure"}

Guarded(q, t) ==
  /\ q.pc \in {"idle", "guard", "guardReply"} => t.status = "none"
  /\ q.settledBefore =>
       /\ q.pc = "guardReply" =>
            \/ q.reply = ItemReply
            \/ \E e \in Errors : q.reply = ErrorReply(e) /\ q.fault = ErrorReply(e)
       /\ q.pc \in AfterGuard => Misleads(q.fault)
       /\ t.status # "none" => Misleads(q.fault)

Truthful(q, t, i) ==
  /\ q.settledBefore => i
  /\ q.pc = "guardReply" /\ q.reply = ItemReply => i
  /\ q.pc = "pollReply" /\ IsFinal(q.reply) =>
       Executed(t) /\ q.reply.result = t.status
  /\ q.pc # "done" => q.outcome = "none"
  /\ q.outcome \in {"success", "failure"} => t.status = q.outcome
  /\ q.outcome = "already_distributed" => i
  /\ t.status = "success" => i

Timely(q, t, n) ==
  /\ q.pc \in Calls => q.sent <= n /\ n <= q.sent + Latency
  /\ q.pc \in {"poll", "pollReply", "sleep"} => q.deadline = q.began + Timeout
  /\ q.pc \in {"poll", "pollReply"} => q.sent <= q.deadline + PollInterval
  /\ q.pc = "sleep" => n <= q.wake /\ q.wake <= q.deadline + PollInterval
  /\ q.pc = "pollReply" /\ ~IsFinal(q.reply) /\ Executed(t) => q.sent <= t.at
  /\ q.outcome = "timeout" =>
       q.deadline <= n /\ (Executed(t) => q.deadline <= t.at + Latency)

Good(q, t, n, i) == Guarded(q, t) /\ Truthful(q, t, i) /\ Timely(q, t, n)

\* The inductive invariant.
Inv == TypeCorrect /\ \A s \in Session : Good(session[s], tx[s], now, item)

-----------------------------------------------------------------------------
(* The records that a step makes of a session. *)

\* Distinct kinds of reply differ, and the fields of a reply are what they say.
LEMMA ReplyFields ==
  /\ NoReply \in Replies /\ ItemReply \in Replies
  /\ \A e \in Errors : /\ ErrorReply(e) \in Replies
                       /\ ErrorReply(e).error = e
                       /\ ErrorReply(e) # ItemReply
  /\ \A h \in {"real", "zero"}, r \in {"none", "success", "failure"} :
       /\ Info(h, r) \in Replies
       /\ Info(h, r).result = r
       /\ IsFinal(Info(h, r)) <=> h = "real" /\ r # "none"
<1>1. NoReply \in Replies /\ ItemReply \in Replies
  BY DEF Replies
<1>2. ASSUME NEW e \in Errors
      PROVE  ErrorReply(e) \in Replies /\ ErrorReply(e).error = e /\ ErrorReply(e) # ItemReply
  <2>1. ErrorReply(e) \in Replies
    BY DEF Replies
  <2>2. ErrorReply(e).error = e
    BY DEF ErrorReply
  <2>3. ErrorReply(e).kind = "error" /\ ItemReply.kind = "item"
    BY DEF ErrorReply, ItemReply
  <2>4. QED  BY <2>1, <2>2, <2>3
<1>3. ASSUME NEW h \in {"real", "zero"}, NEW r \in {"none", "success", "failure"}
      PROVE  /\ Info(h, r) \in Replies
             /\ Info(h, r).result = r
             /\ IsFinal(Info(h, r)) <=> h = "real" /\ r # "none"
  <2>1. Info(h, r) \in Replies
    BY DEF Replies
  <2>2. Info(h, r).result = r /\ Info(h, r).blockHeight = h
    BY DEF Info
  <2>3. QED  BY <2>1, <2>2 DEF IsFinal
<1>4. QED  BY <1>1, <1>2, <1>3

\* What the client takes for an absent item is ambiguous at least.
LEMMA NotFoundIsAmbiguous ==
  ASSUME NEW e \in Errors, IsDictionaryNotFound(e)
  PROVE  Ambiguous(e)
<1> DEFINE said == {e.code, e.statusCode, e.sourceCode}
<1>1. FirstCode(e) \in said
  BY DEF FirstCode
<1>2. FirstCode(e) = NotANumber => said = {NotANumber}
  BY DEF FirstCode
<1>3. QED  BY <1>1, <1>2 DEF IsDictionaryNotFound, Ambiguous

\* A request has gone out.
LEMMA SendFields ==
  ASSUME TypeCorrect, NEW q \in Sess, NEW pc \in Calls
  PROVE  /\ Send(q, pc) \in Sess
         /\ Send(q, pc).pc = pc /\ Send(q, pc).sent = now
         /\ Send(q, pc).reply = q.reply
         /\ Send(q, pc).settledBefore = q.settledBefore /\ Send(q, pc).fault = q.fault
         /\ Send(q, pc).began = q.began /\ Send(q, pc).deadline = q.deadline
         /\ Send(q, pc).outcome = q.outcome
  BY DEF TypeCorrect, Send, Sess, Calls

\* A reply has arrived.
LEMMA RepliedFields ==
  ASSUME NEW q \in Sess, NEW pc \in Calls, NEW r \in Replies
  PROVE  /\ Replied(q, pc, r) \in Sess
         /\ Replied(q, pc, r).pc = pc /\ Replied(q, pc, r).sent = q.sent
         /\ Replied(q, pc, r).reply = r
         /\ Replied(q, pc, r).settledBefore = q.settledBefore /\ Replied(q, pc, r).fault = q.fault
         /\ Replied(q, pc, r).began = q.began /\ Replied(q, pc, r).deadline = q.deadline
         /\ Replied(q, pc, r).outcome = q.outcome
  BY DEF Replied, Sess, Calls

\* A reply has been looked at.
LEMMA TakenFields ==
  ASSUME NEW q \in Sess
  PROVE  /\ Taken(q) \in Sess
         /\ Taken(q).pc = q.pc /\ Taken(q).reply = NoReply
         /\ Taken(q).settledBefore = q.settledBefore /\ Taken(q).fault = q.fault
         /\ Taken(q).began = q.began /\ Taken(q).deadline = q.deadline
         /\ Taken(q).outcome = q.outcome
  BY ReplyFields DEF Taken, Sess

\* A session sleeps between two polls.
LEMMA SleepsFields ==
  ASSUME TypeCorrect, NEW q \in Sess
  PROVE  /\ Sleeps(q) \in Sess
         /\ Sleeps(q).pc = "sleep" /\ Sleeps(q).wake = now + PollInterval
         /\ Sleeps(q).settledBefore = q.settledBefore /\ Sleeps(q).fault = q.fault
         /\ Sleeps(q).began = q.began /\ Sleeps(q).deadline = q.deadline
         /\ Sleeps(q).outcome = q.outcome
<1>1. PICK k \in Sess : k = Taken(q)
  BY TakenFields
<1>2. Sleeps(q) = [k EXCEPT !.pc = "sleep", !.wake = now + PollInterval]
  BY <1>1 DEF Sleeps
<1>3. now + PollInterval \in Nat
  BY ClientAssumption DEF TypeCorrect
<1>4. QED
  <2>1. k.settledBefore = q.settledBefore /\ k.fault = q.fault /\ k.began = q.began
        /\ k.deadline = q.deadline /\ k.outcome = q.outcome
    BY <1>1, TakenFields
  <2>2. QED  BY <1>2, <1>3, <2>1 DEF Sess

\* A session ends.
LEMMA EndsFields ==
  ASSUME NEW q \in Sess,
         NEW o \in {"already_distributed", "below_quorum", "success", "failure",
                    "timeout", "poll_failed", "threw"}
  PROVE  /\ Ends(q, o) \in Sess
         /\ Ends(q, o).pc = "done" /\ Ends(q, o).outcome = o
         /\ Ends(q, o).settledBefore = q.settledBefore /\ Ends(q, o).fault = q.fault
         /\ Ends(q, o).began = q.began /\ Ends(q, o).deadline = q.deadline
<1>1. PICK k \in Sess : k = Taken(q)
  BY TakenFields
<1>2. Ends(q, o) = [k EXCEPT !.pc = "done", !.outcome = o]
  BY <1>1 DEF Ends
<1>3. /\ k.settledBefore = q.settledBefore /\ k.fault = q.fault
      /\ k.began = q.began /\ k.deadline = q.deadline
  BY <1>1, TakenFields
<1>4. QED  BY <1>2, <1>3 DEF Sess

-----------------------------------------------------------------------------
(* One lemma per step. *)

\* A step of one session keeps the invariant if its new record is good.
LEMMA OneSession ==
  ASSUME Inv, NEW s \in Session, NEW q \in Sess, Becomes(s, q),
         Good(q, tx[s], now, item)
  PROVE  Inv'
<1>1. session' = [session EXCEPT ![s] = q] /\ now' = now /\ tx' = tx /\ item' = item
  BY DEF Becomes
<1>2. session \in [Session -> Sess]
  BY DEF Inv, TypeCorrect
<1>3. TypeCorrect'
  BY <1>1, <1>2 DEF Inv, TypeCorrect
<1>4. ASSUME NEW x \in Session
      PROVE  Good(session[x], tx[x], now, item)'
  <2>1. Good(session'[x], tx[x], now, item)
    <3>1. CASE x = s
      BY <1>1, <1>2, <3>1
    <3>2. CASE x # s
      BY <1>1, <1>2, <3>2 DEF Inv
    <3>3. QED  BY <3>1, <3>2
  <2>2. QED  BY <1>1, <2>1
<1>5. QED  BY <1>3, <1>4 DEF Inv

\* A session that ends below the quorum or on an error keeps it.
LEMMA EndsGood ==
  ASSUME Inv, NEW s \in Session, NEW o \in {"below_quorum", "poll_failed", "threw"}
  PROVE  Good(Ends(session[s], o), tx[s], now, item) /\ Ends(session[s], o) \in Sess
<1>1. session[s] \in Sess /\ Good(session[s], tx[s], now, item)
  BY DEF Inv, TypeCorrect
<1>2. PICK k \in Sess : k = Ends(session[s], o)
  BY <1>1, EndsFields
<1>3. k.pc = "done" /\ k.outcome = o /\ k.settledBefore = session[s].settledBefore /\ k.fault = session[s].fault
  BY <1>1, <1>2, EndsFields
<1>4. Guarded(k, tx[s])
  BY <1>1, <1>3 DEF Good, Guarded, AfterGuard
<1>5. Truthful(k, tx[s], item)
  BY <1>1, <1>3 DEF Good, Truthful
<1>6. Timely(k, tx[s], now)
  BY <1>1, <1>3 DEF Good, Timely, Calls
<1>7. QED  BY <1>2, <1>4, <1>5, <1>6 DEF Good

\* The guard's read goes out; what the dictionary holds by then is noted.
LEMMA AskGuardStep ==
  ASSUME Inv, NEW s \in Session, AskGuard(s)
  PROVE  Inv'
<1>1. session[s] \in Sess /\ Good(session[s], tx[s], now, item) /\ now \in Nat
  BY DEF Inv, TypeCorrect
<1>2. item \in BOOLEAN /\ TypeCorrect
  BY DEF Inv, TypeCorrect
<1>3. PICK a \in Sess : a = [session[s] EXCEPT !.settledBefore = item]
  BY <1>1, <1>2 DEF Sess
<1>4. /\ a.pc = "idle" /\ a.settledBefore = item
      /\ a.outcome = session[s].outcome
  BY <1>1, <1>2, <1>3 DEF AskGuard, Sess
<1>5. PICK k \in Sess : k = Send(a, "guard")
  BY <1>2, SendFields DEF Calls
<1>6. /\ k.pc = "guard" /\ k.sent = now /\ k.settledBefore = item
      /\ k.outcome = session[s].outcome
  BY <1>2, <1>4, <1>5, SendFields DEF Calls
<1>7. session[s].pc = "idle" /\ Becomes(s, k)
  BY <1>3, <1>5 DEF AskGuard
<1>8. Guarded(k, tx[s])
  BY <1>1, <1>6, <1>7 DEF Good, Guarded, AfterGuard
<1>9. Truthful(k, tx[s], item)
  BY <1>1, <1>6, <1>7 DEF Good, Truthful
<1>10. Timely(k, tx[s], now)
  BY <1>1, <1>6, <1>7, ClientAssumption DEF Good, Timely, Truthful, Calls
<1>11. QED  BY <1>7, <1>8, <1>9, <1>10, OneSession DEF Good

\* What the node reads for the guard is what the dictionary holds.
LEMMA NodeReadsStep ==
  ASSUME Inv, NEW s \in Session, NodeReads(s)
  PROVE  Inv'
<1>1. session[s] \in Sess /\ Good(session[s], tx[s], now, item)
  BY DEF Inv, TypeCorrect
<1>2. session[s].pc = "guard"
  BY DEF NodeReads
<1>3. PICK a, r :
        /\ \/ a = session[s] /\ r \in IF item THEN {ItemReply} ELSE {ErrorReply(e) : e \in AbsentErrors}
           \/ a = Noted(session[s], r) /\ \E e \in FaultErrors : r = ErrorReply(e)
        /\ Becomes(s, Replied(a, "guardReply", r))
  BY DEF NodeReads
<1>4. /\ r = ItemReply \/ \E e \in Errors : r = ErrorReply(e)
      /\ r = ItemReply => item
      /\ item => r = ItemReply \/ a = Noted(session[s], r)
  BY <1>3, ReplyFields, ClientAssumption
<1>5. r \in Replies /\ "guardReply" \in Calls
  BY <1>4, ReplyFields DEF Calls
<1>12. /\ a \in Sess /\ a.sent = session[s].sent /\ a.settledBefore = session[s].settledBefore
       /\ a.outcome = session[s].outcome
       /\ item /\ session[s].settledBefore => r = ItemReply \/ a.fault = r
  BY <1>1, <1>3, <1>4, <1>5 DEF Noted, Sess
<1>6. PICK k \in Sess : k = Replied(a, "guardReply", r)
  BY <1>5, <1>12, RepliedFields
<1>7. /\ k.pc = "guardReply" /\ k.sent = session[s].sent /\ k.reply = r
      /\ k.settledBefore = session[s].settledBefore /\ k.fault = a.fault
      /\ k.outcome = session[s].outcome
  BY <1>5, <1>6, <1>12, RepliedFields
<1>8. Guarded(k, tx[s])
  <2>1. ASSUME k.settledBefore
        PROVE  \/ k.reply = ItemReply
               \/ \E e \in Errors : k.reply = ErrorReply(e) /\ k.fault = ErrorReply(e)
    BY <1>1, <1>4, <1>7, <1>12, <2>1 DEF Good, Truthful
  <2>2. QED  BY <1>1, <1>2, <1>7, <2>1 DEF Good, Guarded, AfterGuard
<1>9. Truthful(k, tx[s], item)
  BY <1>1, <1>2, <1>4, <1>7 DEF Good, Truthful
<1>10. Timely(k, tx[s], now)
  BY <1>1, <1>2, <1>7 DEF Good, Timely, Truthful, Calls
<1>11. QED  BY <1>3, <1>6, <1>8, <1>9, <1>10, OneSession DEF Good

\* What the guard returns speaks of the value that was read.
LEMMA GuardReturnsStep ==
  ASSUME Inv, NEW s \in Session, GuardReturns(s)
  PROVE  Inv'
<1>1. session[s] \in Sess /\ Good(session[s], tx[s], now, item) /\ TypeCorrect
  BY DEF Inv, TypeCorrect
<1>2. session[s].pc = "guardReply"
  BY DEF GuardReturns
<1>3. CASE /\ session[s].reply = ItemReply
           /\ Becomes(s, Ends(session[s], "already_distributed"))
  <2>1. PICK k \in Sess : k = Ends(session[s], "already_distributed")
    BY <1>1, EndsFields
  <2>2. /\ k.pc = "done" /\ k.outcome = "already_distributed"
        /\ k.settledBefore = session[s].settledBefore /\ k.fault = session[s].fault
    BY <1>1, <2>1, EndsFields
  <2>3. Guarded(k, tx[s])
    BY <1>1, <1>2, <2>2 DEF Good, Guarded, AfterGuard
  <2>4. Truthful(k, tx[s], item)
    BY <1>1, <1>2, <1>3, <2>2 DEF Good, Truthful
  <2>5. Timely(k, tx[s], now)
    BY <1>1, <1>2, <2>2 DEF Good, Timely, Calls
  <2>6. QED  BY <1>3, <2>1, <2>3, <2>4, <2>5, OneSession DEF Good
<1>4. CASE /\ session[s].reply # ItemReply
           /\ IsDictionaryNotFound(session[s].reply.error)
           /\ Becomes(s, Send(Taken(session[s]), "put"))
  <2>1. PICK a \in Sess : a = Taken(session[s])
    BY <1>1, TakenFields
  <2>2. a.settledBefore = session[s].settledBefore /\ a.fault = session[s].fault /\ a.outcome = session[s].outcome
    BY <1>1, <2>1, TakenFields
  <2>3. "put" \in Calls
    BY DEF Calls
  <2>4. PICK k \in Sess : k = Send(a, "put")
    BY <1>1, <2>3, SendFields
  <2>5. /\ k.pc = "put" /\ k.sent = now
        /\ k.settledBefore = session[s].settledBefore /\ k.fault = session[s].fault
        /\ k.outcome = session[s].outcome
    BY <1>1, <2>2, <2>3, <2>4, SendFields
  <2>6. Guarded(k, tx[s])
    <3>1. ASSUME session[s].settledBefore PROVE Misleads(session[s].fault)
      <4>1. PICK e \in Errors :
              session[s].reply = ErrorReply(e) /\ session[s].fault = ErrorReply(e)
        BY <1>1, <1>2, <1>4, <3>1 DEF Good, Guarded
      <4>2. ErrorReply(e).error = e
        BY ReplyFields
      <4>3. Ambiguous(e)
        BY <1>4, <4>1, <4>2, NotFoundIsAmbiguous
      <4>4. QED  BY <4>1, <4>3 DEF Misleads
    <3>2. QED  BY <1>1, <1>2, <2>5, <3>1 DEF Good, Guarded, AfterGuard
  <2>7. Truthful(k, tx[s], item)
    BY <1>1, <1>2, <2>5 DEF Good, Truthful
  <2>8. Timely(k, tx[s], now)
    BY <1>1, <1>2, <2>5, ClientAssumption DEF Good, Timely, Truthful, Calls, TypeCorrect
  <2>9. QED  BY <1>4, <2>1, <2>4, <2>6, <2>7, <2>8, OneSession DEF Good
<1>5. CASE \E o \in {"below_quorum", "threw"} : Becomes(s, Ends(session[s], o))
  BY <1>5, EndsGood, OneSession
<1>6. QED  BY <1>3, <1>4, <1>5 DEF GuardReturns

\* A put that returns has a transaction behind it.
LEMMA PutReturnsStep ==
  ASSUME Inv, NEW s \in Session, PutReturns(s)
  PROVE  Inv'
<1>1. session[s] \in Sess /\ Good(session[s], tx[s], now, item) /\ TypeCorrect
  BY DEF Inv, TypeCorrect
<1>2. session[s].pc = "putReply" /\ "submitted" \in Calls
  BY DEF PutReturns, Calls
<1>3. PICK k \in Sess : k = Send(session[s], "submitted")
  BY <1>1, <1>2, SendFields
<1>4. /\ k.pc = "submitted" /\ k.sent = now
      /\ k.settledBefore = session[s].settledBefore /\ k.fault = session[s].fault
      /\ k.outcome = session[s].outcome
  BY <1>1, <1>2, <1>3, SendFields
<1>5. Guarded(k, tx[s])
  BY <1>1, <1>2, <1>4 DEF Good, Guarded, AfterGuard
<1>6. Truthful(k, tx[s], item)
  BY <1>1, <1>2, <1>4 DEF Good, Truthful
<1>7. Timely(k, tx[s], now)
  BY <1>1, <1>2, <1>4, ClientAssumption DEF Good, Timely, Truthful, Calls, TypeCorrect
<1>8. QED  BY <1>3, <1>5, <1>6, <1>7, OneSession DEF Good, PutReturns

\* A session that waits sends its first poll and has its deadline.
LEMMA StartWaitingStep ==
  ASSUME Inv, NEW s \in Session, StartWaiting(s)
  PROVE  Inv'
<1>1. session[s] \in Sess /\ Good(session[s], tx[s], now, item) /\ TypeCorrect
  BY DEF Inv, TypeCorrect
<1>2. session[s].pc = "submitted" /\ "poll" \in Calls
  BY DEF StartWaiting, Calls
<1>3. now \in Nat /\ now + Timeout \in Nat
  BY <1>1, ClientAssumption DEF TypeCorrect
<1>4. PICK a \in Sess : a = [session[s] EXCEPT !.began = now, !.deadline = now + Timeout]
  BY <1>1, <1>3 DEF Sess
<1>5. /\ a.began = now /\ a.deadline = now + Timeout
      /\ a.settledBefore = session[s].settledBefore /\ a.fault = session[s].fault
      /\ a.outcome = session[s].outcome
  BY <1>1, <1>3, <1>4 DEF Sess
<1>6. PICK k \in Sess : k = Send(a, "poll")
  BY <1>1, <1>2, SendFields
<1>7. /\ k.pc = "poll" /\ k.sent = now
      /\ k.began = now /\ k.deadline = now + Timeout
      /\ k.settledBefore = session[s].settledBefore /\ k.fault = session[s].fault
      /\ k.outcome = session[s].outcome
  BY <1>1, <1>2, <1>5, <1>6, SendFields
<1>8. Guarded(k, tx[s])
  BY <1>1, <1>2, <1>7 DEF Good, Guarded, AfterGuard
<1>9. Truthful(k, tx[s], item)
  BY <1>1, <1>2, <1>7 DEF Good, Truthful
<1>10. Timely(k, tx[s], now)
  <2>1. session[s].outcome = "none"
    BY <1>1, <1>2 DEF Good, Truthful
  <2>2. QED  BY <1>3, <1>7, <2>1, ClientAssumption DEF Timely, Calls
<1>11. Becomes(s, k)
  BY <1>4, <1>6 DEF StartWaiting
<1>12. QED  BY <1>8, <1>9, <1>10, <1>11, OneSession DEF Good

\* After its pause a waiting session polls again.
LEMMA WakeStep ==
  ASSUME Inv, NEW s \in Session, Wake(s)
  PROVE  Inv'
<1>1. session[s] \in Sess /\ Good(session[s], tx[s], now, item) /\ TypeCorrect
  BY DEF Inv, TypeCorrect
<1>2. session[s].pc = "sleep" /\ "poll" \in Calls
  BY DEF Wake, Calls
<1>3. PICK k \in Sess : k = Send(session[s], "poll")
  BY <1>1, <1>2, SendFields
<1>4. /\ k.pc = "poll" /\ k.sent = now
      /\ k.began = session[s].began /\ k.deadline = session[s].deadline
      /\ k.settledBefore = session[s].settledBefore /\ k.fault = session[s].fault
      /\ k.outcome = session[s].outcome
  BY <1>1, <1>2, <1>3, SendFields
<1>5. Guarded(k, tx[s])
  BY <1>1, <1>2, <1>4 DEF Good, Guarded, AfterGuard
<1>6. Truthful(k, tx[s], item)
  BY <1>1, <1>2, <1>4 DEF Good, Truthful
<1>7. Timely(k, tx[s], now)
  <2>1. /\ session[s].outcome = "none"
        /\ session[s].deadline = session[s].began + Timeout
        /\ now <= session[s].wake /\ session[s].wake <= session[s].deadline + PollInterval
    BY <1>1, <1>2 DEF Good, Truthful, Timely
  <2>2. /\ now \in Nat /\ session[s].wake \in Nat /\ session[s].deadline \in Nat
    BY <1>1 DEF TypeCorrect, Sess
  <2>3. now <= session[s].deadline + PollInterval /\ now <= now + Latency
    BY <2>1, <2>2, ClientAssumption
  <2>4. QED  BY <1>4, <2>1, <2>2, <2>3 DEF Timely, Calls
<1>8. Becomes(s, k)
  BY <1>3 DEF Wake, Awake
<1>9. QED  BY <1>5, <1>6, <1>7, <1>8, OneSession DEF Good

\* The result is reported as it is, and a tentative one is not final.
LEMMA NodeReportsStep ==
  ASSUME Inv, NEW s \in Session, NodeReports(s)
  PROVE  Inv'
<1>1. session[s] \in Sess /\ Good(session[s], tx[s], now, item) /\ tx[s] \in Tx
  BY DEF Inv, TypeCorrect
<1>2. session[s].pc = "poll" /\ "pollReply" \in Calls
  BY DEF NodeReports, Calls
<1>3. PICK r \in Reports(tx[s]) : Becomes(s, Replied(session[s], "pollReply", r))
  BY DEF NodeReports
<1>4. r \in Replies /\ IF Executed(tx[s]) THEN r.result = tx[s].status ELSE ~IsFinal(r)
  <2>1. CASE Executed(tx[s])
    <3>1. r = Info("real", tx[s].status) /\ tx[s].status \in {"success", "failure"}
      BY <2>1 DEF Reports, Executed
    <3>2. QED  BY <2>1, <3>1, ReplyFields
  <2>2. CASE ~Executed(tx[s])
    <3>1. \/ r = Info("zero", "success") \/ r = Info("zero", "failure")
          \/ r = Info("real", "none")
      BY <2>2 DEF Reports, Executed
    <3>2. QED  BY <2>2, <3>1, ReplyFields
  <2>3. QED  BY <2>1, <2>2
<1>5. PICK k \in Sess : k = Replied(session[s], "pollReply", r)
  BY <1>1, <1>2, <1>4, RepliedFields
<1>6. /\ k.pc = "pollReply" /\ k.sent = session[s].sent /\ k.reply = r
      /\ k.began = session[s].began /\ k.deadline = session[s].deadline
      /\ k.settledBefore = session[s].settledBefore /\ k.fault = session[s].fault
      /\ k.outcome = session[s].outcome
  BY <1>1, <1>2, <1>4, <1>5, RepliedFields
<1>7. Guarded(k, tx[s])
  BY <1>1, <1>2, <1>6 DEF Good, Guarded, AfterGuard
<1>8. Truthful(k, tx[s], item)
  BY <1>1, <1>2, <1>4, <1>6 DEF Good, Truthful
<1>9. Timely(k, tx[s], now)
  <2>1. Executed(tx[s]) => IsFinal(r)
    <3>1. SUFFICES ASSUME Executed(tx[s]) PROVE IsFinal(r)
      OBVIOUS
    <3>2. r = Info("real", tx[s].status) /\ tx[s].status \in {"success", "failure"}
      BY <3>1 DEF Reports, Executed
    <3>3. QED  BY <3>2, ReplyFields
  <2>2. QED  BY <1>1, <1>2, <1>6, <2>1 DEF Good, Timely, Truthful, Calls
<1>10. QED  BY <1>3, <1>5, <1>7, <1>8, <1>9, OneSession DEF Good

\* A final report ends the session with it, any other the wait or a round.
LEMMA PollReturnsStep ==
  ASSUME Inv, NEW s \in Session, PollReturns(s)
  PROVE  Inv'
<1>1. session[s] \in Sess /\ Good(session[s], tx[s], now, item) /\ TypeCorrect
      /\ tx[s] \in Tx
  BY DEF Inv, TypeCorrect
<1>2. session[s].pc = "pollReply"
  BY DEF PollReturns
<1>3. CASE IsFinal(session[s].reply)
  <2>1. Executed(tx[s]) /\ session[s].reply.result = tx[s].status
    BY <1>1, <1>2, <1>3 DEF Good, Truthful
  <2>2. tx[s].status \in {"success", "failure"}
    BY <2>1 DEF Executed
  <2>3. PICK k \in Sess : k = Ends(session[s], tx[s].status)
    BY <1>1, <2>2, EndsFields
  <2>4. /\ k.pc = "done" /\ k.outcome = tx[s].status
        /\ k.settledBefore = session[s].settledBefore /\ k.fault = session[s].fault
    BY <1>1, <2>2, <2>3, EndsFields
  <2>5. Guarded(k, tx[s])
    BY <1>1, <1>2, <2>4 DEF Good, Guarded, AfterGuard
  <2>6. Truthful(k, tx[s], item)
    BY <1>1, <1>2, <2>2, <2>4 DEF Good, Truthful
  <2>7. Timely(k, tx[s], now)
    BY <1>1, <1>2, <2>2, <2>4 DEF Good, Timely, Calls
  <2>8. Becomes(s, k)
    BY <1>3, <2>1, <2>3 DEF PollReturns, Outcome
  <2>9. QED  BY <2>5, <2>6, <2>7, <2>8, OneSession DEF Good
<1>4. CASE ~IsFinal(session[s].reply) /\ now >= session[s].deadline
  <2>1. PICK k \in Sess : k = Ends(session[s], "timeout")
    BY <1>1, EndsFields
  <2>2. /\ k.pc = "done" /\ k.outcome = "timeout"
        /\ k.settledBefore = session[s].settledBefore /\ k.fault = session[s].fault
        /\ k.deadline = session[s].deadline
    BY <1>1, <2>1, EndsFields
  <2>3. Guarded(k, tx[s])
    BY <1>1, <1>2, <2>2 DEF Good, Guarded, AfterGuard
  <2>4. Truthful(k, tx[s], item)
    BY <1>1, <1>2, <2>2 DEF Good, Truthful
  <2>5. Timely(k, tx[s], now)
    <3>1. now \in Nat /\ session[s].sent \in Nat /\ session[s].deadline \in Nat
          /\ tx[s].at \in Nat
      BY <1>1 DEF TypeCorrect, Sess, Tx
    <3>2. now <= session[s].sent + Latency /\ (Executed(tx[s]) => session[s].sent <= tx[s].at)
      BY <1>1, <1>2, <1>4 DEF Good, Timely, Calls
    <3>3. session[s].deadline <= now
          /\ (Executed(tx[s]) => session[s].deadline <= tx[s].at + Latency)
      BY <1>4, <3>1, <3>2, ClientAssumption
    <3>4. QED  BY <2>2, <3>3 DEF Timely, Calls
  <2>6. Becomes(s, k)
    BY <1>4, <2>1 DEF PollReturns, NextRound
  <2>7. QED  BY <2>3, <2>4, <2>5, <2>6, OneSession DEF Good
<1>5. CASE ~IsFinal(session[s].reply) /\ ~(now >= session[s].deadline)
  <2>1. PICK k \in Sess : k = Sleeps(session[s])
    BY <1>1, SleepsFields
  <2>2. /\ k.pc = "sleep" /\ k.wake = now + PollInterval
        /\ k.settledBefore = session[s].settledBefore /\ k.fault = session[s].fault
        /\ k.began = session[s].began /\ k.deadline = session[s].deadline
        /\ k.outcome = session[s].outcome
    BY <1>1, <2>1, SleepsFields
  <2>3. Guarded(k, tx[s])
    BY <1>1, <1>2, <2>2 DEF Good, Guarded, AfterGuard
  <2>4. Truthful(k, tx[s], item)
    BY <1>1, <1>2, <2>2 DEF Good, Truthful
  <2>5. Timely(k, tx[s], now)
    <3>1. now \in Nat /\ session[s].deadline \in Nat
      BY <1>1 DEF TypeCorrect, Sess
    <3>2. session[s].outcome = "none" /\ session[s].deadline = session[s].began + Timeout
      BY <1>1, <1>2 DEF Good, Truthful, Timely
    <3>3. now <= now + PollInterval /\ now + PollInterval <= session[s].deadline + PollInterval
      BY <1>5, <3>1, ClientAssumption
    <3>4. QED  BY <2>2, <3>2, <3>3 DEF Timely, Calls
  <2>6. Becomes(s, k)
    BY <1>5, <2>1 DEF PollReturns, NextRound
  <2>7. QED  BY <2>3, <2>4, <2>5, <2>6, OneSession DEF Good
<1>6. QED  BY <1>3, <1>4, <1>5

\* A session that throws.
LEMMA ThrowsStep ==
  ASSUME Inv, NEW s \in Session, ConstructionThrows(s) \/ PutThrows(s) \/ PollThrows(s)
  PROVE  Inv'
<1>1. PICK o \in {"poll_failed", "threw"} : Becomes(s, Ends(session[s], o))
  BY DEF ConstructionThrows, PutThrows, PollThrows, AfterPollFault
<1>2. QED  BY <1>1, EndsGood, OneSession

-----------------------------------------------------------------------------
(* The steps of the node, the chain and the clock. *)

\* The node accepts a transaction that was sent to it.
LEMMA NodeTakesStep ==
  ASSUME Inv, NEW s \in Session, NodeTakes(s)
  PROVE  Inv'
<1>1. TypeCorrect /\ session[s] \in Sess /\ tx[s] \in Tx
      /\ Good(session[s], tx[s], now, item)
  BY DEF Inv, TypeCorrect
<1>2. /\ session[s].pc = "put" /\ now' = now /\ item' = item
      /\ session' = [session EXCEPT ![s].pc = "putReply"]
      /\ tx' = [tx EXCEPT ![s].status = "pending"]
  BY DEF NodeTakes
<1>3. PICK k \in Sess : k = [session[s] EXCEPT !.pc = "putReply"]
  BY <1>1 DEF Sess
<1>4. PICK t \in Tx : t = [tx[s] EXCEPT !.status = "pending"]
  BY <1>1 DEF Tx
<1>5. session' = [session EXCEPT ![s] = k] /\ tx' = [tx EXCEPT ![s] = t]
  BY <1>2, <1>3, <1>4
<1>6. /\ k.pc = "putReply" /\ k.sent = session[s].sent
      /\ k.settledBefore = session[s].settledBefore /\ k.fault = session[s].fault
      /\ k.outcome = session[s].outcome /\ t.status = "pending"
  BY <1>1, <1>3, <1>4 DEF Sess, Tx
<1>7. TypeCorrect'
  BY <1>1, <1>2, <1>5 DEF TypeCorrect
<1>8. Good(k, t, now, item)
  <2>1. Guarded(k, t)
    BY <1>1, <1>2, <1>6 DEF Good, Guarded, AfterGuard
  <2>2. Truthful(k, t, item)
    BY <1>1, <1>2, <1>6 DEF Good, Truthful
  <2>3. Timely(k, t, now)
    BY <1>1, <1>2, <1>6 DEF Good, Timely, Truthful, Calls
  <2>4. QED  BY <2>1, <2>2, <2>3 DEF Good
<1>9. ASSUME NEW x \in Session
      PROVE  Good(session'[x], tx'[x], now, item)
  BY <1>1, <1>5, <1>8 DEF Inv, TypeCorrect
<1>10. QED  BY <1>2, <1>7, <1>9 DEF Inv

\* An execution is later than every request that is on its way, and after a
\* wait that was given up it is later than the deadline.
LEMMA ExecuteStep ==
  ASSUME Inv, NEW s \in Session, NEW status \in {"success", "failure"},
         Execute(s, status)
  PROVE  Inv'
<1>1. TypeCorrect /\ session[s] \in Sess /\ tx[s] \in Tx
      /\ Good(session[s], tx[s], now, item)
  BY DEF Inv, TypeCorrect
<1>2. /\ tx[s].status = "pending" /\ now' = now /\ session' = session
      /\ item' = (item \/ status = "success")
      /\ tx' = [tx EXCEPT ![s] = [status |-> status, at |-> now]]
  BY DEF Execute
<1>3. PICK t \in Tx : t = [status |-> status, at |-> now]
  BY <1>1 DEF Tx, TypeCorrect
<1>4. t.status = status /\ t.at = now /\ tx' = [tx EXCEPT ![s] = t]
  BY <1>2, <1>3
<1>5. TypeCorrect'
  BY <1>1, <1>2, <1>4 DEF TypeCorrect
<1>6. Good(session[s], t, now, item')
  <2>1. Guarded(session[s], t)
    BY <1>1, <1>2, <1>4 DEF Good, Guarded
  <2>2. Truthful(session[s], t, item')
    BY <1>1, <1>2, <1>4 DEF Good, Truthful, Executed
  <2>3. Timely(session[s], t, now)
    <3>1. now \in Nat /\ session[s].deadline \in Nat
      BY <1>1 DEF TypeCorrect, Sess
    <3>2. QED  BY <1>1, <1>4, <3>1, ClientAssumption DEF Good, Timely, Calls
  <2>4. QED  BY <2>1, <2>2, <2>3 DEF Good
<1>7. ASSUME NEW x \in Session
      PROVE  Good(session[x], tx'[x], now, item')
  <2>1. CASE x = s
    BY <1>1, <1>4, <1>6, <2>1 DEF TypeCorrect
  <2>2. CASE x # s
    <3>1. tx'[x] = tx[x] /\ Good(session[x], tx[x], now, item)
      BY <1>1, <1>4, <2>2 DEF Inv, TypeCorrect
    <3>2. Truthful(session[x], tx[x], item')
      BY <1>2, <3>1 DEF Good, Truthful
    <3>3. QED  BY <3>1, <3>2 DEF Good
  <2>3. QED  BY <2>1, <2>2
<1>8. QED  BY <1>2, <1>5, <1>7 DEF Inv

\* A pending transaction that expires has no effect.
LEMMA ExpireStep ==
  ASSUME Inv, NEW s \in Session, Expire(s)
  PROVE  Inv'
<1>1. TypeCorrect /\ session[s] \in Sess /\ tx[s] \in Tx
      /\ Good(session[s], tx[s], now, item)
  BY DEF Inv, TypeCorrect
<1>2. /\ tx[s].status = "pending" /\ now' = now /\ session' = session /\ item' = item
      /\ tx' = [tx EXCEPT ![s].status = "expired"]
  BY DEF Expire
<1>3. PICK t \in Tx : t = [tx[s] EXCEPT !.status = "expired"]
  BY <1>1 DEF Tx
<1>4. t.status = "expired" /\ tx' = [tx EXCEPT ![s] = t]
  BY <1>1, <1>2, <1>3 DEF Tx
<1>5. TypeCorrect'
  BY <1>1, <1>2, <1>4 DEF TypeCorrect
<1>6. Good(session[s], t, now, item)
  <2>1. Guarded(session[s], t)
    BY <1>1, <1>2, <1>4 DEF Good, Guarded
  <2>2. Truthful(session[s], t, item)
    BY <1>1, <1>2, <1>4 DEF Good, Truthful, Executed
  <2>3. Timely(session[s], t, now)
    BY <1>1, <1>4 DEF Good, Timely, Executed
  <2>4. QED  BY <2>1, <2>2, <2>3 DEF Good
<1>7. ASSUME NEW x \in Session
      PROVE  Good(session[x], tx'[x], now, item)
  BY <1>1, <1>4, <1>6 DEF Inv, TypeCorrect
<1>8. QED  BY <1>2, <1>5, <1>7 DEF Inv

\* Time waits for the calls and the timers that are due.
LEMMA TickStep ==
  ASSUME Inv, Tick
  PROVE  Inv'
<1>1. TypeCorrect'
  BY DEF Inv, TypeCorrect, Tick
<1>2. ASSUME NEW s \in Session
      PROVE  Good(session[s], tx[s], now + 1, item)
  <2>1. session[s] \in Sess /\ Good(session[s], tx[s], now, item) /\ now \in Nat
    BY DEF Inv, TypeCorrect
  <2>2. session[s].sent \in Nat /\ session[s].wake \in Nat /\ session[s].deadline \in Nat
    BY <2>1 DEF Sess
  <2>3. /\ session[s].pc \in Calls => now < session[s].sent + Latency
        /\ session[s].pc = "sleep" => now < session[s].wake
    BY DEF Tick, InFlight, Calls
  <2>4. Timely(session[s], tx[s], now + 1)
    BY <2>1, <2>2, <2>3, ClientAssumption DEF Good, Timely
  <2>5. QED  BY <2>1, <2>4 DEF Good
<1>3. QED  BY <1>1, <1>2 DEF Inv, Tick

-----------------------------------------------------------------------------
(* The invariant and what follows from it. *)

\* Inv holds throughout.
LEMMA Invariant == ClientSafety => []Inv
<1>1. ClientInit => Inv
  <2>1. SUFFICES ASSUME ClientInit PROVE Inv
    OBVIOUS
  <2>2. Idle \in Sess /\ NoTx \in Tx
    BY ReplyFields DEF Idle, NoTx, Sess, Tx
  <2>3. /\ Idle.pc = "idle" /\ Idle.outcome = "none" /\ Idle.settledBefore = FALSE
        /\ NoTx.status = "none"
    BY DEF Idle, NoTx
  <2>4. Guarded(Idle, NoTx)
    BY <2>3 DEF Guarded, AfterGuard
  <2>5. Truthful(Idle, NoTx, item)
    BY <2>3 DEF Truthful
  <2>6. Timely(Idle, NoTx, now)
    BY <2>3 DEF Timely, Calls
  <2>7. QED  BY <2>1, <2>2, <2>4, <2>5, <2>6 DEF ClientInit, Inv, TypeCorrect, Good
<1>2. Inv /\ [ClientNext]_clientVars => Inv'
  <2>1. SUFFICES ASSUME Inv, [ClientNext]_clientVars PROVE Inv'
    OBVIOUS
  <2>2. CASE UNCHANGED clientVars
    BY <2>1, <2>2 DEF clientVars, Inv, TypeCorrect
  <2>3. CASE Tick
    BY <2>1, <2>3, TickStep
  <2>4. ASSUME NEW s \in Session, Start(s) \/ Proceed(s) \/ Expire(s)
        PROVE  Inv'
    <3>1. CASE ConstructionThrows(s) \/ PutThrows(s) \/ PollThrows(s)
      BY <2>1, <3>1, ThrowsStep
    <3>2. CASE AskGuard(s)
      BY <2>1, <3>2, AskGuardStep
    <3>3. CASE NodeReads(s) \/ GuardReturns(s)
      BY <2>1, <3>3, NodeReadsStep, GuardReturnsStep
    <3>4. CASE NodeTakes(s) \/ PutReturns(s)
      BY <2>1, <3>4, NodeTakesStep, PutReturnsStep
    <3>5. CASE StartWaiting(s) \/ NodeReports(s) \/ PollReturns(s) \/ Wake(s)
      BY <2>1, <3>5, StartWaitingStep, NodeReportsStep, PollReturnsStep, WakeStep
    <3>6. CASE Expire(s)
      BY <2>1, <3>6, ExpireStep
    <3>7. QED  BY <2>4, <3>1, <3>2, <3>3, <3>4, <3>5, <3>6 DEF Start, Proceed
  <2>5. ASSUME NEW s \in Session, NEW status \in {"success", "failure"}, Execute(s, status)
        PROVE  Inv'
    BY <2>1, <2>5, ExecuteStep
  <2>6. QED  BY <2>1, <2>2, <2>3, <2>4, <2>5 DEF ClientNext
<1>3. QED  BY <1>1, <1>2, PTL DEF ClientSafety

\* A session submits for a cycle that was settled when its guard asked only if
\* the guard was answered by an ambiguous fault, whatever the errors are.
THEOREM GuardSound == ClientSafety => []GuardIsSound
<1>1. ASSUME Inv, NEW s \in Session, tx[s].status # "none", session[s].settledBefore
      PROVE  session[s].fault # NoReply /\ Ambiguous(session[s].fault.error)
  <2>1. PICK e \in Errors : session[s].fault = ErrorReply(e) /\ Ambiguous(e)
    BY <1>1 DEF Inv, Good, Guarded, Misleads
  <2>2. ErrorReply(e).error = e /\ ErrorReply(e).kind = "error" /\ NoReply.kind = "none"
    BY DEF ErrorReply, NoReply
  <2>3. QED  BY <2>1, <2>2
<1>2. Inv => GuardIsSound
  BY <1>1 DEF GuardIsSound
<1>3. QED  BY <1>2, Invariant, PTL

\* waitForFinality reports an execution only as the chain has it.
THEOREM FinalityIsTrue == ClientSafety => []OutcomeIsTruth
<1>1. Inv => OutcomeIsTruth
  BY DEF Inv, Good, Truthful, OutcomeIsTruth
<1>2. QED  BY <1>1, Invariant, PTL

\* run-cycle.mjs exits with 0 only if the cycle is settled.
THEOREM ExitZero == ClientSafety => []ExitZeroMeansSettled
<1>1. Inv => ExitZeroMeansSettled
  BY DEF Inv, Good, Truthful, ExitZeroMeansSettled, ExitCode
<1>2. QED  BY <1>1, Invariant, PTL

\* waitForFinality ends within the timeout, one sleep and one call.
THEOREM WaitBounded == ClientSafety => []WaitIsBounded
<1>1. Inv => WaitIsBounded
  <2>1. SUFFICES ASSUME Inv, NEW s \in Session, Waiting(s)
                 PROVE  now <= session[s].began + Timeout + PollInterval + Latency
    BY DEF WaitIsBounded
  <2>2. session[s] \in Sess /\ Timely(session[s], tx[s], now) /\ now \in Nat
    BY <2>1 DEF Inv, TypeCorrect, Good
  <2>3. session[s].began \in Nat /\ session[s].sent \in Nat /\ session[s].wake \in Nat
    BY <2>2 DEF Sess
  <2>4. QED  BY <2>1, <2>2, <2>3, ClientAssumption DEF Waiting, Timely, Calls
<1>2. QED  BY <1>1, Invariant, PTL

\* waitForFinality does not give up on a transaction that was executed a
\* call's time before the deadline.
THEOREM GivesUpHonestly == ClientSafety => []TimeoutIsHonest
<1>1. Inv => TimeoutIsHonest
  <2>1. SUFFICES ASSUME Inv, NEW s \in Session, session[s].outcome = "timeout",
                        tx[s].status \in {"success", "failure"}
                 PROVE  tx[s].at + Latency >= session[s].deadline
    BY DEF TimeoutIsHonest
  <2>2. /\ session[s] \in Sess /\ tx[s] \in Tx
        /\ Timely(session[s], tx[s], now)
    BY <2>1 DEF Inv, TypeCorrect, Good
  <2>3. session[s].deadline \in Nat /\ tx[s].at \in Nat
    BY <2>2 DEF Sess, Tx
  <2>4. QED  BY <2>1, <2>2, <2>3, ClientAssumption DEF Timely, Executed
<1>2. QED  BY <1>1, Invariant, PTL
=============================================================================
