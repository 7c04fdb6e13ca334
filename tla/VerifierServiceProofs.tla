----------------------- MODULE VerifierServiceProofs -----------------------
(***************************************************************************)
(* For any number of requests, authorizations and cycles: VerifierService  *)
(* sells verdicts as Sale says and keeps its requests' safety properties;  *)
(* with the clients of PaidQuery, and through restarts, it still does, and *)
(* the clients get what PaidAnswer promises them.                          *)
(***************************************************************************)
EXTENDS PaidQuery, TLAPS

\* The shape of a request; the process it was lost with may have left it.
RequestRecords ==
  [pc : {"idle", "init", "gate", "fetch", "settle", "done", "lost", "lostSettling"},
   auth : Authorization \cup {Nothing}, query : Cycle \cup {Malformed},
   status : {0, 200, 400, 402, 429, 500}, verdict : {"yes", "no", Nothing},
   fault : {"none", "call"}]

ServiceTypeOK ==
  /\ req \in [Request -> RequestRecords]
  /\ init \in {"null", "pending", "resolved"}
  /\ spent \in [Authorization -> Request \cup {Nobody}]
  /\ rail \in [Cycle -> Intents]

\* What is known of a request at each of its awaits.
Progress(q, r) ==
  /\ q.pc = "done" <=> q.status # 0
  /\ q.pc \in {"fetch", "settle", "lostSettling"} => q.query \in Cycle
  /\ q.pc \in {"fetch", "settle", "lostSettling"} /\ r \notin Unpriced => q.auth # Nothing
  /\ q.pc \in {"settle", "lostSettling"} => r \notin Unpriced /\ q.verdict # Nothing
  /\ q.verdict # Nothing => q.pc \in {"settle", "lostSettling", "done"}
  /\ q.status = 500 => q.fault = "call"

\* An authorization is spent for the request that offers it, once that
\* request has a verdict to settle for.
Spending ==
  \A a \in Authorization, r \in Request : spent[a] = r =>
    /\ req[r].auth = a
    /\ req[r].pc \in {"settle", "lostSettling", "done"}
    /\ req[r].verdict # Nothing
    /\ req[r].query # Malformed

Confirmed(q) ==
  /\ q.query \in Cycle
  /\ rail[q.query].status = "succeeded"
  /\ rail[q.query].reference = ExpectedReference
  /\ rail[q.query].amount >= PaymentIndex[q.query]

ServiceInv ==
  /\ ServiceTypeOK
  /\ \A r \in Request : Progress(req[r], r)
  /\ Spending
  /\ \A r \in Request : req[r].verdict = "yes" => Confirmed(req[r])

-----------------------------------------------------------------------------
(* What the updates of a request change and keep. *)

\* A request that moves on keeps all but its place.
LEMMA AtRequest ==
  ASSUME NEW q \in RequestRecords,
         NEW pc \in {"idle", "init", "gate", "fetch", "settle", "done", "lost", "lostSettling"}
  PROVE  /\ At(q, pc) \in RequestRecords
         /\ At(q, pc).pc = pc /\ At(q, pc).status = q.status
         /\ At(q, pc).auth = q.auth /\ At(q, pc).query = q.query
         /\ At(q, pc).verdict = q.verdict /\ At(q, pc).fault = q.fault
  BY DEF At, RequestRecords

\* A request that is answered is done and has that status.
LEMMA AnsweredRequest ==
  ASSUME NEW q \in RequestRecords, NEW status \in {200, 400, 402, 429, 500}
  PROVE  /\ Answered(q, status) \in RequestRecords
         /\ Answered(q, status).pc = "done" /\ Answered(q, status).status = status
         /\ Answered(q, status).auth = q.auth /\ Answered(q, status).query = q.query
         /\ Answered(q, status).verdict = q.verdict
         /\ Answered(q, status).fault = q.fault
<1> DEFINE d == At(q, "done")
<1>1. /\ d \in RequestRecords /\ d.pc = "done" /\ d.auth = q.auth
      /\ d.query = q.query /\ d.verdict = q.verdict /\ d.fault = q.fault
  BY AtRequest
<1>2. Answered(q, status) = [d EXCEPT !.status = status]
  BY DEF Answered
<1> HIDE DEF d
<1>3. Answered(q, status) \in RequestRecords
  BY <1>1, <1>2 DEF RequestRecords
<1>4. /\ Answered(q, status).pc = d.pc /\ Answered(q, status).status = status
      /\ Answered(q, status).auth = d.auth /\ Answered(q, status).query = d.query
      /\ Answered(q, status).verdict = d.verdict
      /\ Answered(q, status).fault = d.fault
  BY <1>1, <1>2 DEF RequestRecords
<1> QED BY <1>1, <1>3, <1>4

\* A request that fails is answered 500, for a call that failed.
LEMMA FailedRequest ==
  ASSUME NEW q \in RequestRecords
  PROVE  /\ Failed(q) \in RequestRecords
         /\ Failed(q).pc = "done" /\ Failed(q).status = 500
         /\ Failed(q).fault = "call"
         /\ Failed(q).auth = q.auth /\ Failed(q).query = q.query
         /\ Failed(q).verdict = q.verdict
<1> DEFINE a == Answered(q, 500)
<1>1. /\ a \in RequestRecords /\ a.pc = "done" /\ a.status = 500
      /\ a.auth = q.auth /\ a.query = q.query /\ a.verdict = q.verdict
  BY AnsweredRequest
<1>2. Failed(q) = [a EXCEPT !.fault = "call"]
  BY DEF Failed
<1> HIDE DEF a
<1>3. Failed(q) \in RequestRecords
  BY <1>1, <1>2 DEF RequestRecords
<1>4. /\ Failed(q).pc = a.pc /\ Failed(q).status = a.status
      /\ Failed(q).fault = "call"
      /\ Failed(q).auth = a.auth /\ Failed(q).query = a.query
      /\ Failed(q).verdict = a.verdict
  BY <1>1, <1>2 DEF RequestRecords
<1> QED BY <1>1, <1>3, <1>4

\* A request with another authorization.
LEMMA OffersRequest ==
  ASSUME NEW q \in RequestRecords, NEW a \in Authorization \cup {Nothing}
  PROVE  /\ Offers(q, a) \in RequestRecords
         /\ Offers(q, a).pc = q.pc /\ Offers(q, a).status = q.status
         /\ Offers(q, a).auth = a /\ Offers(q, a).verdict = q.verdict
  BY DEF Offers, RequestRecords

\* A request for another cycle.
LEMMA AsksRequest ==
  ASSUME NEW q \in RequestRecords, NEW c \in Cycle \cup {Malformed}
  PROVE  /\ Asks(q, c) \in RequestRecords
         /\ Asks(q, c).pc = q.pc /\ Asks(q, c).status = q.status
         /\ Asks(q, c).auth = q.auth /\ Asks(q, c).query = c
         /\ Asks(q, c).verdict = q.verdict
  BY DEF Asks, RequestRecords

\* A request that has its verdict.
LEMMA JudgedRequest ==
  ASSUME NEW q \in RequestRecords, NEW v \in {"yes", "no"}
  PROVE  /\ Judged(q, v) \in RequestRecords
         /\ Judged(q, v).pc = q.pc /\ Judged(q, v).status = q.status
         /\ Judged(q, v).auth = q.auth /\ Judged(q, v).query = q.query
         /\ Judged(q, v).verdict = v
  BY DEF Judged, RequestRecords

\* ServiceInv holds before a request has arrived.
LEMMA InitService == ServiceInit => ServiceInv
  BY ServiceAssumption, NothingAssumption
     DEF ServiceInit, ServiceInv, ServiceTypeOK, RequestRecords, Progress, Spending,
         Fresh, Nobody, Malformed

\* An action that changes one request, to a shape that fits, and nothing it is
\* paid or confirmed by.
LEMMA OneRequestStep ==
  ASSUME ServiceInv, NEW r \in Request, NEW q \in RequestRecords,
         req' = [req EXCEPT ![r] = q],
         init' \in {"null", "pending", "resolved"}, UNCHANGED <<spent, rail>>,
         Progress(q, r),
         q.auth = req[r].auth \/ \A a \in Authorization : spent[a] # r,
         q.query = req[r].query \/ \A a \in Authorization : spent[a] # r,
         q.pc \in {"settle", "done"} \/ \A a \in Authorization : spent[a] # r,
         q.verdict # Nothing \/ \A a \in Authorization : spent[a] # r,
         q.verdict = "yes" => Confirmed(q)
  PROVE  ServiceInv'
<1>1. ServiceTypeOK'
  BY DEF ServiceInv, ServiceTypeOK
<1>2. \A s \in Request : req'[s] = IF s = r THEN q ELSE req[s]
  BY DEF ServiceInv, ServiceTypeOK
<1>3. \A s \in Request : Progress(req[s], s)'
  BY <1>2 DEF ServiceInv, Progress
<1>4. Spending'
  BY <1>2 DEF ServiceInv, Spending
<1>5. \A s \in Request : (req[s].verdict = "yes" => Confirmed(req[s]))'
  BY <1>2 DEF ServiceInv, Confirmed
<1> QED BY <1>1, <1>3, <1>4, <1>5 DEF ServiceInv

\* Requests that do not wait for a settlement have no authorization spent.
LEMMA Unspent ==
  ASSUME ServiceInv, NEW r \in Request, req[r].pc \notin {"settle", "lostSettling", "done"}
  PROVE  \A a \in Authorization : spent[a] # r
  BY DEF ServiceInv, Spending

-----------------------------------------------------------------------------
(* One lemma per group of actions. *)

\* A request arrives, with its authorization and its question.
LEMMA ArriveKeepsInv ==
  ASSUME ServiceInv, NEW r \in Request, NEW a \in Authorization \cup {Nothing},
         NEW c \in Cycle \cup {Malformed}, Arrive(r, a, c)
  PROVE  ServiceInv'
<1> DEFINE q == Asks(Offers(req[r], a), c)
           next == CASE init = "rejected" -> Answered(q, 500)
                     [] init = "resolved" -> At(q, "gate")
                     [] OTHER             -> At(q, "init")
<1>1. req[r] \in RequestRecords /\ init \in {"null", "pending", "resolved"}
  BY DEF ServiceInv, ServiceTypeOK
<1>2. /\ req[r].pc = "idle"
      /\ req' = [req EXCEPT ![r] = next]
      /\ init' = IF init = "null" THEN "pending" ELSE init
      /\ UNCHANGED <<spent, rail>>
  BY DEF Arrive
<1>3. next = At(q, "gate") \/ next = At(q, "init")
  BY <1>1
<1>q. /\ q \in RequestRecords /\ q.status = req[r].status
      /\ q.verdict = req[r].verdict /\ q.query = c /\ q.pc = req[r].pc
  BY <1>1, OffersRequest, AsksRequest
<1> HIDE DEF q
<1>4. /\ next \in RequestRecords
      /\ next.pc \in {"gate", "init"} /\ next.status = req[r].status
      /\ next.verdict = req[r].verdict /\ next.query = c
  BY <1>q, <1>3, AtRequest
<1> HIDE DEF next
<1>5. \A b \in Authorization : spent[b] # r
  BY <1>2, Unspent
<1>6. req[r].status = 0 /\ req[r].verdict = Nothing
  BY <1>2 DEF ServiceInv, Progress
<1>7. Progress(next, r)
  BY <1>4, <1>6 DEF Progress
<1>8. next.verdict # "yes"
  BY <1>4, <1>6, NothingAssumption
<1>9. init' \in {"null", "pending", "resolved"}
  BY <1>1, <1>2
<1> QED BY <1>2, <1>4, <1>5, <1>7, <1>8, <1>9, OneRequestStep

\* Initialization succeeds or fails for all that wait for it.
LEMMA InitializeKeepsInv ==
  ASSUME ServiceInv, Initialize
  PROVE  ServiceInv'
<1>1. /\ init' \in {"null", "resolved"}
      /\ UNCHANGED <<spent, rail>>
  BY DEF Initialize, InitDone, InitFails, AfterInitFailure
<1>2. \/ req' = [r \in Request |->
                  IF r \in Waiting THEN At(req[r], "gate") ELSE req[r]]
      \/ req' = [r \in Request |-> IF r \in Waiting THEN Failed(req[r]) ELSE req[r]]
  BY DEF Initialize, InitDone, InitFails
<1>3. \A r \in Request :
        /\ req[r] \in RequestRecords
        /\ \/ req'[r] = req[r]
           \/ req[r].pc = "init" /\ req'[r] = At(req[r], "gate")
           \/ req[r].pc = "init" /\ req'[r] = Failed(req[r])
  BY <1>2 DEF Waiting, ServiceInv, ServiceTypeOK
<1>4. \A r \in Request :
        /\ req'[r] \in RequestRecords
        /\ req'[r].auth = req[r].auth /\ req'[r].query = req[r].query
        /\ req'[r].verdict = req[r].verdict
        /\ \/ req'[r] = req[r]
           \/ req[r].pc = "init" /\ req'[r].pc = "gate" /\ req'[r].status = req[r].status
           \/ req[r].pc = "init" /\ req'[r].pc = "done" /\ req'[r].status = 500
              /\ req'[r].fault = "call"
  BY <1>3, AtRequest, FailedRequest
<1>5. ServiceTypeOK'
  BY <1>1, <1>2, <1>4 DEF ServiceInv, ServiceTypeOK
<1>6. \A r \in Request : Progress(req[r], r)'
  BY <1>4 DEF ServiceInv, Progress
<1>7. Spending'
  BY <1>1, <1>4 DEF ServiceInv, Spending
<1>8. \A r \in Request : (req[r].verdict = "yes" => Confirmed(req[r]))'
  BY <1>1, <1>4 DEF ServiceInv, Confirmed
<1> QED BY <1>5, <1>6, <1>7, <1>8 DEF ServiceInv

\* The steps that end or move on a request without a verdict.
LEMMA GateKeepsInv ==
  ASSUME ServiceInv, NEW r \in Request, Limited(r) \/ Gate(r) \/ SourceThrows(r)
  PROVE  ServiceInv'
<1> USE DEF Limited, Gate, GateThrows, PaymentError, PaymentVerified,
            NoPaymentRequired, SourceThrows
<1>1. /\ req[r] \in RequestRecords /\ req[r].pc \in {"idle", "gate", "fetch"}
      /\ req[r].status = 0 /\ req[r].verdict = Nothing
      /\ init' = init /\ UNCHANGED <<spent, rail>>
      /\ init \in {"null", "pending", "resolved"}
  BY DEF ServiceInv, ServiceTypeOK, Progress, RequestRecords
<1>2. \A a \in Authorization : spent[a] # r
  BY <1>1, Unspent
<1>3. PICK q : /\ req' = [req EXCEPT ![r] = q]
               /\ \/ \E status \in {400, 402, 429} : q = Answered(req[r], status)
                  \/ q = Failed(req[r])
                  \/ /\ q = At(req[r], "fetch")
                     /\ req[r].query # Malformed
                     /\ r \in Unpriced \/ req[r].auth # Nothing
  BY DEF Enter
<1>4. /\ q \in RequestRecords
      /\ q.auth = req[r].auth /\ q.query = req[r].query /\ q.verdict = req[r].verdict
      /\ \/ q.pc = "done" /\ q.status \in {400, 402, 429}
         \/ q.pc = "done" /\ q.status = 500 /\ q.fault = "call"
         \/ q.pc = "fetch" /\ q.status = 0
  BY <1>1, <1>3, AnsweredRequest, FailedRequest, AtRequest
<1>5. Progress(q, r)
  <2>1. q.query \in Cycle \cup {Malformed}
    BY <1>4 DEF RequestRecords
  <2>2. CASE q.pc = "done"
    BY <1>1, <1>4, <2>2 DEF Progress
  <2>3. CASE q.pc = "fetch"
    <3>1. req[r].query # Malformed /\ (r \in Unpriced \/ req[r].auth # Nothing)
      <4>1. q = At(req[r], "fetch") \/ q.pc = "done"
        BY <1>1, <1>3, AnsweredRequest, FailedRequest
      <4> QED BY <1>1, <1>3, <2>3, AnsweredRequest, FailedRequest
    <3> QED BY <1>1, <1>4, <2>1, <2>3, <3>1 DEF Progress
  <2> QED BY <1>4, <2>2, <2>3
<1>6. q.verdict # "yes"
  BY <1>1, <1>4, NothingAssumption
<1> QED BY <1>1, <1>2, <1>3, <1>4, <1>5, <1>6, OneRequestStep

\* A "yes" is decided on an intent of the rail, as it is when it is decided.
LEMMA YesIsConfirmed ==
  ASSUME NEW c \in Cycle, NEW answer,
         \/ answer \in NoAnswer
         \/ answer = IntentAnswer(rail[c]),
         Decide(StripeEvidence(c, answer))
  PROVE  /\ rail[c].status = "succeeded"
         /\ rail[c].reference = ExpectedReference
         /\ rail[c].amount >= PaymentIndex[c]
<1>1. answer.kind = "intent" /\ Confirms(answer.intent) /\ c \in DOMAIN PaymentIndex
  BY DEF Decide, StripeEvidence
<1>2. answer = IntentAnswer(rail[c])
  BY <1>1 DEF NoAnswer
<1>3. answer.intent = rail[c]
  BY <1>2 DEF IntentAnswer
<1>4. StripeEvidence(c, answer) = EvidenceIn(c, rail[c])
  BY <1>1, <1>3 DEF StripeEvidence
<1> QED BY <1>1, <1>3, <1>4 DEF Confirms, Decide, EvidenceIn

\* The evidence is fetched and judged.
LEMMA FetchedKeepsInv ==
  ASSUME ServiceInv, NEW r \in Request, NEW answer, Fetched(r, answer),
         \/ answer \in NoAnswer
         \/ answer = IntentAnswer(rail[req[r].query])
  PROVE  ServiceInv'
<1> DEFINE verdict == IF Decide(StripeEvidence(req[r].query, answer)) THEN "yes" ELSE "no"
           v == Judged(req[r], verdict)
           q == IF r \in Unpriced THEN Answered(v, 200) ELSE At(v, "settle")
<1>1. /\ req[r] \in RequestRecords /\ req[r].pc = "fetch" /\ req[r].query \in Cycle
      /\ req[r].status = 0 /\ UNCHANGED <<init, spent, rail>>
      /\ init \in {"null", "pending", "resolved"}
      /\ r \notin Unpriced => req[r].auth # Nothing
  BY DEF Fetched, ServiceInv, ServiceTypeOK, Progress
<1>2. req' = [req EXCEPT ![r] = q]
  BY DEF Fetched
<1>3. \A a \in Authorization : spent[a] # r
  BY <1>1, Unspent
<1>j. /\ v \in RequestRecords /\ v.pc = "fetch" /\ v.status = 0
      /\ v.query = req[r].query /\ v.auth = req[r].auth /\ v.verdict = verdict
  BY <1>1, JudgedRequest
<1> HIDE DEF v
<1>4. /\ q \in RequestRecords /\ q.query = req[r].query /\ q.auth = req[r].auth
      /\ q.verdict = verdict
      /\ r \in Unpriced => q.pc = "done" /\ q.status = 200
      /\ r \notin Unpriced => q.pc = "settle" /\ q.status = 0
  BY <1>j, AnsweredRequest, AtRequest
<1>5. verdict = "yes" => Confirmed(q)
  BY <1>1, <1>4, YesIsConfirmed DEF Confirmed
<1>6. verdict # Nothing
  BY NothingAssumption
<1>7. Progress(q, r)
  BY <1>1, <1>4, <1>6 DEF Progress
<1> HIDE DEF q, v, verdict
<1> QED BY <1>1, <1>2, <1>3, <1>4, <1>5, <1>7, OneRequestStep

\* The facilitator spends the authorization a request settles with.
LEMMA ChargeKeepsInv ==
  ASSUME ServiceInv, NEW r \in Request, Charge(r)
  PROVE  ServiceInv'
<1>1. /\ req[r].pc = "settle" /\ req[r].auth \in Authorization
      /\ req[r].verdict # Nothing /\ req[r].query # Malformed
  BY NothingAssumption
     DEF Charge, ServiceInv, Progress, ServiceTypeOK, RequestRecords, Malformed
<1>2. /\ spent' = [spent EXCEPT ![req[r].auth] = r] /\ UNCHANGED <<req, init, rail>>
  BY DEF Charge
<1>3. ServiceTypeOK'
  BY <1>1, <1>2 DEF ServiceInv, ServiceTypeOK
<1>4. Spending'
  BY <1>1, <1>2 DEF ServiceInv, ServiceTypeOK, Spending
<1>5. \A s \in Request : Progress(req[s], s)'
  BY <1>2 DEF ServiceInv, Progress
<1>6. \A s \in Request : (req[s].verdict = "yes" => Confirmed(req[s]))'
  BY <1>2 DEF ServiceInv, Confirmed
<1> QED BY <1>3, <1>4, <1>5, <1>6 DEF ServiceInv

\* Settlement returns, or fails, to its request.
LEMMA SettleKeepsInv ==
  ASSUME ServiceInv, NEW r \in Request, Settle(r)
  PROVE  ServiceInv'
<1>1. /\ req[r] \in RequestRecords /\ req[r].pc = "settle" /\ req[r].verdict # Nothing
      /\ init' = init /\ UNCHANGED <<spent, rail>>
      /\ init \in {"null", "pending", "resolved"}
      /\ req[r].verdict = "yes" => Confirmed(req[r])
  BY DEF Settle, SettlementReturns, SettlementThrows, ServiceInv, ServiceTypeOK, Progress
<1>2. PICK q : /\ req' = [req EXCEPT ![r] = q]
               /\ \/ \E status \in {200, 402} : q = Answered(req[r], status)
                  \/ q = Failed(req[r])
  BY DEF Settle, SettlementReturns, SettlementThrows, FlushStatus, OnSettlementError
<1>3. /\ q \in RequestRecords /\ q.pc = "done" /\ q.status # 0
      /\ q.status = 500 => q.fault = "call"
      /\ q.auth = req[r].auth /\ q.query = req[r].query /\ q.verdict = req[r].verdict
  BY <1>1, <1>2, AnsweredRequest, FailedRequest
<1>4. Progress(q, r)
  BY <1>3 DEF Progress
<1>5. q.verdict = "yes" => Confirmed(q)
  BY <1>1, <1>3 DEF Confirmed
<1> QED BY <1>1, <1>2, <1>3, <1>4, <1>5, OneRequestStep

\* An intent that has succeeded does not change any more.
LEMMA RailKeepsInv ==
  ASSUME ServiceInv, NEW c \in Cycle, NEW status \in {"succeeded", "canceled"},
         IntentSettles(c, status)
  PROVE  ServiceInv'
<1>1. /\ rail[c].status = "processing" /\ rail' = [rail EXCEPT ![c].status = status]
      /\ UNCHANGED <<req, init, spent>>
  BY DEF IntentSettles
<1>i. rail \in [Cycle -> Intents]
  BY DEF ServiceInv, ServiceTypeOK
<1>s. [rail[c] EXCEPT !.status = status] \in Intents
  BY <1>i DEF Intents
<1>r. rail' \in [Cycle -> Intents]
  BY <1>1, <1>i, <1>s
<1>2. ServiceTypeOK'
  BY <1>1, <1>r DEF ServiceInv, ServiceTypeOK
<1>3. \A d \in Cycle : rail[d].status = "succeeded" => rail'[d] = rail[d]
  BY <1>1 DEF ServiceInv, ServiceTypeOK
<1>4. \A s \in Request : (req[s].verdict = "yes" => Confirmed(req[s]))'
  BY <1>1, <1>3 DEF ServiceInv, Confirmed
<1>5. Spending' /\ \A s \in Request : Progress(req[s], s)'
  BY <1>1 DEF ServiceInv, Spending, Progress
<1> QED BY <1>2, <1>4, <1>5 DEF ServiceInv

\* A step that changes no request, authorization or intent.
LEMMA IdleKeepsInv ==
  ASSUME ServiceInv, UNCHANGED <<req, init, spent, rail>>
  PROVE  ServiceInv'
  BY DEF ServiceInv, ServiceTypeOK, Progress, Spending, Confirmed

\* Every step keeps ServiceInv.
LEMMA ServiceStep == ServiceInv /\ [ServiceNext]_serviceVars => ServiceInv'
<1> SUFFICES ASSUME ServiceInv, [ServiceNext]_serviceVars PROVE ServiceInv'
  OBVIOUS
<1>1. CASE \E r \in Request : Limited(r) \/ Gate(r)
  BY <1>1, GateKeepsInv
<1>2. CASE \E r \in Request : Fetch(r)
  <2>1. PICK r \in Request : Fetch(r)
    BY <1>2
  <2>2. CASE SourceThrows(r)
    BY <2>2, GateKeepsInv
  <2>3. CASE \E answer \in NoAnswer : Fetched(r, answer)
    BY <2>3, FetchedKeepsInv
  <2>4. CASE Fetched(r, IntentAnswer(rail[req[r].query]))
    BY <2>4, FetchedKeepsInv
  <2> QED BY <2>1, <2>2, <2>3, <2>4 DEF Fetch
<1>3. CASE \E r \in Request : Settle(r)
  BY <1>3, SettleKeepsInv
<1>4. CASE \E r \in Request : Charge(r)
  BY <1>4, ChargeKeepsInv
<1>5. CASE \E r \in Request, a \in Authorization \cup {Nothing}, q \in Cycle \cup {Malformed} :
             Arrive(r, a, q)
  BY <1>5, ArriveKeepsInv
<1>6. CASE Initialize
  BY <1>6, InitializeKeepsInv
<1>7. CASE WindowEnds
  BY <1>7, IdleKeepsInv DEF WindowEnds
<1>8. CASE \E c \in Cycle, status \in {"succeeded", "canceled"} : IntentSettles(c, status)
  BY <1>8, RailKeepsInv
<1>9. CASE UNCHANGED serviceVars
  BY <1>9, IdleKeepsInv DEF serviceVars
<1> QED
  BY <1>1, <1>2, <1>3, <1>4, <1>5, <1>6, <1>7, <1>8, <1>9 DEF ServiceNext, Advance

\* ServiceInv holds throughout.
LEMMA ServiceInvariant == ServiceSpec => []ServiceInv
<1> QED BY InitService, ServiceStep, PTL DEF ServiceSpec, ServiceSafety

-----------------------------------------------------------------------------

\* An authorization is spent only for a request whose verdict was made: nobody
\* is charged for what handleVerify refuses or fails to answer.
THEOREM ChargedOnlyForVerdicts == ServiceSpec => []ChargedForVerdict
<1>1. ServiceInv => ChargedForVerdict
  BY DEF ServiceInv, Spending, ChargedForVerdict
<1> QED BY <1>1, ServiceInvariant, PTL

\* runVerifier's "yes" is about an intent that has succeeded with the expected
\* reference and at least the expected amount, and stays so.
THEOREM NoYesIsFalse == ServiceSpec => []NoFalseYes
<1>1. ServiceInv => NoFalseYes
  BY DEF ServiceInv, Confirmed, NoFalseYes
<1> QED BY <1>1, ServiceInvariant, PTL

\* ensureInitialized forgets a failed initialization: a request is answered
\* 500 only for a call that failed while it was served.
THEOREM OwnFailures == ServiceSpec => []FailuresAreItsOwn
<1>1. ServiceInv => FailuresAreItsOwn
  BY DEF ServiceInv, Progress, FailuresAreItsOwn
<1> QED BY <1>1, ServiceInvariant, PTL

-----------------------------------------------------------------------------
(* The gate implements Sale. *)

\* The initial states are initial states of Sale.
LEMMA SaleBegins == ServiceInit => TheSale!Init
  BY DEF ServiceInit, TheSale!Init, SaleOutcome, Fresh

\* A step that leaves the outcomes and the payments as they are.
LEMMA SaleStutters ==
  ASSUME UNCHANGED spent, \A r \in Request : req'[r].status = req[r].status
  PROVE  UNCHANGED TheSale!vars
  BY DEF TheSale!vars, SaleOutcome

\* A step that answers one open request, paid or unpriced if it is sold.
LEMMA SaleAnswers ==
  ASSUME ServiceInv, NEW r \in Request, NEW q \in RequestRecords,
         req' = [req EXCEPT ![r] = q], UNCHANGED spent, req[r].status = 0,
         q.status = 200 => r \in Unpriced \/ \E a \in Authorization : spent[a] = r
  PROVE  [TheSale!Next]_(TheSale!vars)
<1>1. \A s \in Request : req'[s] = IF s = r THEN q ELSE req[s]
  BY DEF ServiceInv, ServiceTypeOK
<1>2. CASE q.status = 0
  BY <1>1, <1>2, SaleStutters
<1>3. CASE q.status = 200
  <2>1. \A s \in Request : SaleOutcome'[s] = IF s = r THEN "sold" ELSE SaleOutcome[s]
    BY <1>1, <1>3 DEF SaleOutcome
  <2>2. SaleOutcome[r] = "open"
    BY DEF SaleOutcome
  <2>f. /\ SaleOutcome = [s \in Request |-> SaleOutcome[s]]
        /\ SaleOutcome' = [s \in Request |-> SaleOutcome'[s]]
    BY DEF SaleOutcome
  <2>3. SaleOutcome' = [SaleOutcome EXCEPT ![r] = "sold"]
    BY <2>1, <2>f
  <2>4. TheSale!Sell(r)
    BY <1>3, <2>2, <2>3 DEF TheSale!Sell, TheSale!Paid
  <2> QED BY <2>4 DEF TheSale!Next
<1>4. CASE q.status # 0 /\ q.status # 200
  <2>1. \A s \in Request : SaleOutcome'[s] =
                             IF s \in {r} THEN "refused" ELSE SaleOutcome[s]
    BY <1>1, <1>4 DEF SaleOutcome
  <2>3. SaleOutcome' =
          [s \in Request |-> IF s \in {r} THEN "refused" ELSE SaleOutcome[s]]
    BY <2>1 DEF SaleOutcome
  <2>2. SaleOutcome[r] = "open"
    BY DEF SaleOutcome
  <2>4. TheSale!Refuse({r})
    BY <2>2, <2>3 DEF TheSale!Refuse
  <2> QED BY <2>4 DEF TheSale!Next
<1> QED BY <1>2, <1>3, <1>4

\* A failed initialization refuses all requests that wait for it.
LEMMA SaleRefusesWaiting ==
  ASSUME ServiceInv, InitFails
  PROVE  [TheSale!Next]_(TheSale!vars)
<1>1. \A r \in Request : req[r] \in RequestRecords /\ Progress(req[r], r)
  BY DEF ServiceInv, ServiceTypeOK
<1>2. \A r \in Request : req'[r] = IF r \in Waiting THEN Failed(req[r]) ELSE req[r]
  BY DEF InitFails
<1>3. \A r \in Waiting : req[r].status = 0
  BY <1>1 DEF Waiting, Progress
<1>4. \A r \in Waiting : req'[r].status = 500
  BY <1>1, <1>2, FailedRequest DEF Waiting
<1>5. \A r \in Request : SaleOutcome'[r] = IF r \in Waiting THEN "refused"
                                           ELSE SaleOutcome[r]
  BY <1>2, <1>4 DEF SaleOutcome
<1>6. SaleOutcome' = [r \in Request |-> IF r \in Waiting THEN "refused" ELSE SaleOutcome[r]]
  BY <1>5 DEF SaleOutcome
<1>7. \A r \in Waiting : SaleOutcome[r] = "open"
  BY <1>3 DEF SaleOutcome, Waiting
<1>8. UNCHANGED spent
  BY DEF InitFails
<1>9. TheSale!Refuse(Waiting)
  BY <1>6, <1>7, <1>8 DEF TheSale!Refuse
<1> QED BY <1>9 DEF TheSale!Next, Waiting

\* A charge of the facilitator is a charge of the sale.
LEMMA SaleCharges ==
  ASSUME ServiceInv, NEW r \in Request, Charge(r)
  PROVE  TheSale!Next
<1> DEFINE a == req[r].auth
<1>1. req[r] \in RequestRecords /\ Progress(req[r], r) /\ req[r].pc = "settle"
  BY DEF ServiceInv, ServiceTypeOK, Charge
<1>2. a \in Authorization /\ req[r].status = 0
  BY <1>1 DEF Progress, RequestRecords
<1>3. /\ spent[a] = Nobody
      /\ spent' = [spent EXCEPT ![a] = r]
      /\ UNCHANGED req
  BY DEF Charge
<1>4. \A b \in Authorization : spent[b] = r => b = a
  BY DEF ServiceInv, Spending
<1>5. Nobody # r
  BY NothingAssumption DEF Nobody
<1> HIDE DEF a
<1>6. SaleOutcome[r] = "open" /\ ~TheSale!Paid(r)
  BY <1>2, <1>3, <1>4, <1>5 DEF SaleOutcome, TheSale!Paid
<1>7. TheSale!Charge(r, a)
  BY <1>3, <1>6 DEF TheSale!Charge, SaleOutcome
<1> QED BY <1>2, <1>7 DEF TheSale!Next

\* Every step is a step of Sale or none.
LEMMA SaleStep ==
  ServiceInv /\ [ServiceNext]_serviceVars => [TheSale!Next]_(TheSale!vars)
<1> SUFFICES ASSUME ServiceInv, [ServiceNext]_serviceVars
             PROVE  [TheSale!Next]_(TheSale!vars)
  OBVIOUS
<1>t. \A r \in Request : req[r] \in RequestRecords /\ Progress(req[r], r)
  BY DEF ServiceInv, ServiceTypeOK
<1>1. ASSUME NEW r \in Request, Limited(r) \/ Gate(r) \/ SourceThrows(r)
      PROVE  [TheSale!Next]_(TheSale!vars)
  <2>1. req[r].status = 0 /\ UNCHANGED spent
    BY <1>1, <1>t DEF Progress, Limited, Gate, GateThrows, PaymentError,
                     PaymentVerified, NoPaymentRequired, SourceThrows
  <2>2. PICK q : /\ req' = [req EXCEPT ![r] = q]
                 /\ \/ \E status \in {400, 402, 429} : q = Answered(req[r], status)
                    \/ q = Failed(req[r]) \/ q = At(req[r], "fetch")
    BY <1>1 DEF Limited, Gate, GateThrows, PaymentError, PaymentVerified,
                NoPaymentRequired, SourceThrows, Enter
  <2>3. q \in RequestRecords /\ q.status # 200
    BY <1>t, <2>1, <2>2, AnsweredRequest, FailedRequest, AtRequest
  <2> QED BY <2>1, <2>2, <2>3, SaleAnswers
<1>2. ASSUME NEW r \in Request, NEW answer, Fetched(r, answer)
      PROVE  [TheSale!Next]_(TheSale!vars)
  <2>1. req[r].status = 0 /\ UNCHANGED spent
    BY <1>2, <1>t DEF Progress, Fetched
  <2>2. PICK q :
          /\ req' = [req EXCEPT ![r] = q]
          /\ \E v \in {"yes", "no"} :
               q = IF r \in Unpriced THEN Answered(Judged(req[r], v), 200)
                   ELSE At(Judged(req[r], v), "settle")
    BY <1>2 DEF Fetched
  <2>3. \A v \in {"yes", "no"} :
          Judged(req[r], v) \in RequestRecords /\ Judged(req[r], v).status = 0
    BY <1>t, <2>1, JudgedRequest
  <2>4. /\ q \in RequestRecords
        /\ q.status = 200 => r \in Unpriced
    BY <2>2, <2>3, AnsweredRequest, AtRequest
  <2> QED BY <2>1, <2>2, <2>4, SaleAnswers
<1>3. ASSUME NEW r \in Request, Settle(r)
      PROVE  [TheSale!Next]_(TheSale!vars)
  <2>1. req[r].status = 0 /\ req[r].pc = "settle" /\ UNCHANGED spent
    BY <1>3, <1>t DEF Progress, Settle, SettlementReturns, SettlementThrows
  <2>2. req[r].auth \in Authorization
    BY <1>t, <2>1 DEF Progress, RequestRecords
  <2>3. PICK q : /\ req' = [req EXCEPT ![r] = q]
                 /\ \/ q = Answered(req[r], 200) /\ spent[req[r].auth] = r
                    \/ q = Answered(req[r], 402)
                    \/ q = Failed(req[r])
    BY <1>3 DEF Settle, SettlementReturns, SettlementThrows, FlushStatus, OnSettlementError
  <2>4. /\ q \in RequestRecords
        /\ q.status = 200 => spent[req[r].auth] = r
    BY <1>t, <2>3, AnsweredRequest, FailedRequest
  <2>5. q.status = 200 => r \in Unpriced \/ \E a \in Authorization : spent[a] = r
    BY <2>2, <2>4
  <2>6. req' = [req EXCEPT ![r] = q]
    BY <2>3
  <2> QED BY <2>1, <2>4, <2>5, <2>6, SaleAnswers
<1>4. ASSUME NEW r \in Request, NEW a \in Authorization \cup {Nothing},
             NEW c \in Cycle \cup {Malformed}, Arrive(r, a, c)
      PROVE  [TheSale!Next]_(TheSale!vars)
  <2> DEFINE o == Asks(Offers(req[r], a), c)
  <2>1. req[r].status = 0 /\ UNCHANGED spent
    BY <1>4, <1>t DEF Progress, Arrive
  <2>2. init # "rejected"
    BY DEF ServiceInv, ServiceTypeOK
  <2>3. PICK q : /\ req' = [req EXCEPT ![r] = q]
                 /\ \E pc \in {"gate", "init"} : q = At(o, pc)
    BY <1>4, <2>2 DEF Arrive
  <2>4. o \in RequestRecords /\ o.status = 0
    BY <1>t, <2>1, OffersRequest, AsksRequest
  <2> HIDE DEF o
  <2>5. q \in RequestRecords /\ q.status # 200
    BY <2>3, <2>4, AtRequest
  <2> QED BY <2>1, <2>3, <2>5, SaleAnswers
<1>5. ASSUME InitDone
      PROVE  [TheSale!Next]_(TheSale!vars)
  <2>1. \A r \in Request : req'[r].status = req[r].status
    BY <1>5, <1>t, AtRequest DEF InitDone
  <2> QED BY <1>5, <2>1, SaleStutters DEF InitDone
<1>6. ASSUME UNCHANGED <<req, spent>>
      PROVE  [TheSale!Next]_(TheSale!vars)
  BY <1>6, SaleStutters
<1>7. CASE \E r \in Request : Fetch(r)
  BY <1>1, <1>2, <1>7 DEF Fetch
<1>8. CASE \E r \in Request : Limited(r) \/ Gate(r) \/ Settle(r) \/ Charge(r)
  BY <1>1, <1>3, <1>8, SaleCharges
<1>9. CASE Initialize
  BY <1>5, <1>9, SaleRefusesWaiting DEF Initialize
<1> QED
  BY <1>4, <1>6, <1>7, <1>8, <1>9
     DEF ServiceNext, Advance, WindowEnds, IntentSettles, serviceVars

\* The gate sells a verdict only for an authorization spent for its request,
\* and spends at most one per request, through overlapping and failing calls.
THEOREM ServiceImplementsSale == ServiceSpec => ImplementsSale
<1> QED
  BY SaleBegins, SaleStep, ServiceInvariant, PTL
     DEF ServiceSpec, ServiceSafety, ImplementsSale, TheSale!Spec

-----------------------------------------------------------------------------
(* The service with the queries it is asked (PaidQuery).  Its inductive      *)
(* invariant says besides: a request carries the authorization of its own    *)
(* attempt or none, and has arrived only in an attempt that was begun; what  *)
(* was sold has been paid for; an answer is what the service found.          *)

Legs == {"unpaid", "paid"}
AnswerRecords == {Nothing} \cup SignedVerdicts
QueryRecords ==
  [pc : {"idle", "unpaid", "paid", "again", "answered", "failed"}, attempt : Attempts,
   id : Names, answer : AnswerRecords]

AskOK == ask \in [Query -> QueryRecords]

Own ==
  \A q \in Query, n \in Attempts, leg \in Legs :
    /\ req[<<q, n, leg>>].auth # Nothing =>
         leg = "paid" /\ req[<<q, n, leg>>].auth = <<q, n>>
    /\ req[<<q, n, leg>>].pc # "idle" => n <= ask[q].attempt

PaidFor(x, r) == x.auth # Nothing /\ spent[x.auth] = r
Sold == \A r \in Request : req[r].status = 200 /\ r \notin Unpriced => PaidFor(req[r], r)

Warranted ==
  \A q \in Query : ask[q].pc = "answered" =>
    /\ ask[q].answer.cycle = ask[q].id
    /\ ask[q].answer.signer = "service" /\ ask[q].answer.verdict = "yes" =>
         /\ ask[q].id \in Cycle
         /\ rail[ask[q].id].status = "succeeded"
         /\ rail[ask[q].id].reference = ExpectedReference
         /\ rail[ask[q].id].amount >= PaymentIndex[ask[q].id]

QueryInv == ServiceInv /\ AskOK /\ Own /\ Sold /\ Warranted

-----------------------------------------------------------------------------
(* Steps of the service. *)

\* A request belongs to one attempt of one query.
LEMMA RequestsOfQueries ==
  /\ \A q \in Query, n \in Attempts, leg \in Legs : <<q, n, leg>> \in Request
  /\ \A q \in Query, n \in Attempts : <<q, n>> \in Authorization
  /\ \A r \in Request : \E q \in Query, n \in Attempts, leg \in Legs : r = <<q, n, leg>>
  BY QueryAssumption DEF Legs

\* A step of a request at the service keeps its authorization, and makes it 200
\* only if it is free or paid for.
LEMMA RequestMoves ==
  ASSUME NEW r \in Request, ServiceInv, Advance(r)
  PROVE  /\ UNCHANGED <<spent, rail>> /\ req[r].pc # "idle"
         /\ \E q \in RequestRecords :
              /\ req' = [req EXCEPT ![r] = q]
              /\ q.auth = req[r].auth
              /\ q.status = 200 => r \in Unpriced \/ PaidFor(req[r], r)
<1>1. req[r] \in RequestRecords /\ Progress(req[r], r)
  BY DEF ServiceInv, ServiceTypeOK
<1>2. CASE Gate(r)
  <2>1. req[r].pc = "gate" /\ UNCHANGED <<spent, rail>>
    BY <1>2 DEF Gate, GateThrows, PaymentError, PaymentVerified, NoPaymentRequired
  <2>2. PICK q : /\ req' = [req EXCEPT ![r] = q]
                 /\ \/ \E status \in {400, 402} : q = Answered(req[r], status)
                    \/ q = Failed(req[r]) \/ q = At(req[r], "fetch")
    BY <1>2 DEF Gate, GateThrows, PaymentError, PaymentVerified, NoPaymentRequired, Enter
  <2>3. req[r].status = 0
    BY <1>1, <2>1 DEF Progress, RequestRecords
  <2>4. q \in RequestRecords /\ q.status # 200 /\ q.auth = req[r].auth
    BY <1>1, <2>2, <2>3, AnsweredRequest, FailedRequest, AtRequest
  <2> QED BY <2>1, <2>2, <2>4
<1>3. CASE SourceThrows(r)
  <2>1. req[r].pc = "fetch" /\ UNCHANGED <<spent, rail>>
    BY <1>3 DEF SourceThrows
  <2>2. PICK q : req' = [req EXCEPT ![r] = q] /\ q = Failed(req[r])
    BY <1>3 DEF SourceThrows
  <2>3. q \in RequestRecords /\ q.auth = req[r].auth /\ q.status # 200
    BY <1>1, <2>2, FailedRequest
  <2> QED BY <2>1, <2>2, <2>3
<1>4. ASSUME NEW answer, Fetched(r, answer)
      PROVE  /\ UNCHANGED <<spent, rail>> /\ req[r].pc = "fetch"
             /\ \E q \in RequestRecords :
                  /\ req' = [req EXCEPT ![r] = q]
                  /\ q.auth = req[r].auth
                  /\ q.status = 200 => r \in Unpriced
  <2>1. req[r].pc = "fetch" /\ UNCHANGED <<spent, rail>>
    BY <1>4 DEF Fetched
  <2>2. PICK v \in {"yes", "no"} :
          req' = [req EXCEPT ![r] = IF r \in Unpriced THEN Answered(Judged(req[r], v), 200)
                                    ELSE At(Judged(req[r], v), "settle")]
    BY <1>4 DEF Fetched
  <2> DEFINE j == Judged(req[r], v)
  <2>3. j \in RequestRecords /\ j.status = 0 /\ j.auth = req[r].auth
    BY <1>1, <2>1, JudgedRequest DEF Progress
  <2>4. req' = [req EXCEPT ![r] = IF r \in Unpriced THEN Answered(j, 200) ELSE At(j, "settle")]
    BY <2>2
  <2> HIDE DEF j
  <2>5. CASE r \in Unpriced
    <3>1. PICK q : req' = [req EXCEPT ![r] = q] /\ q = Answered(j, 200)
      BY <2>4, <2>5
    <3>2. q \in RequestRecords /\ q.auth = j.auth
      BY <2>3, <3>1, AnsweredRequest
    <3> QED BY <2>1, <2>3, <2>5, <3>1, <3>2
  <2>6. CASE r \notin Unpriced
    <3>1. PICK q : req' = [req EXCEPT ![r] = q] /\ q = At(j, "settle")
      BY <2>4, <2>6
    <3>2. q \in RequestRecords /\ q.auth = req[r].auth /\ q.status # 200
      BY <2>3, <3>1, AtRequest
    <3>3. req' = [req EXCEPT ![r] = q]
      BY <3>1
    <3> QED BY <2>1, <3>2, <3>3
  <2> QED BY <2>5, <2>6
<1>5. CASE SettlementReturns(r)
  <2>1. req[r].pc = "settle" /\ UNCHANGED <<spent, rail>>
    BY <1>5 DEF SettlementReturns
  <2>2. req[r].auth # Nothing
    BY <1>1, <2>1 DEF Progress
  <2> DEFINE status == FlushStatus(spent[req[r].auth] = r)
  <2>3. status \in {200, 402} /\ (status = 200 => spent[req[r].auth] = r)
    BY DEF FlushStatus
  <2>4. req' = [req EXCEPT ![r] = Answered(req[r], status)]
    BY <1>5 DEF SettlementReturns
  <2> HIDE DEF status
  <2>5. PICK q : req' = [req EXCEPT ![r] = q] /\ q = Answered(req[r], status)
    BY <2>4
  <2>6. q \in RequestRecords /\ q.auth = req[r].auth /\ q.status = status
    BY <1>1, <2>3, <2>5, AnsweredRequest
  <2>7. q.status = 200 => PaidFor(req[r], r)
    BY <2>2, <2>3, <2>6 DEF PaidFor
  <2>8. req' = [req EXCEPT ![r] = q]
    BY <2>5
  <2> QED BY <2>1, <2>6, <2>7, <2>8
<1>6. CASE SettlementThrows(r)
  <2>1. req[r].pc = "settle" /\ UNCHANGED <<spent, rail>>
    BY <1>6 DEF SettlementThrows
  <2>2. PICK q : req' = [req EXCEPT ![r] = q] /\ q = Failed(req[r])
    BY <1>6 DEF SettlementThrows, OnSettlementError
  <2>3. q \in RequestRecords /\ q.auth = req[r].auth /\ q.status # 200
    BY <1>1, <2>2, FailedRequest
  <2> QED BY <2>1, <2>2, <2>3
<1> QED BY <1>2, <1>3, <1>4, <1>5, <1>6 DEF Advance, Fetch, Settle

\* A step that lets the queries be, changes no request's authorization and
\* undoes no payment.
LEMMA QueriesKept ==
  ASSUME QueryInv, ServiceInv', UNCHANGED ask,
         \A c \in Cycle : rail[c].status = "succeeded" => rail'[c] = rail[c],
         \A a \in Authorization : spent[a] # Nobody => spent'[a] = spent[a],
         \A r \in Request :
           /\ req'[r].auth = req[r].auth
           /\ req[r].pc = "idle" => req'[r].pc = "idle"
           /\ req'[r].status = 200 =>
                req[r].status = 200 \/ r \in Unpriced \/ PaidFor(req[r], r)
  PROVE  QueryInv'
<1>1. AskOK'
  BY DEF QueryInv, AskOK
<1>2. Own'
  BY RequestsOfQueries DEF QueryInv, Own
<1>3. Sold'
  <2> SUFFICES ASSUME NEW r \in Request, req'[r].status = 200, r \notin Unpriced
               PROVE  req'[r].auth # Nothing /\ spent'[req'[r].auth] = r
    BY DEF Sold, PaidFor
  <2>1. req'[r].auth = req[r].auth /\ PaidFor(req[r], r)
    BY DEF QueryInv, Sold
  <2>2. req[r] \in RequestRecords
    BY DEF QueryInv, ServiceInv, ServiceTypeOK
  <2>3. req[r].auth \in Authorization /\ spent[req[r].auth] = r
    BY <2>1, <2>2 DEF PaidFor, RequestRecords
  <2>4. r # Nobody
    BY NothingAssumption DEF Nobody
  <2> QED BY <2>1, <2>3, <2>4 DEF PaidFor
<1>4. Warranted'
  BY DEF QueryInv, Warranted
<1> QED BY <1>1, <1>2, <1>3, <1>4 DEF QueryInv

\* Steps of the service, with its requests still open.
LEMMA ServeKeeps ==
  ASSUME NEW r \in Request, QueryInv, Serve(r)
  PROVE  QueryInv'
<1>0. ServiceInv /\ UNCHANGED ask
  BY DEF QueryInv, Serve
<1>1. ServiceInv'
  BY <1>0, ServiceStep DEF Serve, ServiceNext
<1>2. CASE Advance(r)
  <2>1. UNCHANGED <<spent, rail>> /\ req[r].pc # "idle"
    BY <1>0, <1>2, RequestMoves
  <2>2. PICK q \in RequestRecords :
              /\ req' = [req EXCEPT ![r] = q]
              /\ q.auth = req[r].auth
              /\ q.status = 200 => r \in Unpriced \/ PaidFor(req[r], r)
    BY <1>0, <1>2, RequestMoves
  <2>3. \A s \in Request : req'[s] = IF s = r THEN q ELSE req[s]
    BY <1>0, <2>2 DEF ServiceInv, ServiceTypeOK
  <2>4. \A s \in Request :
           /\ req'[s].auth = req[s].auth
           /\ req[s].pc = "idle" => req'[s].pc = "idle"
           /\ req'[s].status = 200 =>
                req[s].status = 200 \/ s \in Unpriced \/ PaidFor(req[s], s)
    BY <2>1, <2>2, <2>3
  <2> QED BY <1>0, <1>1, <2>1, <2>4, QueriesKept
<1>3. CASE Charge(r)
  <2>1. /\ UNCHANGED <<req, rail>> /\ spent' = [spent EXCEPT ![req[r].auth] = r]
        /\ spent[req[r].auth] = Nobody
    BY <1>3 DEF Charge
  <2>2. \A a \in Authorization : spent[a] # Nobody => spent'[a] = spent[a]
    BY <1>0, <2>1 DEF ServiceInv, ServiceTypeOK
  <2> QED BY <1>0, <1>1, <2>1, <2>2, QueriesKept
<1> QED BY <1>2, <1>3 DEF Serve

\* The facilitator executes a transfer of a request that its service has lost.
LEMMA LateChargeKeeps ==
  ASSUME NEW r \in Request, QueryInv, LateCharge(r)
  PROVE  QueryInv'
<1>0. ServiceInv /\ UNCHANGED <<ask, req, init, rail>>
  BY DEF QueryInv, LateCharge
<1>1. /\ req[r] \in RequestRecords /\ Progress(req[r], r) /\ req[r].pc = "lostSettling"
      /\ spent' = [spent EXCEPT ![req[r].auth] = r] /\ spent[req[r].auth] = Nobody
  BY <1>0 DEF ServiceInv, ServiceTypeOK, LateCharge
<1>2. /\ req[r].auth \in Authorization
      /\ req[r].verdict # Nothing /\ req[r].query # Malformed
  BY <1>1, NothingAssumption DEF Progress, RequestRecords, Malformed
<1>3. \A a \in Authorization : spent'[a] = IF a = req[r].auth THEN r ELSE spent[a]
  BY <1>0, <1>1 DEF ServiceInv, ServiceTypeOK
<1>4. ServiceTypeOK'
  BY <1>0, <1>1 DEF ServiceInv, ServiceTypeOK
<1>5. Spending'
  BY <1>0, <1>1, <1>2, <1>3 DEF ServiceInv, Spending
<1>6. ServiceInv'
  BY <1>0, <1>4, <1>5 DEF ServiceInv, Progress, Confirmed
<1>7. \A a \in Authorization : spent[a] # Nobody => spent'[a] = spent[a]
  BY <1>1, <1>3
<1> QED BY <1>0, <1>6, <1>7, QueriesKept

\* The process stops with the requests in it, and another one listens.
LEMMA RestartKeeps ==
  ASSUME QueryInv, Restart
  PROVE  QueryInv'
<1>0. ServiceInv /\ UNCHANGED <<ask, spent, rail>> /\ init' = "null"
  BY DEF QueryInv, Restart
<1>1. req' = [r \in Request |->
               IF ~InProgress(req[r]) THEN req[r]
               ELSE At(req[r], IF req[r].pc = "settle" THEN "lostSettling" ELSE "lost")]
  BY DEF Restart
<1>2. ASSUME NEW r \in Request
      PROVE  /\ req'[r] \in RequestRecords
             /\ req'[r].auth = req[r].auth /\ req'[r].query = req[r].query
             /\ req'[r].verdict = req[r].verdict /\ req'[r].status = req[r].status
             /\ req'[r].fault = req[r].fault
             /\ \/ req'[r].pc = req[r].pc
                \/ req[r].pc = "settle" /\ req'[r].pc = "lostSettling"
                \/ req[r].pc \in {"init", "gate", "fetch"} /\ req'[r].pc = "lost"
  <2>1. req[r] \in RequestRecords
    BY <1>0 DEF ServiceInv, ServiceTypeOK
  <2>2. \/ req'[r] = req[r]
        \/ req[r].pc = "settle" /\ req'[r] = At(req[r], "lostSettling")
        \/ req[r].pc \notin {"idle", "done", "lost", "lostSettling", "settle"}
           /\ req'[r] = At(req[r], "lost")
    BY <1>1 DEF InProgress
  <2>3. req[r].pc \in {"idle", "init", "gate", "fetch", "settle", "done", "lost", "lostSettling"}
    BY <2>1 DEF RequestRecords
  <2> QED BY <2>1, <2>2, <2>3, AtRequest
<1>3. ServiceTypeOK'
  BY <1>0, <1>1, <1>2 DEF ServiceInv, ServiceTypeOK
<1>4. \A r \in Request : Progress(req[r], r)'
  <2> SUFFICES ASSUME NEW r \in Request PROVE Progress(req'[r], r)
    BY DEF Progress
  <2>1. Progress(req[r], r)
    BY <1>0 DEF ServiceInv
  <2> QED BY <1>2, <2>1 DEF Progress
<1>5. Spending'
  BY <1>0, <1>2 DEF ServiceInv, Spending
<1>6. \A r \in Request : (req[r].verdict = "yes" => Confirmed(req[r]))'
  BY <1>0, <1>2 DEF ServiceInv, Confirmed
<1>7. ServiceInv'
  BY <1>3, <1>4, <1>5, <1>6 DEF ServiceInv
<1> QED BY <1>0, <1>2, <1>7, QueriesKept

\* Initialization, the limiter's window and the payment rail.
LEMMA ServiceKeeps ==
  ASSUME QueryInv, Service
  PROVE  QueryInv'
<1>0. ServiceInv /\ UNCHANGED ask
  BY DEF QueryInv, Service
<1>1. ServiceInv'
  BY <1>0, ServiceStep DEF Service, ServiceNext
<1>2. CASE Initialize
  <2>1. UNCHANGED <<spent, rail>>
    BY <1>2 DEF Initialize, InitDone, InitFails
  <2>2. ASSUME NEW r \in Request
        PROVE  /\ req'[r].auth = req[r].auth
               /\ req[r].pc = "idle" => req'[r].pc = "idle"
               /\ req'[r].status = 200 => req[r].status = 200
    <3>1. \/ req'[r] = req[r]
          \/ req[r].pc = "init" /\ req'[r] = At(req[r], "gate")
          \/ req[r].pc = "init" /\ req'[r] = Failed(req[r])
      BY <1>2 DEF Initialize, InitDone, InitFails, Waiting
    <3>2. req[r] \in RequestRecords
      BY <1>0 DEF ServiceInv, ServiceTypeOK
    <3> QED BY <3>1, <3>2, AtRequest, FailedRequest
  <2> QED BY <1>0, <1>1, <2>1, <2>2, QueriesKept
<1>3. CASE WindowEnds
  BY <1>0, <1>1, <1>3, QueriesKept DEF WindowEnds
<1>4. ASSUME NEW c \in Cycle, NEW status, IntentSettles(c, status)
      PROVE  QueryInv'
  <2>1. /\ UNCHANGED <<req, spent>> /\ rail[c].status = "processing"
        /\ rail' = [rail EXCEPT ![c].status = status]
    BY <1>4 DEF IntentSettles
  <2>2. \A d \in Cycle : rail[d].status = "succeeded" => rail'[d] = rail[d]
    BY <1>0, <2>1 DEF ServiceInv, ServiceTypeOK
  <2> QED BY <1>0, <1>1, <2>1, <2>2, QueriesKept
<1> QED BY <1>2, <1>3, <1>4 DEF Service

-----------------------------------------------------------------------------
(* Steps of the queries. *)

\* What a query is after a step: another record in its place.
LEMMA OneQueryChanges ==
  ASSUME NEW q \in Query, NEW k \in QueryRecords, AskOK, ask' = [ask EXCEPT ![q] = k]
  PROVE  /\ AskOK' /\ ask'[q] = k
         /\ \A y \in Query : y # q => ask'[y] = ask[y]
  BY DEF AskOK

\* What throws leads to a second attempt, or ends the query.
LEMMA ThrownRecord ==
  ASSUME NEW k \in QueryRecords
  PROVE  /\ Thrown(k) \in QueryRecords
         /\ \/ k.attempt < MaxAttempts /\ Thrown(k).pc = "again"
               /\ Thrown(k).attempt = k.attempt + 1
            \/ k.attempt = MaxAttempts /\ Thrown(k).pc = "failed"
               /\ Thrown(k).attempt = k.attempt
<1>1. k.attempt \in {1, 2}
  BY DEF QueryRecords, Attempts, MaxAttempts
<1>2. CASE k.attempt = 1
  <2>1. Thrown(k) = [k EXCEPT !.pc = "again", !.attempt = 2]
    BY <1>2 DEF Thrown, MaxAttempts
  <2>2. 2 \in Attempts
    BY DEF Attempts, MaxAttempts
  <2>3. /\ Thrown(k) \in QueryRecords /\ Thrown(k).pc = "again"
        /\ Thrown(k).attempt = 2
    BY <2>1, <2>2 DEF QueryRecords
  <2> QED BY <1>2, <2>3 DEF MaxAttempts
<1>3. CASE k.attempt = 2
  <2>1. Thrown(k) = [k EXCEPT !.pc = "failed"]
    BY <1>3 DEF Thrown, MaxAttempts
  <2> QED BY <1>3, <2>1 DEF QueryRecords, MaxAttempts
<1> QED BY <1>1, <1>2, <1>3

\* A query gives up an attempt.
LEMMA ThrowsKeeps ==
  ASSUME NEW q \in Query, QueryInv, Throws(q), UNCHANGED serviceVars
  PROVE  QueryInv'
<1>0. ServiceInv /\ AskOK /\ UNCHANGED <<req, init, spent, rail>>
  BY DEF QueryInv, serviceVars
<1>1. ask[q] \in QueryRecords
  BY <1>0 DEF AskOK
<1>2. PICK k \in QueryRecords :
        /\ ask' = [ask EXCEPT ![q] = k]
        /\ k.pc # "answered" /\ k.attempt >= ask[q].attempt
  <2> DEFINE k == Thrown(ask[q])
  <2>1. ask' = [ask EXCEPT ![q] = k]
    BY DEF Throws
  <2>2. ask[q].attempt \in 1 .. 2
    BY <1>1 DEF QueryRecords, Attempts, MaxAttempts
  <2>3. k \in QueryRecords /\ k.pc # "answered" /\ k.attempt >= ask[q].attempt
    BY <1>1, <2>2, ThrownRecord
  <2> HIDE DEF k
  <2> QED BY <2>1, <2>3
<1>3. /\ AskOK' /\ ask'[q] = k
      /\ \A y \in Query : y # q => ask'[y] = ask[y]
  BY <1>0, <1>2, OneQueryChanges
<1>4. ServiceInv'
  BY <1>0, IdleKeepsInv
<1>5. Own'
  <2> SUFFICES ASSUME NEW y \in Query, NEW n \in Attempts, NEW leg \in Legs
               PROVE  /\ req[<<y, n, leg>>].auth # Nothing =>
                           leg = "paid" /\ req[<<y, n, leg>>].auth = <<y, n>>
                      /\ req[<<y, n, leg>>].pc # "idle" => n <= ask'[y].attempt
    BY <1>0 DEF Own
  <2>1. ask[y].attempt \in 1 .. 2 /\ ask'[y].attempt \in 1 .. 2 /\ n \in 1 .. 2
    BY <1>0, <1>3 DEF AskOK, QueryRecords, Attempts, MaxAttempts
  <2>2. ask'[y].attempt >= ask[y].attempt
    BY <1>2, <1>3, <2>1
  <2> QED BY <2>1, <2>2 DEF QueryInv, Own
<1>6. Sold'
  BY <1>0 DEF QueryInv, Sold, PaidFor
<1>7. Warranted'
  BY <1>0, <1>2, <1>3 DEF QueryInv, Warranted
<1> QED BY <1>3, <1>4, <1>5, <1>6, <1>7 DEF QueryInv

\* A request is sent: it arrives, with the authorization of its attempt if it
\* is the paid one, or it is limited.
LEMMA SendRequests ==
  ASSUME NEW q \in Query, NEW leg \in Legs, NEW a, QueryInv, Send(q, leg, a),
         a = Nothing \/ (leg = "paid" /\ a = <<q, ask[q].attempt>>)
  PROVE  /\ ServiceInv' /\ UNCHANGED <<spent, rail>>
         /\ ask[q].attempt \in Attempts
         /\ \E x \in RequestRecords :
              /\ req' = [req EXCEPT ![<<q, ask[q].attempt, leg>>] = x]
              /\ x.status # 200
              /\ x.auth = a \/ x.auth = req[<<q, ask[q].attempt, leg>>].auth
<1> DEFINE r == <<q, ask[q].attempt, leg>>
           c == Trimmed[ask[q].id]
<1>0. ServiceInv /\ ask[q] \in QueryRecords
  BY DEF QueryInv, AskOK
<1>1. ask[q].attempt \in Attempts /\ ask[q].id \in Names
  BY <1>0 DEF QueryRecords
<1>2. /\ r \in Request /\ a \in Authorization \cup {Nothing}
      /\ c \in Cycle \cup {Malformed}
  BY <1>1, QueryAssumption, RequestsOfQueries
<1>3. Arrive(r, a, c) \/ Limited(r)
  BY DEF Send
<1> HIDE DEF r, c
<1>4. ServiceInv'
  BY <1>0, <1>2, <1>3, ServiceStep DEF ServiceNext
<1>5. req[r] \in RequestRecords /\ init # "rejected" /\ req[r].pc = "idle" /\ req[r].status = 0
  <2>1. req[r] \in RequestRecords /\ init # "rejected" /\ Progress(req[r], r)
    BY <1>0, <1>2 DEF ServiceInv, ServiceTypeOK
  <2>2. req[r].pc = "idle"
    BY <1>3 DEF Arrive, Limited
  <2> QED BY <2>1, <2>2 DEF Progress
<1>6. UNCHANGED <<spent, rail>>
  BY <1>3 DEF Arrive, Limited
<1>7. \E x \in RequestRecords :
        /\ req' = [req EXCEPT ![r] = x]
        /\ x.status # 200
        /\ x.auth = a \/ x.auth = req[r].auth
  <2>1. CASE Arrive(r, a, c)
    <3> DEFINE o == Asks(Offers(req[r], a), c)
    <3>1. o \in RequestRecords /\ o.status = 0 /\ o.auth = a
      BY <1>2, <1>5, OffersRequest, AsksRequest
    <3>2. PICK x : /\ req' = [req EXCEPT ![r] = x]
                   /\ \E pc \in {"gate", "init"} : x = At(o, pc)
      BY <1>5, <2>1 DEF Arrive
    <3> HIDE DEF o
    <3>3. x \in RequestRecords /\ x.status # 200 /\ x.auth = a
      BY <3>1, <3>2, AtRequest
    <3>4. req' = [req EXCEPT ![r] = x]
      BY <3>2
    <3> QED BY <3>3, <3>4
  <2>2. CASE Limited(r)
    <3>1. PICK x : req' = [req EXCEPT ![r] = x] /\ x = Answered(req[r], 429)
      BY <2>2 DEF Limited
    <3>2. x \in RequestRecords /\ x.status # 200 /\ x.auth = req[r].auth
      BY <1>5, <3>1, AnsweredRequest
    <3>3. req' = [req EXCEPT ![r] = x]
      BY <3>1
    <3> QED BY <3>2, <3>3
  <2> QED BY <1>3, <2>1, <2>2
<1> QED BY <1>1, <1>4, <1>6, <1>7 DEF r

\* So the query is one request further.
LEMMA SendKeeps ==
  ASSUME NEW q \in Query, NEW leg \in Legs, NEW a, QueryInv, Send(q, leg, a),
         a = Nothing \/ (leg = "paid" /\ a = <<q, ask[q].attempt>>)
  PROVE  QueryInv'
<1> DEFINE n == ask[q].attempt
           r == <<q, n, leg>>
<1>0. ServiceInv /\ AskOK
  BY DEF QueryInv
<1>1. ServiceInv' /\ UNCHANGED <<spent, rail>> /\ n \in Attempts
  BY SendRequests
<1>2. PICK x \in RequestRecords :
              /\ req' = [req EXCEPT ![<<q, ask[q].attempt, leg>>] = x]
              /\ x.status # 200
              /\ x.auth = a \/ x.auth = req[<<q, ask[q].attempt, leg>>].auth
  BY SendRequests
<1>3. r \in Request
  BY <1>1, RequestsOfQueries
<1>4. \A s \in Request : req'[s] = IF s = r THEN x ELSE req[s]
  BY <1>0, <1>2, <1>3 DEF ServiceInv, ServiceTypeOK
<1>5. PICK k \in QueryRecords :
        /\ ask' = [ask EXCEPT ![q] = k]
        /\ k.pc = leg /\ k.attempt = n
  <2>1. ask[q] \in QueryRecords
    BY <1>0 DEF AskOK
  <2>2. ask' = [ask EXCEPT ![q] = [ask[q] EXCEPT !.pc = leg]]
    BY DEF Send
  <2>3. /\ [ask[q] EXCEPT !.pc = leg] \in QueryRecords
        /\ [ask[q] EXCEPT !.pc = leg].pc = leg /\ [ask[q] EXCEPT !.pc = leg].attempt = n
    BY <2>1 DEF QueryRecords, Legs
  <2> QED BY <2>2, <2>3
<1>6. /\ AskOK' /\ ask'[q] = k
      /\ \A y \in Query : y # q => ask'[y] = ask[y]
  BY <1>0, <1>5, OneQueryChanges
<1>7. Own'
  <2> SUFFICES ASSUME NEW y \in Query, NEW m \in Attempts, NEW l \in Legs
               PROVE  /\ req'[<<y, m, l>>].auth # Nothing =>
                           l = "paid" /\ req'[<<y, m, l>>].auth = <<y, m>>
                      /\ req'[<<y, m, l>>].pc # "idle" => m <= ask'[y].attempt
    BY DEF Own
  <2>1. <<y, m, l>> \in Request
    BY RequestsOfQueries
  <2>2. /\ req[<<y, m, l>>].auth # Nothing => l = "paid" /\ req[<<y, m, l>>].auth = <<y, m>>
        /\ req[<<y, m, l>>].pc # "idle" => m <= ask[y].attempt
    BY DEF QueryInv, Own
  <2>3. ask'[y].attempt = ask[y].attempt
    BY <1>5, <1>6
  <2>4. CASE <<y, m, l>> = r
    <3>1. y = q /\ m = n /\ l = leg /\ req'[<<y, m, l>>] = x
      BY <1>4, <2>1, <2>4
    <3>2. n <= n
      BY <1>1 DEF Attempts, MaxAttempts
    <3>3. x.auth # Nothing => l = "paid" /\ x.auth = <<y, m>>
      BY <1>2, <2>2, <3>1
    <3> QED BY <2>3, <3>1, <3>2, <3>3
  <2>5. CASE <<y, m, l>> # r
    BY <1>4, <2>1, <2>2, <2>3, <2>5
  <2> QED BY <2>4, <2>5
<1>8. Sold'
  BY <1>1, <1>2, <1>4 DEF QueryInv, Sold, PaidFor
<1>9. Warranted'
  BY <1>1, <1>5, <1>6 DEF QueryInv, Warranted, Legs
<1> QED BY <1>1, <1>6, <1>7, <1>8, <1>9 DEF QueryInv

\* An answer is taken that passes the checks of the client.
LEMMA ReceiveKeeps ==
  ASSUME NEW q \in Query, NEW body \in Bodies, NEW receipt,
         QueryInv, Waits(q), Receive(q, body, receipt)
  PROVE  QueryInv'
<1>0. ServiceInv /\ AskOK /\ UNCHANGED serviceVars /\ ask[q] \in QueryRecords
  BY DEF QueryInv, AskOK, Receive
<1>1. CASE Throws(q)
  BY <1>0, <1>1, ThrowsKeeps
<1>2. CASE /\ ParseVerdict(body, ask[q].id)
           /\ ask' = [ask EXCEPT ![q].pc = "answered", ![q].answer = body]
  <2>1. /\ body \in SignedVerdicts /\ body.cycle = ask[q].id /\ body.signature = body.signer
        /\ body.signature = "service" =>
             \E r \in Request : body.cycle = req[r].query /\ body.verdict = req[r].verdict
    BY <1>2 DEF ParseVerdict, Bodies, Unreadable
  <2>2. body.signer = "service" /\ body.verdict = "yes" =>
          \E r \in Request : req[r].query = ask[q].id /\ req[r].verdict = "yes"
    BY <2>1
  <2>3. body.signer = "service" /\ body.verdict = "yes" =>
          \E r \in Request : req[r].query = ask[q].id /\ Confirmed(req[r])
    BY <1>0, <2>2 DEF ServiceInv
  <2>4. body \in AnswerRecords
    BY <2>1 DEF AnswerRecords
  <2>5. PICK k \in QueryRecords :
          /\ ask' = [ask EXCEPT ![q] = k]
          /\ k.answer = body /\ k.id = ask[q].id /\ k.attempt = ask[q].attempt
    <3> DEFINE k == [ask[q] EXCEPT !.pc = "answered", !.answer = body]
    <3>1. ask' = [ask EXCEPT ![q] = k]
      BY <1>2
    <3>2. k \in QueryRecords /\ k.answer = body /\ k.id = ask[q].id /\ k.attempt = ask[q].attempt
      BY <1>0, <2>4 DEF QueryRecords
    <3> HIDE DEF k
    <3> QED BY <3>1, <3>2
  <2>6. /\ AskOK' /\ ask'[q] = k
        /\ \A y \in Query : y # q => ask'[y] = ask[y]
    BY <1>0, <2>5, OneQueryChanges
  <2>7. ServiceInv' /\ UNCHANGED <<req, spent, rail>>
    BY <1>0, IdleKeepsInv DEF serviceVars
  <2>8. Own'
    BY <2>5, <2>6, <2>7 DEF QueryInv, Own
  <2>9. Sold'
    BY <2>7 DEF QueryInv, Sold, PaidFor
  <2>10. Warranted'
    <3> SUFFICES ASSUME NEW y \in Query, ask'[y].pc = "answered"
                 PROVE  /\ ask'[y].answer.cycle = ask'[y].id
                        /\ ask'[y].answer.signer = "service" /\ ask'[y].answer.verdict = "yes" =>
                             /\ ask'[y].id \in Cycle
                             /\ rail[ask'[y].id].status = "succeeded"
                             /\ rail[ask'[y].id].reference = ExpectedReference
                             /\ rail[ask'[y].id].amount >= PaymentIndex[ask'[y].id]
      BY <2>7 DEF Warranted
    <3>1. CASE y = q
      <4>1. ask'[y].answer = body /\ ask'[y].id = ask[q].id
        BY <2>5, <2>6, <3>1
      <4> QED BY <2>1, <2>3, <4>1 DEF Confirmed
    <3>2. CASE y # q
      BY <2>6, <3>2 DEF QueryInv, Warranted
    <3> QED BY <3>1, <3>2
  <2> QED BY <2>6, <2>7, <2>8, <2>9, <2>10 DEF QueryInv
<1> QED BY <1>1, <1>2 DEF Receive

\* QueryInv holds before anything is asked.
LEMMA InitQueryInv == QueryInit => QueryInv
<1> SUFFICES ASSUME QueryInit PROVE QueryInv
  OBVIOUS
<1>1. ServiceInv
  BY InitService DEF QueryInit
<1>2. /\ \A r \in Request : req[r] = Fresh
      /\ \A q \in Query : \E id \in Names : ask[q] = NewQuery(id)
  BY DEF QueryInit, ServiceInit
<1>3. \A id \in Names : NewQuery(id) \in QueryRecords /\ NewQuery(id).pc = "idle"
  BY DEF NewQuery, QueryRecords, AnswerRecords, Attempts, MaxAttempts
<1>4. AskOK
  BY <1>2, <1>3 DEF QueryInit, AskOK
<1>5. Own
  <2> SUFFICES ASSUME NEW q \in Query, NEW n \in Attempts, NEW leg \in Legs
               PROVE  req[<<q, n, leg>>].auth = Nothing /\ req[<<q, n, leg>>].pc = "idle"
    BY DEF Own
  <2>1. req[<<q, n, leg>>] = Fresh
    BY <1>2, RequestsOfQueries
  <2> QED BY <2>1 DEF Fresh
<1>6. Sold
  BY <1>2 DEF Sold, Fresh
<1>7. Warranted
  BY <1>2, <1>3 DEF Warranted
<1> QED BY <1>1, <1>4, <1>5, <1>6, <1>7 DEF QueryInv

\* Every step is one of these.
LEMMA QuerySteps ==
  ASSUME [QueryNext]_queryVars
  PROVE  \/ \E r \in Request : Serve(r) \/ LateCharge(r)
         \/ Service \/ Restart
         \/ \E q \in Query :
              /\ Send(q, "unpaid", Nothing) \/ Send(q, "paid", <<q, ask[q].attempt>>)
              /\ ask[q].pc \in {"idle", "again", "unpaid"}
         \/ \E q \in Query :
              /\ Throws(q) /\ UNCHANGED serviceVars
              /\ ask[q].pc \in {"idle", "again", "unpaid", "paid"}
         \/ \E q \in Query : \E body \in Bodies, receipt \in Receipts(Open(q)) :
              Waits(q) /\ Receive(q, body, receipt)
         \/ UNCHANGED queryVars
<1>1. ASSUME NEW q \in Query, Start(q) \/ Again(q) \/ Pay(q)
      PROVE  /\ Send(q, "unpaid", Nothing) \/ Send(q, "paid", <<q, ask[q].attempt>>)
             /\ ask[q].pc \in {"idle", "again", "unpaid"}
  BY <1>1 DEF Start, Again, MayStart, Pay
<1>2. ASSUME NEW q \in Query, NotOk(q) \/ FetchRejects(q)
      PROVE  /\ Throws(q) /\ UNCHANGED serviceVars
             /\ ask[q].pc \in {"idle", "again", "unpaid", "paid"}
  BY <1>2 DEF NotOk, FetchRejects, MayStart, Waits, Responded
<1>3. CASE \E q \in Query : Start(q) \/ Again(q) \/ Pay(q)
  BY <1>1, <1>3
<1>4. CASE \E q \in Query : NotOk(q) \/ FetchRejects(q)
  BY <1>2, <1>4
<1>5. CASE \E q \in Query : Client(q)
  BY <1>3, <1>4, <1>5 DEF Client
<1>6. CASE \E q \in Query : Start(q) \/ Client(q) \/ FetchRejects(q)
  BY <1>3, <1>4, <1>5, <1>6
<1> QED BY <1>6 DEF QueryNext

\* Every step keeps QueryInv.
LEMMA NextQueryInv == QueryInv /\ [QueryNext]_queryVars => QueryInv'
<1> SUFFICES ASSUME QueryInv, [QueryNext]_queryVars PROVE QueryInv'
  OBVIOUS
<1>1. CASE \E r \in Request : Serve(r) \/ LateCharge(r)
  BY <1>1, ServeKeeps, LateChargeKeeps
<1>2. CASE Service \/ Restart
  BY <1>2, ServiceKeeps, RestartKeeps
<1>3. ASSUME NEW q \in Query,
             Send(q, "unpaid", Nothing) \/ Send(q, "paid", <<q, ask[q].attempt>>)
      PROVE  QueryInv'
  BY <1>3, SendKeeps DEF Legs
<1>4. ASSUME NEW q \in Query, Throws(q), UNCHANGED serviceVars
      PROVE  QueryInv'
  BY <1>4, ThrowsKeeps
<1>5. ASSUME NEW q \in Query, NEW body \in Bodies, NEW receipt,
             Waits(q), Receive(q, body, receipt)
      PROVE  QueryInv'
  BY <1>5, ReceiveKeeps
<1>6. ASSUME UNCHANGED queryVars PROVE QueryInv'
  <2>1. ServiceInv'
    BY <1>6, IdleKeepsInv DEF QueryInv, queryVars, serviceVars
  <2>2. UNCHANGED <<req, spent, rail, ask>>
    BY <1>6 DEF queryVars, serviceVars
  <2> QED BY <2>1, <2>2, QueriesKept
<1> QED BY <1>1, <1>2, <1>3, <1>4, <1>5, <1>6, QuerySteps

\* So it holds throughout.
LEMMA QueryInvariant == QuerySpec => []QueryInv
  BY InitQueryInv, NextQueryInv, PTL DEF QuerySpec

\* AnswerIsItsVerdict: an answer the client takes is about exactly the cycle it
\* asked about; if it states the service's key for its signer, it is what the
\* service found, and a "yes" is backed by a payment that has succeeded, through
\* altered and re-signed bodies, retries and restarts.
THEOREM AnswersAreTheirVerdicts == QuerySpec => []AnswerIsItsVerdict
<1>1. QueryInv => AnswerIsItsVerdict
  BY DEF QueryInv, Warranted, AnswerIsItsVerdict
<1> QED BY <1>1, QueryInvariant, PTL

\* What the service promises by itself it keeps with clients that give up,
\* connections that break, and restarts.
THEOREM ServicePromisesKept ==
  QuerySpec => [](ChargedForVerdict /\ NoFalseYes /\ FailuresAreItsOwn)
<1>1. QueryInv => ChargedForVerdict /\ NoFalseYes /\ FailuresAreItsOwn
  BY DEF QueryInv, ServiceInv, Spending, Confirmed, Progress,
         ChargedForVerdict, NoFalseYes, FailuresAreItsOwn
<1> QED BY <1>1, QueryInvariant, PTL

-----------------------------------------------------------------------------
(* The queries implement PaidAnswer. *)

\* What the queries are there.
AnswerOutcome ==
  [q \in Query |-> IF ask[q].pc \in {"answered", "failed"} THEN ask[q].pc ELSE "open"]
AnswerAttempt == [q \in Query |-> ask[q].attempt]
AnswerCharged == [q \in Query |-> {n \in Attempts : spent[<<q, n>>] # Nobody}]

\* A step after which each query is as it was.
LEMMA AnswerStutters ==
  ASSUME \A q \in Query : ask'[q].attempt = ask[q].attempt,
         \A q \in Query : \/ ask'[q].pc = ask[q].pc
                          \/ {ask[q].pc, ask'[q].pc} \cap {"answered", "failed"} = {},
         \A a \in Authorization : spent'[a] = spent[a]
  PROVE  UNCHANGED TheAnswer!vars
<1>1. AnswerOutcome' = AnswerOutcome
  <2>1. \A q \in Query : AnswerOutcome'[q] = AnswerOutcome[q]
    BY DEF AnswerOutcome
  <2> QED BY <2>1 DEF AnswerOutcome
<1>2. AnswerAttempt' = AnswerAttempt
  BY DEF AnswerAttempt
<1>3. AnswerCharged' = AnswerCharged
  BY RequestsOfQueries DEF AnswerCharged
<1> QED BY <1>1, <1>2, <1>3 DEF TheAnswer!vars, AnswerOutcome, AnswerAttempt, AnswerCharged

\* The transfer that executes pays for an attempt that was made.
LEMMA AnswerCharges ==
  ASSUME NEW r \in Request, QueryInv, Charge(r) \/ LateCharge(r), UNCHANGED ask
  PROVE  TheAnswer!Next
<1>0. ServiceInv /\ req[r] \in RequestRecords /\ Progress(req[r], r)
  BY DEF QueryInv, ServiceInv, ServiceTypeOK
<1>1. /\ req[r].pc \in {"settle", "lostSettling"} /\ spent[req[r].auth] = Nobody
      /\ spent' = [spent EXCEPT ![req[r].auth] = r]
  BY DEF Charge, LateCharge
<1>2. req[r].auth # Nothing
  BY <1>0, <1>1 DEF Progress
<1>3. PICK q \in Query, n \in Attempts, leg \in Legs : r = <<q, n, leg>>
  BY RequestsOfQueries
<1>4. req[r].auth = <<q, n>> /\ n <= ask[q].attempt
  BY <1>1, <1>2, <1>3 DEF QueryInv, Own
<1>5. \A a \in Authorization : spent'[a] = IF a = <<q, n>> THEN r ELSE spent[a]
  BY <1>0, <1>1, <1>4 DEF ServiceInv, ServiceTypeOK
<1>6. r # Nobody
  BY NothingAssumption DEF Nobody
<1>7. AnswerCharged' = [AnswerCharged EXCEPT ![q] = @ \cup {n}]
  <2>1. \A y \in Query : AnswerCharged'[y] = IF y = q THEN AnswerCharged[q] \cup {n}
                                             ELSE AnswerCharged[y]
    <3> TAKE y \in Query
    <3>1. \A m \in Attempts : <<y, m>> \in Authorization
      BY RequestsOfQueries
    <3>2. \A m \in Attempts : spent'[<<y, m>>] # Nobody <=>
                                spent[<<y, m>>] # Nobody \/ (y = q /\ m = n)
      BY <1>5, <1>6, <3>1
    <3> QED BY <3>2 DEF AnswerCharged
  <2> QED BY <2>1 DEF AnswerCharged
<1>8. n \notin AnswerCharged[q] /\ n <= AnswerAttempt[q]
  BY <1>1, <1>4 DEF AnswerCharged, AnswerAttempt
<1>9. AnswerOutcome' = AnswerOutcome /\ AnswerAttempt' = AnswerAttempt
  BY DEF AnswerOutcome, AnswerAttempt
<1>10. TheAnswer!Charge(q, n)
  BY <1>7, <1>8, <1>9 DEF TheAnswer!Charge, AnswerOutcome, AnswerAttempt, AnswerCharged
<1>11. n \in 1 .. MaxAttempts
  BY <1>3 DEF Attempts
<1> QED BY <1>3, <1>10, <1>11 DEF TheAnswer!Next

\* A query gives up an attempt: it retries or it fails.
LEMMA AnswerThrows ==
  ASSUME NEW q \in Query, QueryInv, Throws(q), UNCHANGED serviceVars,
         ask[q].pc \in {"idle", "again", "unpaid", "paid"}
  PROVE  TheAnswer!Next
<1>0. AskOK /\ ask[q] \in QueryRecords /\ UNCHANGED spent
  BY DEF QueryInv, AskOK, serviceVars
<1> DEFINE k == Thrown(ask[q])
<1>1. /\ k \in QueryRecords
      /\ \/ ask[q].attempt < MaxAttempts /\ k.pc = "again" /\ k.attempt = ask[q].attempt + 1
         \/ ask[q].attempt = MaxAttempts /\ k.pc = "failed" /\ k.attempt = ask[q].attempt
  BY <1>0, ThrownRecord
<1>2. ask' = [ask EXCEPT ![q] = k]
  BY DEF Throws
<1> HIDE DEF k
<1>3. ask'[q] = k /\ \A y \in Query : y # q => ask'[y] = ask[y]
  BY <1>0, <1>1, <1>2, OneQueryChanges
<1>4. AnswerCharged' = AnswerCharged /\ AnswerOutcome[q] = "open"
  BY <1>0 DEF AnswerCharged, AnswerOutcome
<1>5. CASE ask[q].attempt < MaxAttempts /\ k.pc = "again" /\ k.attempt = ask[q].attempt + 1
  <2>1. AnswerOutcome' = AnswerOutcome
    <3>1. \A y \in Query : AnswerOutcome'[y] = AnswerOutcome[y]
      BY <1>3, <1>5 DEF AnswerOutcome
    <3> QED BY <3>1 DEF AnswerOutcome
  <2>2. AnswerAttempt' = [AnswerAttempt EXCEPT ![q] = @ + 1]
    BY <1>3, <1>5 DEF AnswerAttempt
  <2>3. TheAnswer!Retry(q)
    BY <1>4, <1>5, <2>1, <2>2 DEF TheAnswer!Retry, AnswerOutcome, AnswerAttempt, AnswerCharged
  <2> QED BY <2>3 DEF TheAnswer!Next
<1>6. CASE ask[q].attempt = MaxAttempts /\ k.pc = "failed" /\ k.attempt = ask[q].attempt
  <2>1. AnswerOutcome' = [AnswerOutcome EXCEPT ![q] = "failed"]
    BY <1>3, <1>6 DEF AnswerOutcome
  <2>2. AnswerAttempt' = AnswerAttempt
    BY <1>3, <1>6 DEF AnswerAttempt
  <2>3. TheAnswer!Fail(q)
    BY <1>4, <1>6, <2>1, <2>2 DEF TheAnswer!Fail, AnswerOutcome, AnswerAttempt, AnswerCharged
  <2> QED BY <2>3 DEF TheAnswer!Next
<1> QED BY <1>1, <1>5, <1>6

\* An answer that is taken came with a receipt, so its attempt was paid for.
LEMMA AnswerTaken ==
  ASSUME NEW q \in Query, NEW body, NEW receipt \in Receipts(Open(q)),
         QueryInv, Waits(q), Receive(q, body, receipt)
  PROVE  TheAnswer!Next
<1> DEFINE r == Open(q)
           n == ask[q].attempt
<1>0. AskOK /\ UNCHANGED serviceVars /\ ask[q] \in QueryRecords /\ ask[q].pc \in Legs
  BY DEF QueryInv, AskOK, Receive, Waits, Legs
<1>1. CASE Throws(q)
  BY <1>0, <1>1, AnswerThrows DEF Legs
<1>2. CASE /\ ExtractReceipt(receipt)
           /\ ask' = [ask EXCEPT ![q].pc = "answered", ![q].answer = body]
  <2>1. n \in Attempts /\ r = <<q, n, ask[q].pc>>
    BY <1>0 DEF QueryRecords, Open
  <2>2. r \in Request
    BY <1>0, <2>1, RequestsOfQueries
  <2>3. r \notin Unpriced /\ req[r].status = 200
    BY <1>2 DEF ExtractReceipt, Receipts, Receive, Responded
  <2>4. req[r].auth # Nothing /\ spent[req[r].auth] = r
    BY <2>2, <2>3 DEF QueryInv, Sold, PaidFor
  <2>5. req[r].auth = <<q, n>>
    BY <1>0, <2>1, <2>4 DEF QueryInv, Own
  <2>6. r # Nobody
    BY <2>2, NothingAssumption DEF Nobody
  <2> HIDE DEF r
  <2>7. n \in AnswerCharged[q]
    BY <2>1, <2>4, <2>5, <2>6 DEF AnswerCharged
  <2>8. AnswerOutcome' = [AnswerOutcome EXCEPT ![q] = "answered"]
    <3>1. \A y \in Query : ask'[y].pc = IF y = q THEN "answered" ELSE ask[y].pc
      BY <1>0, <1>2 DEF AskOK, QueryRecords
    <3> QED BY <3>1 DEF AnswerOutcome
  <2>9. AnswerAttempt' = AnswerAttempt
    <3>1. \A y \in Query : ask'[y].attempt = ask[y].attempt
      BY <1>0, <1>2 DEF AskOK, QueryRecords
    <3> QED BY <3>1 DEF AnswerAttempt
  <2>10. AnswerCharged' = AnswerCharged /\ AnswerOutcome[q] = "open" /\ AnswerAttempt[q] = n
    BY <1>0 DEF AnswerCharged, AnswerOutcome, AnswerAttempt, serviceVars, Legs
  <2>11. TheAnswer!Answer(q)
    BY <2>7, <2>8, <2>9, <2>10 DEF TheAnswer!Answer, AnswerOutcome, AnswerAttempt, AnswerCharged
  <2> QED BY <2>11 DEF TheAnswer!Next
<1> QED BY <1>1, <1>2 DEF Receive

\* The initial states are initial states of PaidAnswer.
LEMMA AnswerBegins == QueryInit => TheAnswer!Init
<1> SUFFICES ASSUME QueryInit PROVE TheAnswer!Init
  OBVIOUS
<1>1. \A q \in Query : ask[q].pc = "idle" /\ ask[q].attempt = 1
  <2>1. \A q \in Query : \E id \in Names : ask[q] = NewQuery(id)
    BY DEF QueryInit
  <2>2. \A id \in Names : NewQuery(id).pc = "idle" /\ NewQuery(id).attempt = 1
    BY DEF NewQuery
  <2> QED BY <2>1, <2>2
<1>2. \A q \in Query, n \in Attempts : spent[<<q, n>>] = Nobody
  BY RequestsOfQueries DEF QueryInit, ServiceInit
<1> QED BY <1>1, <1>2 DEF TheAnswer!Init

\* Every step is a step of PaidAnswer or none.
LEMMA AnswerStep ==
  QueryInv /\ [QueryNext]_queryVars => [TheAnswer!Next]_(TheAnswer!vars)
<1> SUFFICES ASSUME QueryInv, [QueryNext]_queryVars
             PROVE  [TheAnswer!Next]_(TheAnswer!vars)
  OBVIOUS
<1>0. ServiceInv /\ AskOK
  BY DEF QueryInv
<1>1. ASSUME UNCHANGED <<ask, spent>> PROVE UNCHANGED TheAnswer!vars
  BY <1>1, AnswerStutters
<1>2. ASSUME NEW r \in Request, Serve(r) \/ LateCharge(r)
      PROVE  [TheAnswer!Next]_(TheAnswer!vars)
  <2>1. CASE Advance(r) /\ UNCHANGED ask
    BY <1>0, <1>1, <2>1, RequestMoves
  <2>2. CASE (Charge(r) \/ LateCharge(r)) /\ UNCHANGED ask
    BY <2>2, AnswerCharges
  <2> QED BY <1>2, <2>1, <2>2 DEF Serve, LateCharge
<1>3. ASSUME Service \/ Restart PROVE [TheAnswer!Next]_(TheAnswer!vars)
  BY <1>1, <1>3 DEF Service, Restart, Initialize, InitDone, InitFails, WindowEnds, IntentSettles
<1>4. ASSUME NEW q \in Query,
             Send(q, "unpaid", Nothing) \/ Send(q, "paid", <<q, ask[q].attempt>>),
             ask[q].pc \in {"idle", "again", "unpaid"}
      PROVE  UNCHANGED TheAnswer!vars
  <2>1. UNCHANGED spent
    BY <1>4 DEF Send, Arrive, Limited
  <2>2. PICK leg \in Legs : ask' = [ask EXCEPT ![q].pc = leg]
    BY <1>4 DEF Send, Legs
  <2>3. \A y \in Query : /\ ask'[y].attempt = ask[y].attempt
                         /\ ask'[y].pc = IF y = q THEN leg ELSE ask[y].pc
    BY <1>0, <2>2 DEF AskOK, QueryRecords
  <2>4. \A y \in Query : \/ ask'[y].pc = ask[y].pc
                         \/ {ask[y].pc, ask'[y].pc} \cap {"answered", "failed"} = {}
    BY <1>4, <2>3 DEF Legs
  <2> QED BY <2>1, <2>3, <2>4, AnswerStutters
<1>5. ASSUME NEW q \in Query, Throws(q), UNCHANGED serviceVars,
             ask[q].pc \in {"idle", "again", "unpaid", "paid"}
      PROVE  TheAnswer!Next
  BY <1>5, AnswerThrows
<1>6. ASSUME NEW q \in Query, NEW body, NEW receipt \in Receipts(Open(q)),
             Waits(q), Receive(q, body, receipt)
      PROVE  TheAnswer!Next
  BY <1>6, AnswerTaken
<1>7. ASSUME UNCHANGED queryVars PROVE UNCHANGED TheAnswer!vars
  BY <1>1, <1>7 DEF queryVars, serviceVars
<1> QED BY <1>2, <1>3, <1>4, <1>5, <1>6, <1>7, QuerySteps

\* ImplementsPaidAnswer: two attempts at most, each paid for at most once, and
\* no answer that was not paid for by the attempt that brought it, although
\* answers are lost, the service restarts and transfers execute late.
THEOREM QueriesImplementPaidAnswer == QuerySpec => ImplementsPaidAnswer
  BY AnswerBegins, AnswerStep, QueryInvariant, PTL
     DEF QuerySpec, ImplementsPaidAnswer, TheAnswer!Spec
=============================================================================
