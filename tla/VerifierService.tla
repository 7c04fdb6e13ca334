-------------------------- MODULE VerifierService --------------------------
(***************************************************************************)
(* One verifier service, verifiers/src/server.ts: GET /verify behind a     *)
(* rate limiter and the x402 payment gate, with settlement deferred until  *)
(* the handler has written a verdict.  Requests overlap; each step runs to *)
(* the next await.  The facilitator, the payment token and the payment     *)
(* rail are outside: they answer, refuse or fail as they like, but a       *)
(* payment authorization is spent at most once.                            *)
(***************************************************************************)
EXTENDS Cashflow

CONSTANTS
  Request,         \* BOUND: requests that arrive
  Authorization,   \* signed payment authorizations, each with its nonce
  Unpriced,        \* requests whose path the gateway's routes do not price
  MaxHits,         \* requests per window that the limiter lets through
  Intent           \* states of a payment intent on the rail

\* An intent that is "processing" stands for each status before the last.
Intents == [status : {"processing", "succeeded", "canceled"},
            reference : {Nothing} \cup STRING, amount : {Nothing} \cup Nat]

ASSUME ServiceAssumption ==
  /\ Unpriced \subseteq Request
  /\ Intent \subseteq Intents
  /\ MaxHits \in Nat \ {0}
ASSUME NothingAssumption ==
  /\ Nothing \notin Request \cup Authorization \cup {"yes", "no"}
  /\ "malformed" \notin Cycle

VARIABLES
  req,      \* the requests
  init,     \* initPromise of the gate: "null", "pending" or "resolved"
  hits,     \* requests counted in this window
  spent,    \* authorization -> the request it was settled for, or Nobody
  rail      \* cycle -> its payment intent

serviceVars == <<req, init, hits, spent, rail>>

Nobody == Nothing
Malformed == "malformed"    \* a query without asset or cycle, or a blank one

Fresh == [pc |-> "idle", auth |-> Nothing, query |-> Malformed, status |-> 0,
          verdict |-> Nothing, fault |-> "none"]

\* The updates of a request.  `fault` notes that a call made for it failed.
At(q, pc) == [q EXCEPT !.pc = pc]
Offers(q, auth) == [q EXCEPT !.auth = auth]
Asks(q, query) == [q EXCEPT !.query = query]
Judged(q, verdict) == [q EXCEPT !.verdict = verdict]
Answered(q, status) == [At(q, "done") EXCEPT !.status = status]
Failed(q) == [Answered(q, 500) EXCEPT !.fault = "call"]

-----------------------------------------------------------------------------
(* The limiter and the lazy initialization that the requests share. *)

\* Mutant of AfterInitFailure: the rejected promise is kept.
RejectionKept == "rejected"

AfterInitFailure == "null"

Limited(r) ==
  /\ req[r].pc = "idle"
  /\ hits >= MaxHits
  /\ req' = [req EXCEPT ![r] = Answered(@, 429)]
  /\ UNCHANGED <<init, hits, spent, rail>>

\* A request reaches ensureInitialized: it starts the initialization, joins
\* the one in flight, or finds the promise settled.
Arrive(r, auth, query) ==
  LET q == Asks(Offers(req[r], auth), query)
  IN  /\ req[r].pc = "idle"
      /\ hits < MaxHits
      /\ hits' = hits + 1
      /\ init' = IF init = "null" THEN "pending" ELSE init
      /\ req' = [req EXCEPT ![r] =
                   CASE init = "rejected" -> Answered(q, 500)
                     [] init = "resolved" -> At(q, "gate")
                     [] OTHER             -> At(q, "init")]
      /\ UNCHANGED <<spent, rail>>

Waiting == {r \in Request : req[r].pc = "init"}

InitDone ==
  /\ init = "pending"
  /\ init' = "resolved"
  /\ req' = [r \in Request |->
               IF r \in Waiting THEN At(req[r], "gate") ELSE req[r]]
  /\ UNCHANGED <<hits, spent, rail>>

InitFails ==
  /\ init = "pending"
  /\ init' = AfterInitFailure
  /\ req' = [r \in Request |-> IF r \in Waiting THEN Failed(req[r]) ELSE req[r]]
  /\ UNCHANGED <<hits, spent, rail>>

WindowEnds ==
  /\ hits > 0
  /\ hits' = 0
  /\ UNCHANGED <<req, init, spent, rail>>

-----------------------------------------------------------------------------
(* The gate: processHTTPRequest, and the handler up to its first await. *)

\* Mutant of Enter: the interceptor settles whatever the handler answers.
SettleRefusals(q) ==
  CASE q.query # Malformed -> At(q, "fetch")
    [] q.query = Malformed /\ q.auth # Nothing -> At(q, "settle")
    [] OTHER -> Answered(q, 400)

\* handleVerify answers a query that lacks an id with 400, which the
\* interceptor flushes unsettled; otherwise it starts to fetch.
Enter(q) ==
  IF q.query = Malformed THEN Answered(q, 400) ELSE At(q, "fetch")

GateThrows(r) ==
  /\ req[r].pc = "gate"
  /\ req' = [req EXCEPT ![r] = Failed(@)]
  /\ UNCHANGED <<init, hits, spent, rail>>

\* payment-error: no authorization, a bad or a spent one.
PaymentError(r) ==
  /\ req[r].pc = "gate" /\ r \notin Unpriced
  /\ req' = [req EXCEPT ![r] = Answered(@, 402)]
  /\ UNCHANGED <<init, hits, spent, rail>>

PaymentVerified(r) ==
  /\ req[r].pc = "gate" /\ r \notin Unpriced
  /\ req[r].auth # Nothing
  /\ spent[req[r].auth] = Nobody
  /\ req' = [req EXCEPT ![r] = Enter(@)]
  /\ UNCHANGED <<init, hits, spent, rail>>

NoPaymentRequired(r) ==
  /\ req[r].pc = "gate" /\ r \in Unpriced
  /\ req' = [req EXCEPT ![r] = Enter(@)]
  /\ UNCHANGED <<init, hits, spent, rail>>

-----------------------------------------------------------------------------
(* runVerifier, and the response it makes. *)

\* A verdict is written with res.json: for a priced request that starts the
\* settlement, otherwise it is the response.
Fetched(r, answer) ==
  LET verdict == Decide(StripeEvidence(req[r].query, answer))
      q       == Judged(req[r], IF verdict THEN "yes" ELSE "no")
  IN  /\ req[r].pc = "fetch"
      /\ req' = [req EXCEPT ![r] = IF r \in Unpriced THEN Answered(q, 200)
                                   ELSE At(q, "settle")]
      /\ UNCHANGED <<init, hits, spent, rail>>

\* A source that rejects, or evidence whose amounts BigInt does not take.
SourceThrows(r) ==
  /\ req[r].pc = "fetch"
  /\ req' = [req EXCEPT ![r] = Failed(@)]
  /\ UNCHANGED <<init, hits, spent, rail>>

-----------------------------------------------------------------------------
(* settleThenFlush. *)

\* The token's transfer executes; processSettlement has not returned yet.
Charge(r) ==
  /\ req[r].pc = "settle"
  /\ spent[req[r].auth] = Nobody
  /\ spent' = [spent EXCEPT ![req[r].auth] = r]
  /\ UNCHANGED <<req, init, hits, rail>>

\* Mutant of FlushStatus: settlement.success is not looked at.
FlushAnyway(success) == 200

\* Mutant of OnSettlementError: the error is swallowed, nobody answers.
ErrorSwallowed(q) == [At(q, "hung") EXCEPT !.fault = "call"]

FlushStatus(success) == IF success THEN 200 ELSE 402

\* next(err): the last-resort handler answers 500.
OnSettlementError(q) == Failed(q)

SettlementReturns(r) ==
  /\ req[r].pc = "settle"
  /\ req' = [req EXCEPT ![r] = Answered(@, FlushStatus(spent[@.auth] = r))]
  /\ UNCHANGED <<init, hits, spent, rail>>

\* The call fails: before or after the transfer.
SettlementThrows(r) ==
  /\ req[r].pc = "settle"
  /\ req' = [req EXCEPT ![r] = OnSettlementError(@)]
  /\ UNCHANGED <<init, hits, spent, rail>>

-----------------------------------------------------------------------------
(* The rail: an intent that is processing succeeds or is canceled. *)

IntentSettles(c, status) ==
  /\ rail[c].status = "processing"
  /\ rail' = [rail EXCEPT ![c].status = status]
  /\ UNCHANGED <<req, init, hits, spent>>

ServiceInit ==
  /\ req = [r \in Request |-> Fresh]
  /\ init = "null"
  /\ hits = 0
  /\ spent = [a \in Authorization |-> Nobody]
  /\ rail \in [Cycle -> {i \in Intent : i.status = "processing"}]

\* The steps the service takes by itself once its calls come back.
Initialize == InitDone \/ InitFails
Gate(r) == GateThrows(r) \/ PaymentError(r) \/ PaymentVerified(r) \/ NoPaymentRequired(r)
Fetch(r) ==
  \/ SourceThrows(r)
  \/ \E answer \in NoAnswer : Fetched(r, answer)
  \/ req[r].pc = "fetch" /\ Fetched(r, IntentAnswer(rail[req[r].query]))
Settle(r) == SettlementReturns(r) \/ SettlementThrows(r)
Advance(r) == Gate(r) \/ Fetch(r) \/ Settle(r)

ServiceNext ==
  \/ \E r \in Request : Limited(r) \/ Advance(r) \/ Charge(r)
  \/ \E r \in Request, a \in Authorization \cup {Nothing}, q \in Cycle \cup {Malformed} :
       Arrive(r, a, q)
  \/ Initialize
  \/ WindowEnds
  \/ \E c \in Cycle, status \in {"succeeded", "canceled"} : IntentSettles(c, status)

\* Calls of the network return or throw.
ServiceFairness ==
  /\ WF_serviceVars(Initialize)
  /\ \A r \in Request : WF_serviceVars(Advance(r))

ServiceSafety == ServiceInit /\ [][ServiceNext]_serviceVars
ServiceSpec == ServiceSafety /\ ServiceFairness

-----------------------------------------------------------------------------
(* Properties. *)

\* The gate sells verdicts as Sale says: see there.
SaleOutcome ==
  [r \in Request |-> CASE req[r].status = 0 -> "open"
                       [] req[r].status = 200 -> "sold"
                       [] OTHER -> "refused"]
TheSale == INSTANCE Sale WITH outcome <- SaleOutcome

ImplementsSale == TheSale!Spec

\* Nobody is charged for a request that the handler refuses or cannot answer:
\* an authorization is spent only for a request whose verdict was made.
ChargedForVerdict ==
  \A a \in Authorization, r \in Request :
    spent[a] = r => req[r].verdict # Nothing /\ req[r].query # Malformed

\* "A payment verifier must NEVER report yes when it cannot confirm payment":
\* a "yes" is about an intent that has succeeded with the reference and at
\* least the amount expected, whatever failed or changed on the way.
NoFalseYes ==
  \A r \in Request :
    req[r].verdict = "yes" =>
      LET intent == rail[req[r].query]
      IN  /\ intent.status = "succeeded"
          /\ intent.reference = ExpectedReference
          /\ intent.amount >= PaymentIndex[req[r].query]

\* A request fails only for a call that failed while it was served: a failed
\* initialization is not held against the requests that arrive later.
FailuresAreItsOwn == \A r \in Request : req[r].status = 500 => req[r].fault = "call"

\* Every request that has arrived is answered.
EveryRequestAnswered ==
  \A r \in Request : req[r].pc # "idle" ~> req[r].pc = "done"
=============================================================================
