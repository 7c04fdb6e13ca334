----------------------------- MODULE PaidQuery ------------------------------
(***************************************************************************)
(* Queries of the agent at one verifier service: CasperVerifierClient,     *)
(* packages/adapters/src/casper-verifier-client.ts, called by              *)
(* queryWithRetry, together with VerifierService.  A query makes up to two *)
(* attempts, an attempt an unpaid request and, when that is answered 402,  *)
(* the same request with a fresh payment authorization.                    *)
(*                                                                         *)
(* A connection may break while the service goes on with the request, and  *)
(* the service may stop and be started again: it keeps nothing then, but a *)
(* transfer that its facilitator has in hand may still execute.            *)
(***************************************************************************)
EXTENDS VerifierService, FiniteSets

CONSTANTS
  Query,     \* queries that the agent may make
  MaxAsked,  \* BOUND: how many of them it makes
  Names,     \* the cycle ids a query may have
  Trimmed    \* id -> what String.trim leaves of it, Malformed for nothing

MaxAttempts == 2
Attempts == 1 .. MaxAttempts

ASSUME QueryAssumption ==
  /\ Request = Query \X Attempts \X {"unpaid", "paid"}
  /\ Authorization = Query \X Attempts
  /\ \A q \in Query, n \in Attempts, leg \in {"unpaid", "paid"} :
       <<q, n, leg>> \in Unpriced <=> <<q, 1, "unpaid">> \in Unpriced
  /\ DOMAIN Trimmed = Names
  /\ \A id \in Names : Trimmed[id] \in Cycle \cup {Malformed}

VARIABLE ask   \* the queries

queryVars == <<serviceVars, ask>>

NewQuery(id) == [pc |-> "idle", attempt |-> 1, id |-> id, answer |-> Nothing]

\* The request that a query waits for.
Open(q) == <<q, ask[q].attempt, ask[q].pc>>
Waits(q) == ask[q].pc \in {"unpaid", "paid"}
Responded(q, status) ==
  Waits(q) /\ req[Open(q)].pc = "done" /\ req[Open(q)].status = status

-----------------------------------------------------------------------------
(* queryWithRetry, and the requests of an attempt. *)

\* Whatever client.query throws: another attempt, once.
Thrown(k) ==
  IF k.attempt < MaxAttempts THEN [k EXCEPT !.pc = "again", !.attempt = @ + 1]
  ELSE [k EXCEPT !.pc = "failed"]
Throws(q) == ask' = [ask EXCEPT ![q] = Thrown(@)]

\* A request arrives at the service and is let through, or limited.
Send(q, leg, auth) ==
  LET r == <<q, ask[q].attempt, leg>>
  IN  /\ Arrive(r, auth, Trimmed[ask[q].id]) \/ Limited(r)
      /\ ask' = [ask EXCEPT ![q].pc = leg]

\* The agent starts on a query; the loop comes back for a second attempt.
Asked == {q \in Query : ask[q].pc # "idle"}
MayStart(q) == ask[q].pc = "idle" /\ Cardinality(Asked) < MaxAsked
Start(q) == MayStart(q) /\ Send(q, "unpaid", Nothing)
Again(q) == ask[q].pc = "again" /\ Send(q, "unpaid", Nothing)

\* 402: paidFetch signs an authorization and sends the request with it.
Pay(q) ==
  /\ ask[q].pc = "unpaid" /\ Responded(q, 402)
  /\ Send(q, "paid", <<q, ask[q].attempt>>)

\* Any other status that is not ok, and the 402 of a paid request.
NotOk(q) ==
  /\ \/ \E status \in {400, 429, 500} : Responded(q, status)
     \/ ask[q].pc = "paid" /\ Responded(q, 402)
  /\ Throws(q)
  /\ UNCHANGED serviceVars

\* paidFetch rejects: nothing was sent, no requirement could be met, or the
\* connection broke, in whatever state the request is.
FetchRejects(q) ==
  /\ MayStart(q) \/ ask[q].pc = "again" \/ Waits(q)
  /\ Throws(q)
  /\ UNCHANGED serviceVars

-----------------------------------------------------------------------------
(* The answer. *)

\* A verdict with the key it states for its signer, and the key whose signature
\* of this very verdict it carries, if any.
Keys == {"service", "another"}
SignedVerdicts == [cycle : Names \cup Cycle, verdict : {"yes", "no"},
                   signer : Keys, signature : Keys \cup {Nothing}]
Unreadable == Nothing     \* not JSON, or not a SignedVerdict

\* The body as it was sent, or whatever something on the way has made of it,
\* with a key of its own if need be, or with a verdict that the service has
\* signed for another request; only the service signs with its key.
Bodies ==
  {Unreadable} \cup
  {body \in SignedVerdicts :
     body.signature = "service" =>
       \E r \in Request : body.cycle = req[r].query /\ body.verdict = req[r].verdict}

\* Mutant of ParseVerdict: the signature is not verified.
ParseUnverified(body, id) == body # Unreadable /\ body.cycle = id

\* parseVerdict: structure, ids, and the signature under the key that the body
\* states.  The endpoint's entry has no key that it could be compared with.
ParseVerdict(body, id) ==
  /\ body # Unreadable
  /\ body.cycle = id
  /\ body.signature = body.signer

\* The receipts a response with status 200 may carry: none where nothing was
\* settled, else the settlement's, whose transaction hash may be empty.
Receipts(r) == IF r \in Unpriced THEN {"absent"} ELSE {"settled", "noTransaction"}

\* Mutant of ExtractReceipt: an answer without a receipt will do.
ReceiptOptional(receipt) == receipt \in {"settled", "absent"}

ExtractReceipt(receipt) == receipt = "settled"

Receive(q, body, receipt) ==
  /\ Responded(q, 200)
  /\ IF ParseVerdict(body, ask[q].id) /\ ExtractReceipt(receipt)
     THEN ask' = [ask EXCEPT ![q].pc = "answered", ![q].answer = body]
     ELSE Throws(q)
  /\ UNCHANGED serviceVars

-----------------------------------------------------------------------------
(* The process of the service. *)

InProgress(q) == q.pc \notin {"idle", "done", "lost", "lostSettling"}

\* It stops, with every request in it, and a new one listens.
Restart ==
  /\ \E r \in Request : InProgress(req[r])
  /\ req' = [r \in Request |->
               IF ~InProgress(req[r]) THEN req[r]
               ELSE At(req[r], IF req[r].pc = "settle" THEN "lostSettling" ELSE "lost")]
  /\ init' = "null"
  /\ hits' = 0
  /\ UNCHANGED <<spent, rail, ask>>

LateCharge(r) ==
  /\ req[r].pc = "lostSettling"
  /\ spent[req[r].auth] = Nobody
  /\ spent' = [spent EXCEPT ![req[r].auth] = r]
  /\ UNCHANGED <<req, init, hits, rail, ask>>

\* A broken connection is noticed.
Dead(q) == Waits(q) /\ req[Open(q)].pc \in {"lost", "lostSettling"}

-----------------------------------------------------------------------------

QueryInit ==
  /\ ServiceInit
  /\ ask \in [Query -> {NewQuery(id) : id \in Names}]

\* What the client does about a query it has started.
Client(q) ==
  \/ Again(q) \/ Pay(q) \/ NotOk(q)
  \/ Waits(q) /\ \E body \in Bodies, receipt \in Receipts(Open(q)) :
                   Receive(q, body, receipt)
  \/ Dead(q) /\ FetchRejects(q)

\* What goes on at the service.
Serve(r) == (Advance(r) \/ Charge(r)) /\ UNCHANGED ask
Service ==
  /\ \/ Initialize \/ WindowEnds
     \/ \E c \in Cycle, status \in {"succeeded", "canceled"} : IntentSettles(c, status)
  /\ UNCHANGED ask

QueryNext ==
  \/ \E q \in Query : Start(q) \/ Client(q) \/ FetchRejects(q)
  \/ \E r \in Request : Serve(r) \/ LateCharge(r)
  \/ Service
  \/ Restart

\* The client takes what comes; calls of the service return or throw.  The
\* client has no timeout: that it ends rests on the service answering.
QueryFairness ==
  /\ \A q \in Query : WF_queryVars(Client(q))
  /\ \A r \in Request : WF_queryVars(Advance(r) /\ UNCHANGED ask)
  /\ WF_queryVars(Initialize /\ UNCHANGED ask)

QuerySpec == QueryInit /\ [][QueryNext]_queryVars /\ QueryFairness

-----------------------------------------------------------------------------
(* Properties. *)

\* The client and the service together keep what PaidAnswer promises: see
\* there.  A payment that was lost with its answer, or executes when nobody
\* waits for it any more, is one of the attempts that were made.
TheAnswer ==
  INSTANCE PaidAnswer WITH
    outcome <- [q \in Query |-> IF ask[q].pc \in {"answered", "failed"}
                                THEN ask[q].pc ELSE "open"],
    attempt <- [q \in Query |-> ask[q].attempt],
    charged <- [q \in Query |-> {n \in Attempts : spent[<<q, n>>] # Nobody}]

ImplementsPaidAnswer == TheAnswer!Spec

\* An answer is about exactly the cycle that was asked about, and one under the
\* service's key is the verdict it computed: a "yes" has a confirmed payment of
\* that cycle behind it, whatever was altered, retried or restarted on the way.
\* An answer under another key may say anything, since the client does not know
\* whose answer it waits for; the contract's REGISTERED check is what stops it.
AnswerIsItsVerdict ==
  \A q \in Query :
    ask[q].pc = "answered" =>
      /\ ask[q].answer.cycle = ask[q].id
      /\ ask[q].answer.signer = "service" /\ ask[q].answer.verdict = "yes" =>
           /\ rail[ask[q].id].status = "succeeded"
           /\ rail[ask[q].id].reference = ExpectedReference
           /\ rail[ask[q].id].amount >= PaymentIndex[ask[q].id]

\* Every query that was started is answered or has failed.
QueriesEnd ==
  \A q \in Query : ask[q].pc # "idle" ~> ask[q].pc \in {"answered", "failed"}
=============================================================================
