---------------------------- MODULE ChainClient ----------------------------
(***************************************************************************)
(* CasperJsChainClient, packages/adapters/src/casper-js-chain-client.ts,   *)
(* between the sessions that use it and a node: the guard's dictionary     *)
(* query, the submission of distribute, and waitForFinality, in the order  *)
(* in which e2e/harness/run-cycle.mjs makes the calls for one cycle.  Each *)
(* call is a request and a reply; the node looks at its state in between.  *)
(*                                                                         *)
(* Time is counted in units of which a request and its reply take at most  *)
(* Latency.  The code sets no such limit; the properties are relative to   *)
(* the longest a call takes.                                               *)
(***************************************************************************)
EXTENDS Integers, Sequences, FiniteSets

CONSTANTS
  Session,        \* BOUND: sessions for the cycle
  Timeout,        \* finalityTimeoutMs
  PollInterval,   \* finalityPollMs
  Latency,        \* the longest a call of the node takes
  LastStart,      \* BOUND: sessions start up to this time
  AbsentErrors,   \* how the node says that a dictionary item is absent
  FaultErrors     \* how everything else that goes wrong shows, the faults
                  \* included that look as an absent item does

\* A thrown error: the three places of a numeric code, of which a place may
\* hold something else, and whether its text looks like "not found".
NotANumber == "not a number"
Codes == {"QueryFailed", "QueryFailedToExecute", "FailedToGetDictionaryURef",
          "FailedToParseQueryKey", "NodeRequestFailed", "AnotherCode"}
Place == Codes \cup {NotANumber}
Errors == [code : Place, statusCode : Place, sourceCode : Place,
           looksNotFound : BOOLEAN]

ASSUME ClientAssumption ==
  /\ Timeout \in Nat /\ PollInterval \in Nat /\ Latency \in Nat \ {0}
  /\ LastStart \in Nat
  /\ AbsentErrors \subseteq Errors
  /\ FaultErrors \subseteq Errors

VARIABLES
  now,       \* Date.now()
  session,   \* the state of each session
  tx,        \* its distribute transaction on the chain
  item       \* the `distributed` item of the cycle

clientVars == <<now, session, tx, item>>

NoReply == [kind |-> "none"]
ItemReply == [kind |-> "item"]
ErrorReply(e) == [kind |-> "error", error |-> e]
Idle == [pc |-> "idle", sent |-> 0, reply |-> NoReply, settledBefore |-> FALSE,
         fault |-> NoReply, began |-> 0, deadline |-> 0, wake |-> 0, outcome |-> "none"]
NoTx == [status |-> "none", at |-> 0]

\* A request goes out, is answered; a timer is set; a session ends.
Send(q, pc) == [q EXCEPT !.pc = pc, !.sent = now, !.wake = 0]
Replied(q, pc, reply) == [q EXCEPT !.pc = pc, !.reply = reply]
Taken(q) == [q EXCEPT !.sent = 0, !.reply = NoReply]
Sleeps(q) == [Taken(q) EXCEPT !.pc = "sleep", !.wake = now + PollInterval]
Ends(q, outcome) == [Taken(q) EXCEPT !.pc = "done", !.outcome = outcome]
Becomes(s, q) == session' = [session EXCEPT ![s] = q] /\ UNCHANGED <<now, tx, item>>

-----------------------------------------------------------------------------
(* Construction, and queryDictItem. *)

\* The key file cannot be read, or is no key.
ConstructionThrows(s) ==
  session[s].pc = "idle" /\ now <= LastStart /\ Becomes(s, Ends(session[s], "threw"))

AskGuard(s) ==
  /\ session[s].pc = "idle" /\ now <= LastStart
  /\ Becomes(s, Send([session[s] EXCEPT !.settledBefore = item], "guard"))

\* A fault that answers for a cycle that is settled is kept for the properties.
Noted(q, reply) == IF q.settledBefore THEN [q EXCEPT !.fault = reply] ELSE q

NodeReads(s) ==
  /\ session[s].pc = "guard"
  /\ \/ \E reply \in IF item THEN {ItemReply} ELSE {ErrorReply(e) : e \in AbsentErrors} :
          Becomes(s, Replied(session[s], "guardReply", reply))
     \/ \E e \in FaultErrors :
          LET reply == ErrorReply(e)
          IN  Becomes(s, Replied(Noted(session[s], reply), "guardReply", reply))

DictAbsentRpcCodes ==
  {"QueryFailed", "QueryFailedToExecute", "FailedToGetDictionaryURef",
   "FailedToParseQueryKey"}

\* The first place that holds a number, if one does.
FirstCode(e) ==
  IF e.code # NotANumber THEN e.code
  ELSE IF e.statusCode # NotANumber THEN e.statusCode ELSE e.sourceCode

\* Mutant of IsDictionaryNotFound: the text is enough.
AbsentByText(e) == e.looksNotFound \/ FirstCode(e) \in DictAbsentRpcCodes

IsDictionaryNotFound(e) ==
  \/ FirstCode(e) \in DictAbsentRpcCodes
  \/ FirstCode(e) \in {"NodeRequestFailed", NotANumber} /\ e.looksNotFound

\* runCycle halts if the item is there, and lets an error through; if the item
\* is absent it goes on and asks the verifiers, who make a quorum or do not.
GuardReturns(s) ==
  LET q == session[s]
      absent == q.reply # ItemReply /\ IsDictionaryNotFound(q.reply.error)
  IN  /\ q.pc = "guardReply"
      /\ \/ q.reply = ItemReply /\ Becomes(s, Ends(q, "already_distributed"))
         \/ absent /\ Becomes(s, Send(Taken(q), "put"))
         \/ absent /\ Becomes(s, Ends(q, "below_quorum"))
         \/ q.reply # ItemReply /\ ~absent /\ Becomes(s, Ends(q, "threw"))

-----------------------------------------------------------------------------
(* callEntrypoint and signAndSubmit. *)

NodeTakes(s) ==
  /\ session[s].pc = "put"
  /\ session' = [session EXCEPT ![s].pc = "putReply"]
  /\ tx' = [tx EXCEPT ![s].status = "pending"]
  /\ UNCHANGED <<now, item>>

\* putTransaction throws, whether or not the node has taken the transaction.
PutThrows(s) ==
  session[s].pc \in {"put", "putReply"} /\ Becomes(s, Ends(session[s], "threw"))

PutReturns(s) ==
  session[s].pc = "putReply" /\ Becomes(s, Send(session[s], "submitted"))

-----------------------------------------------------------------------------
(* waitForFinality.  The harness calls it once runCycle has returned, which *)
(* takes its time for the brief.                                            *)

StartWaiting(s) ==
  /\ session[s].pc = "submitted"
  /\ Becomes(s, Send([session[s] EXCEPT !.began = now, !.deadline = now + Timeout], "poll"))

\* What the node may report of a transaction: the outcome of an executed one,
\* otherwise an execution without a block or without a result, if any.
Info(height, result) == [kind |-> "info", blockHeight |-> height, result |-> result]
Reports(t) ==
  IF t.status \in {"success", "failure"} THEN {Info("real", t.status)}
  ELSE {Info("zero", "success"), Info("zero", "failure"), Info("real", "none")}

NodeReports(s) ==
  /\ session[s].pc = "poll"
  /\ \E info \in Reports(tx[s]) : Becomes(s, Replied(session[s], "pollReply", info))

\* Mutants of IsFinal and of Outcome: the height is not looked at; the error
\* message is not.
FinalAtAnyHeight(info) == info.result # "none"
AlwaysSuccess(info) == "success"

IsFinal(info) == info.blockHeight # "zero" /\ info.result # "none"
Outcome(info) == info.result

\* Mutant of NextRound: the deadline is set anew for each poll.
NextRoundExtended(q) ==
  IF now >= q.deadline THEN Ends(q, "timeout")
  ELSE [Sleeps(q) EXCEPT !.deadline = now + Timeout]

\* A poll that does not find the transaction final: give up, or sleep.
NextRound(q) ==
  IF now >= q.deadline THEN Ends(q, "timeout")
  ELSE Sleeps(q)

PollReturns(s) ==
  LET q == session[s]
  IN  /\ q.pc = "pollReply"
      /\ Becomes(s, IF IsFinal(q.reply) THEN Ends(q, Outcome(q.reply)) ELSE NextRound(q))

\* Mutant of AfterPollFault: the caller is left without an answer.
FaultSwallowed(q) == [q EXCEPT !.pc = "hung"]

AfterPollFault(q) == Ends(q, "poll_failed")

PollThrows(s) ==
  session[s].pc \in {"poll", "pollReply"} /\ Becomes(s, AfterPollFault(session[s]))

\* Mutant of Awake: the deadline is looked at before the node is asked.
AwakeToGiveUp(q) == IF now >= q.deadline THEN Ends(q, "timeout") ELSE Send(q, "poll")

Awake(q) == Send(q, "poll")

Wake(s) ==
  /\ session[s].pc = "sleep"
  /\ now >= session[s].wake
  /\ Becomes(s, Awake(session[s]))

-----------------------------------------------------------------------------
(* The chain and the clock. *)

\* distribute reverts once the cycle is settled, and may revert before.
Execute(s, status) ==
  /\ tx[s].status = "pending"
  /\ status = "success" => ~item
  /\ tx' = [tx EXCEPT ![s] = [status |-> status, at |-> now]]
  /\ item' = (item \/ status = "success")
  /\ UNCHANGED <<now, session>>

Expire(s) ==
  /\ tx[s].status = "pending"
  /\ tx' = [tx EXCEPT ![s].status = "expired"]
  /\ UNCHANGED <<now, session, item>>

InFlight(s) ==
  session[s].pc \in {"guard", "guardReply", "put", "putReply", "submitted",
                     "poll", "pollReply"}
Waiting(s) == session[s].pc \in {"poll", "pollReply", "sleep"}

Tick ==
  /\ now < LastStart \/ \E s \in Session : InFlight(s) \/ Waiting(s)
  /\ \A s \in Session :
       /\ InFlight(s) => now < session[s].sent + Latency
       /\ session[s].pc = "sleep" => now < session[s].wake
  /\ now' = now + 1
  /\ UNCHANGED <<session, tx, item>>

-----------------------------------------------------------------------------

ClientInit ==
  /\ now = 0
  /\ session = [s \in Session |-> Idle]
  /\ tx = [s \in Session |-> NoTx]
  /\ item = FALSE

Start(s) == ConstructionThrows(s) \/ AskGuard(s)
Proceed(s) ==
  \/ NodeReads(s) \/ GuardReturns(s) \/ NodeTakes(s) \/ PutThrows(s) \/ PutReturns(s)
  \/ StartWaiting(s) \/ NodeReports(s) \/ PollReturns(s) \/ PollThrows(s) \/ Wake(s)

ClientNext ==
  \/ \E s \in Session :
       \/ Start(s) \/ Proceed(s) \/ Expire(s)
       \/ \E status \in {"success", "failure"} : Execute(s, status)
  \/ Tick

\* Calls return or throw, timers fire and time goes on.
ClientFairness ==
  (\A s \in Session : WF_clientVars(Proceed(s))) /\ WF_clientVars(Tick)

ClientSafety == ClientInit /\ [][ClientNext]_clientVars
ClientSpec == ClientSafety /\ ClientFairness

-----------------------------------------------------------------------------
(* Properties. *)

\* An error that an absent item might have shown as as well: it carries one of
\* the codes of an absent item somewhere, or its text says "not found" and it
\* carries no code at all or that of a request that failed for any reason.
Ambiguous(e) ==
  LET said == {e.code, e.statusCode, e.sourceCode}
  IN  \/ said \cap DictAbsentRpcCodes # {}
      \/ e.looksNotFound /\ ("NodeRequestFailed" \in said \/ said = {NotANumber})

\* A session submits for a cycle that was already settled when it asked only if
\* its guard was answered by an ambiguous fault; any other fault stops it.  The
\* agent's guard against paying for a settled cycle rests on this.  It is less
\* than casper-js-chain-client.ts says (:37-39, :413-416: faults of transport
\* and parsing "must surface", "never mask a real fault"): the codes of an
\* absent item include FailedToParseQueryKey, and without a code a text such
\* as "getaddrinfo ENOTFOUND" is enough.
GuardIsSound ==
  \A s \in Session :
    tx[s].status # "none" /\ session[s].settledBefore =>
      session[s].fault # NoReply /\ Ambiguous(session[s].fault.error)

\* Finality, once reported, is what the chain has: never a tentative result.
OutcomeIsTruth ==
  \A s \in Session :
    session[s].outcome \in {"success", "failure"} => tx[s].status = session[s].outcome

\* The exit code of run-cycle.mjs: 0 for a halt and for a distribution that
\* was seen to succeed.  Unless the verifiers made no quorum it is 0 only if the
\* cycle is settled, although sessions overlap and replies are late.
ExitCode(s) ==
  IF session[s].outcome \in {"already_distributed", "below_quorum", "success"} THEN 0 ELSE 1
ExitZeroMeansSettled ==
  \A s \in Session :
    /\ session[s].pc = "done" /\ ExitCode(s) = 0
    /\ session[s].outcome # "below_quorum"
    => item

\* A wait that is given up has asked late enough: a transaction that was
\* executed a call's time before the deadline is not missed.
TimeoutIsHonest ==
  \A s \in Session :
    session[s].outcome = "timeout" /\ tx[s].status \in {"success", "failure"}
      => tx[s].at + Latency >= session[s].deadline

\* Nobody waits for longer than the timeout, one more sleep and one more call.
WaitIsBounded ==
  \A s \in Session :
    Waiting(s) => now <= session[s].began + Timeout + PollInterval + Latency

\* Every session that has started ends.
EverySessionEnds ==
  \A s \in Session : session[s].pc # "idle" ~> session[s].pc = "done"
=============================================================================
