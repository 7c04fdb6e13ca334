------------------------------ MODULE Servicer ------------------------------
(***************************************************************************)
(* The servicer agent, agent/src/servicer.ts, in its surroundings: runs of *)
(* runCycle that may overlap, verifier services that are paid over x402,   *)
(* and the chain, whose contract is ServicerVault.                         *)
(*                                                                         *)
(* A run suspends at every await, and others go on meanwhile.  It submits  *)
(* transactions and does not wait for them: the chain executes a pending   *)
(* transaction at any later time, in any order, or lets it expire.  Calls  *)
(* of the network may fail before or after they have had their effect.     *)
(***************************************************************************)
EXTENDS ServicerVault, Precheck

CONSTANTS
  Run,             \* BOUND: invocations of runCycle
  AssetId,         \* cfg.assetId
  Endpoints,       \* cfg.endpoints: the verifier behind each endpoint
  QuorumRequired,  \* cfg.quorumRequired
  Honest,          \* verifiers whose verdict is what their source shows
  Masking,         \* whether the node reports faults as "no such item"
  BriefProvider,   \* what LlmBriefClient is configured with
  Agent            \* the account that signs the agent's transactions

\* A verifier's hex is its key here: signVerdict spells a key in one way.
ASSUME AgentAssumption ==
  /\ AssetId \in Asset
  /\ Endpoints \in Seq(Verifier)
  /\ \A v \in Verifier : v \in DOMAIN KeyOf /\ KeyOf[v] = v
  /\ QuorumRequired \in Nat \ {0}
  /\ Honest \subseteq Verifier
  /\ Masking \in BOOLEAN
  /\ BriefProvider \in {"anthropic", "ollama", "template"}
  /\ Agent \in Account
  /\ None \notin Cycle

VARIABLES
  run,       \* the state of each invocation
  tx,        \* its two transactions
  paidIn     \* cycles whose cashflow has reached the verifiers' sources

agentVars == <<run, tx, paidIn>>
allVars == <<vars, agentVars>>

EndpointIds == DOMAIN Endpoints
MaxAttempts == 2

Asking == [phase |-> "asking", attempt |-> 1, charged |-> 0, verdict |-> None]
NewRun == [pc |-> "idle", cycle |-> None, outcome |-> "none", brief |-> None,
           query |-> [i \in EndpointIds |-> Asking]]

RunKey(r) == Key(AssetId, run[r].cycle)
Goto(r, pc) == run' = [run EXCEPT ![r].pc = pc]
Return(r, outcome) == run' = [run EXCEPT ![r].pc = "done", ![r].outcome = outcome]

-----------------------------------------------------------------------------
(* Step 1: the guard that reads the contract's `distributed` dictionary. *)

PassGuard(r, c) == run' = [run EXCEPT ![r].cycle = c, ![r].pc = "query"]

\* Mutant of Guard: the flag is not read.
GuardSkipped(r, c) ==
  run[r].pc = "idle" /\ PassGuard(r, c) /\ UNCHANGED <<vars, tx, paidIn>>

Guard(r, c) ==
  /\ run[r].pc = "idle"
  /\ IF AlreadyDistributed(AssetId, c)
     THEN run' = [run EXCEPT ![r].cycle = c, ![r].pc = "done",
                             ![r].outcome = "already_distributed"]
     ELSE PassGuard(r, c)
  /\ UNCHANGED <<vars, tx, paidIn>>

\* isDictionaryNotFound takes four codes of the node for an absent item; a
\* query that failed to execute, or to be parsed, has two of them.
GuardMasked(r, c) ==
  /\ Masking
  /\ run[r].pc = "idle"
  /\ PassGuard(r, c)
  /\ UNCHANGED <<vars, tx, paidIn>>

\* queryDictItem throws on every other fault.
GuardFault(r, c) ==
  /\ run[r].pc = "idle"
  /\ run' = [run EXCEPT ![r].cycle = c, ![r].pc = "done", ![r].outcome = "threw"]
  /\ UNCHANGED <<vars, tx, paidIn>>

-----------------------------------------------------------------------------
(* Step 2: one paid request per endpoint, all in flight at once. *)

\* Mutant of AfterFailure: a failure is swallowed and the request never settles.
FailureSwallowed(q) == [q EXCEPT !.phase = "swallowed"]

\* queryWithRetry: a request that throws is sent again once.
AfterFailure(q) ==
  IF q.attempt < MaxAttempts THEN [q EXCEPT !.phase = "asking", !.attempt = @ + 1]
  ELSE [q EXCEPT !.phase = "failed"]

AfterCharge(q, s) ==
  [q EXCEPT !.phase = "settled", !.charged = @ + 1, !.verdict = s]

InPhase(r, i, phase) == run[r].pc = "query" /\ run[r].query[i].phase = phase

\* Mutant of MayAttest: the source is not consulted.
AttestBlindly(v, yes, c) == TRUE

\* runVerifier: an honest verifier says "yes" only to a cashflow it has found;
\* its source may not show it yet.  Another may say what it likes.
MayAttest(v, yes, c) == v \in Honest /\ yes => c \in paidIn

Attestation(r, i, yes, d) ==
  [signer |-> Endpoints[i], message |-> Message(AssetId, run[r].cycle, yes, d)]

\* The attempt fails before a verdict is made: no answer, 402, 4xx or 5xx.
Refused(r, i) ==
  /\ InPhase(r, i, "asking")
  /\ run' = [run EXCEPT ![r].query[i] = AfterFailure(@)]
  /\ UNCHANGED <<vars, tx, paidIn>>

\* The verdict is signed, and then the payment does not settle.
Unsettled(r, i, yes, d) ==
  /\ InPhase(r, i, "asking")
  /\ MayAttest(Endpoints[i], yes, run[r].cycle)
  /\ signed' = signed \cup {Attestation(r, i, yes, d)}
  /\ run' = [run EXCEPT ![r].query[i] = AfterFailure(@)]
  /\ UNCHANGED <<contractVars, events, purse, balance, funded, tx, paidIn>>

\* The verdict is signed and the payment settles: the agent is charged.
Served(r, i, yes, d) ==
  /\ InPhase(r, i, "asking")
  /\ MayAttest(Endpoints[i], yes, run[r].cycle)
  /\ signed' = signed \cup {Attestation(r, i, yes, d)}
  /\ run' = [run EXCEPT ![r].query[i] = AfterCharge(@, Attestation(r, i, yes, d))]
  /\ UNCHANGED <<contractVars, events, purse, balance, funded, tx, paidIn>>

\* The answer arrives and passes the checks of CasperVerifierClient ...
Answered(r, i) ==
  /\ InPhase(r, i, "settled")
  /\ run' = [run EXCEPT ![r].query[i].phase = "answered"]
  /\ UNCHANGED <<vars, tx, paidIn>>

\* ... or is lost, or fails them: the request throws, having been charged.
AnswerLost(r, i) ==
  /\ InPhase(r, i, "settled")
  /\ run' = [run EXCEPT ![r].query[i] = AfterFailure([@ EXCEPT !.verdict = None])]
  /\ UNCHANGED <<vars, tx, paidIn>>

-----------------------------------------------------------------------------
(* Steps 3 and 4: Promise.all resolves in the order of the endpoints. *)

Answering(r) == {i \in EndpointIds : run[r].query[i].phase = "answered"}
Answers(r) ==
  LET nth(n) == CHOOSE i \in Answering(r) : Cardinality({j \in Answering(r) : j <= i}) = n
  IN  [n \in 1 .. Cardinality(Answering(r)) |->
         LET s == run[r].query[nth(n)].verdict
         IN  [verdict |-> s.message, signature |-> s, signer |-> s.signer]]

\* Mutant of Decision: quorum is not evaluated, answers suffice.
DecideOnAnswers(r) ==
  IF Answers(r) = <<>> THEN "payment_failed"
  ELSE IF Len(Answers(r)) < QuorumRequired THEN "insufficient_responses"
  ELSE "go"

Decision(r) ==
  LET answers == Answers(r)
  IN  IF answers = <<>> THEN "payment_failed"
      ELSE IF Len(answers) < QuorumRequired THEN "insufficient_responses"
      ELSE IF ~ReachQuorum(answers, QuorumRequired) THEN "quorum_not_met"
      ELSE "go"

Decide(r) ==
  /\ run[r].pc = "query"
  /\ \A i \in EndpointIds : run[r].query[i].phase \in {"answered", "failed"}
  /\ IF Decision(r) = "go" THEN Goto(r, "submit") ELSE Return(r, Decision(r))
  /\ UNCHANGED <<vars, tx, paidIn>>

-----------------------------------------------------------------------------
(* Steps 5 and 5b: submit distribute, then the brief.  putTransaction may   *)
(* throw although the node has accepted the transaction.                    *)

Submit(r) ==
  /\ run[r].pc = "submit"
  /\ tx' = [tx EXCEPT ![r].distribute = "pending"]
  /\ Goto(r, "brief")
  /\ UNCHANGED <<vars, paidIn>>

SubmitFault(r) ==
  /\ run[r].pc = "submit"
  /\ \E status \in {"none", "pending"} : tx' = [tx EXCEPT ![r].distribute = status]
  /\ Return(r, "threw")
  /\ UNCHANGED <<vars, paidIn>>

\* LlmBriefClient: a model may be out of reach, refuse or say nothing, which
\* throws; the text that is made without one does not fail.
ProviderMayFail == BriefProvider # "template"

\* A text arrives; what it says, and how long it is, is not looked at.
WriteBrief(r, b) ==
  /\ run[r].pc = "brief"
  /\ run' = [run EXCEPT ![r].pc = "record", ![r].brief = b]
  /\ UNCHANGED <<vars, tx, paidIn>>

RecordSubmit(r) ==
  /\ run[r].pc = "record"
  /\ tx' = [tx EXCEPT ![r].brief = "pending", ![r].text = run[r].brief]
  /\ Return(r, "distributed")
  /\ UNCHANGED <<vars, paidIn>>

\* Best effort: whatever throws in step 5b, the outcome has no brief.
BriefFault(r) ==
  /\ \/ run[r].pc = "brief" /\ ProviderMayFail
     \/ run[r].pc = "record"
  /\ \/ UNCHANGED tx
     \/ run[r].pc = "record"
        /\ tx' = [tx EXCEPT ![r].brief = "pending", ![r].text = run[r].brief]
  /\ run' = [run EXCEPT ![r].pc = "done", ![r].outcome = "distributed",
                        ![r].brief = None]
  /\ UNCHANGED <<vars, paidIn>>

-----------------------------------------------------------------------------
(* The chain. *)

ExecuteDistribute(r) ==
  LET c     == run[r].cycle
      e     == DistributeArgs(EvidenceOf(Answers(r)))
      error == DistributeError(AssetId, c, e)
  IN  /\ tx[r].distribute = "pending"
      /\ UNCHANGED <<run, paidIn>>
      /\ \/ Distribute(AssetId, c, e)
         \/ error # "ok" /\ UNCHANGED vars
      /\ tx' = [tx EXCEPT ![r].distribute = error]

ExecuteRecordBrief(r) ==
  LET c     == run[r].cycle
      error == BriefError(Agent, AssetId, c, tx[r].text)
  IN  /\ tx[r].brief = "pending"
      /\ UNCHANGED <<run, paidIn>>
      /\ \/ RecordBrief(Agent, AssetId, c, tx[r].text)
         \/ error # "ok" /\ UNCHANGED vars
      /\ tx' = [tx EXCEPT ![r].brief = error]

Expire(r) ==
  /\ \/ tx[r].distribute = "pending" /\ tx' = [tx EXCEPT ![r].distribute = "expired"]
     \/ tx[r].brief = "pending" /\ tx' = [tx EXCEPT ![r].brief = "expired"]
  /\ UNCHANGED <<vars, run, paidIn>>

\* The operator and the world.
Operate ==
  /\ \/ \E caller \in Account, cfg \in Registration : RegisterAsset(caller, AssetId, cfg)
     \/ \E attached \in Attached :
          purse + attached <= MaxFunds /\ Fund(AssetId, attached)
  /\ UNCHANGED agentVars

CashArrives(c) ==
  /\ c \notin paidIn
  /\ paidIn' = paidIn \cup {c}
  /\ UNCHANGED <<vars, run, tx>>

-----------------------------------------------------------------------------

AgentInit ==
  /\ Init
  /\ run = [r \in Run |-> NewRun]
  /\ tx = [r \in Run |-> [distribute |-> "none", brief |-> "none", text |-> None]]
  /\ paidIn = {}

\* What a run does once it has started, and what happens to its transactions.
Query(r) ==
  \E i \in EndpointIds :
    \/ Refused(r, i) \/ Answered(r, i) \/ AnswerLost(r, i)
    \/ \E yes \in BOOLEAN, d \in Detail :
         Unsettled(r, i, yes, d) \/ Served(r, i, yes, d)
Continue(r) ==
  \/ Query(r) \/ Decide(r) \/ Submit(r) \/ SubmitFault(r)
  \/ (\E b \in Brief : WriteBrief(r, b)) \/ RecordSubmit(r) \/ BriefFault(r)
Chain(r) == Expire(r) \/ ExecuteDistribute(r) \/ ExecuteRecordBrief(r)

AgentNext ==
  \/ \E r \in Run, c \in Cycle : 
       Guard(r, c) \/ GuardMasked(r, c) \/ GuardFault(r, c)
  \/ \E r \in Run : Continue(r) \/ Chain(r)
  \/ \E c \in Cycle : CashArrives(c)
  \/ Operate

\* An await of a started run returns or throws, timeouts included; a pending
\* transaction is executed or expires.  Nothing makes anyone start a run.
AgentFairness == \A r \in Run : WF_allVars(Continue(r)) /\ WF_allVars(Chain(r))

AgentSpec == AgentInit /\ [][AgentNext]_allVars /\ AgentFairness

-----------------------------------------------------------------------------
(* Properties. *)

Started == {r \in Run : run[r].cycle # None}

\* A cycle without cashflow is never paid out: if dishonest verifiers alone
\* cannot reach the quorum, a settled cycle's cashflow had come in, whatever
\* the runs, retries, lost answers and failures on the way to the chain.
FraudNeverPays ==
  \A k \in Settled :
    LET cfg == assets[receipts[k].asset]
    IN  Cardinality(Range(cfg.verifiers) \ Honest) < cfg.quorum
          => receipts[k].cycle \in paidIn

\* The pre-check is as strict as the contract: where the agent's endpoints and
\* quorum are the registered ones, the chain never rejects a distribution the
\* agent submits for its evidence; it is late, early or short of funds.
EvidenceIsAccepted ==
  \A r \in Run :
    /\ tx[r].distribute \notin {"none", "pending"}
    /\ assets[AssetId] # None
    /\ Range(Endpoints) \subseteq Range(assets[AssetId].verifiers)
    /\ QuorumRequired >= assets[AssetId].quorum
    => tx[r].distribute \in
         {"ok", "AlreadyDistributed", "InsufficientPool", "AssetNotFound", "expired"}

\* Runs that race on a cycle settle it once: of all their transactions one
\* succeeds if the cycle is settled, and none otherwise.
OneRunSettles ==
  \A c \in Cycle :
    Cardinality({r \in Started : run[r].cycle = c /\ tx[r].distribute = "ok"})
      = IF AlreadyDistributed(AssetId, c) THEN 1 ELSE 0

\* "No payment if already settled on-chain" (step 1): once a cycle is settled
\* and no run is asking for it, no verifier is ever paid for it again, later
\* runs stop at the guard.  True as long as the node does not mask its faults.
Quiet(c) ==
  /\ AlreadyDistributed(AssetId, c)
  /\ \A r \in Started : run[r].cycle = c => run[r].pc # "query"
NoPaymentOnceSettled == [][\A c \in Cycle : Quiet(c) => Quiet(c)']_allVars

\* Every run that has started comes to an outcome, whatever fails.
RunsFinish == \A r \in Run : run[r].cycle # None ~> run[r].pc = "done"

\* A distribution that is submitted settles its cycle, unless it expires, the
\* asset is not registered or its pool is empty by the time it executes.
SubmittedSettles ==
  \A r \in Run :
    (tx[r].distribute = "pending") ~>
      \/ run[r].cycle # None /\ AlreadyDistributed(AssetId, run[r].cycle)
      \/ tx[r].distribute \in {"expired", "AssetNotFound", "InsufficientPool"}
=============================================================================
