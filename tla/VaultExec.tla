----------------------------- MODULE VaultExec -----------------------------
(***************************************************************************)
(* `distribute` of contracts/src/servicer_vault.rs run loop by loop: its   *)
(* local variables, the journal of writes that the transaction will commit *)
(* or lose, and the host call that may fail in the middle of paying.       *)
(* ServicerVault says in one step, by sets and sums, what these loops do;  *)
(* ImplementsVault is the claim that they do it.  The chain executes one   *)
(* transaction at a time, so the other entrypoints wait for the call.      *)
(***************************************************************************)
EXTENDS ServicerVault

VARIABLES
  call,      \* the call under way: its arguments and local variables
  journal    \* storage, log and balances as the call has left them

execVars == <<vars, call, journal>>

storage == [pools |-> pools, distributed |-> distributed, receipts |-> receipts,
            registry |-> verifierRegistry, events |-> events, purse |-> purse,
            balance |-> balance]
NoCall(result) == [pc |-> "none", result |-> result]

Running(pc) == call.pc = pc
Pool == journal.pools[call.asset]
Rules == assets[call.asset]
Goto(pc) == call' = [call EXCEPT !.pc = pc, !.i = 1]

\* A revert throws the journal away.
Revert(reason) ==
  /\ call' = NoCall(reason)
  /\ journal' = storage
  /\ UNCHANGED vars

-----------------------------------------------------------------------------

Enter(a, c, e) ==
  /\ Running("none")
  /\ Range(e.signatures) \subseteq signed \cup {Forged}
  /\ call' = [pc |-> "checks", asset |-> a, cycle |-> c, evidence |-> e, i |-> 1,
              seen |-> <<>>, votes |-> <<>>, yes |-> <<>>, pool |-> 0, paid |-> 0,
              snapshot |-> <<>>, unscored |-> <<>>]
  /\ journal' = storage
  /\ UNCHANGED vars

\* Steps 0 to 2.
Checks ==
  /\ Running("checks")
  /\ \/ ~ParallelArrays(call.evidence) /\ Revert("EvidenceArityMismatch")
     \/ ParallelArrays(call.evidence) /\ Rules = None /\ Revert("AssetNotFound")
     \/ /\ ParallelArrays(call.evidence) /\ Rules # None
        /\ AlreadyDistributed(call.asset, call.cycle)
        /\ Revert("AlreadyDistributed")
     \/ /\ ParallelArrays(call.evidence) /\ Rules # None
        /\ ~AlreadyDistributed(call.asset, call.cycle)
        /\ Goto("votes") /\ UNCHANGED <<vars, journal>>

\* Mutants of Examined: a signer is seen before its signature is verified;
\* only the signers that say "yes" are remembered.
SeenUnverified(l) ==
  LET e      == l.evidence
      signer == e.signers[l.i]
      valid  == VerifySignature(
                  Message(l.asset, l.cycle, e.verdicts[l.i], e.details[l.i]),
                  e.signatures[l.i], signer)
  IN  IF signer \notin Range(Rules.verifiers) \/ signer \in Range(l.seen) THEN l
      ELSE [l EXCEPT !.seen = Append(@, signer),
                     !.votes = IF valid THEN Append(@, <<signer, e.verdicts[l.i]>>) ELSE @,
                     !.yes = IF valid /\ e.verdicts[l.i] THEN Append(@, l.i) ELSE @]
SeenOnYes(l) ==
  LET e      == l.evidence
      signer == e.signers[l.i]
      valid  == VerifySignature(
                  Message(l.asset, l.cycle, e.verdicts[l.i], e.details[l.i]),
                  e.signatures[l.i], signer)
  IN  IF signer \notin Range(Rules.verifiers) \/ signer \in Range(l.seen) \/ ~valid THEN l
      ELSE [l EXCEPT !.seen = IF e.verdicts[l.i] THEN Append(@, signer) ELSE @,
                     !.votes = Append(@, <<signer, e.verdicts[l.i]>>),
                     !.yes = IF e.verdicts[l.i] THEN Append(@, l.i) ELSE @]

\* The body of the vote loop, step 3: seen_verified, verified_with_verdict,
\* and the positions that verified_signers and verified_sigs are made of.
Examined(l) ==
  LET e      == l.evidence
      signer == e.signers[l.i]
  IN  IF \/ signer \notin Range(Rules.verifiers)
         \/ signer \in Range(l.seen)
         \/ ~VerifySignature(
               Message(l.asset, l.cycle, e.verdicts[l.i], e.details[l.i]),
               e.signatures[l.i], signer)
      THEN l
      ELSE [l EXCEPT !.seen = Append(@, signer),
                     !.votes = Append(@, <<signer, e.verdicts[l.i]>>),
                     !.yes = IF e.verdicts[l.i] THEN Append(@, l.i) ELSE @]

CountVote ==
  /\ Running("votes") /\ call.i <= Len(call.evidence.signers)
  /\ call' = [Examined(call) EXCEPT !.i = @ + 1]
  /\ UNCHANGED <<vars, journal>>

\* The tests between the vote loop and the pay loop.
PayoutError(l) ==
  IF Len(l.yes) < Rules.quorum THEN "QuorumNotMet"
  ELSE IF Pool = 0 THEN "InsufficientPool"
  ELSE IF TotalWeight(Rules) = 0 THEN "ZeroTotalWeight" ELSE "ok"

Tally ==
  /\ Running("votes") /\ call.i > Len(call.evidence.signers)
  /\ \/ PayoutError(call) # "ok" /\ Revert(PayoutError(call))
     \/ /\ PayoutError(call) = "ok"
        /\ call' = [call EXCEPT !.pc = "pay", !.i = 1, !.pool = Pool]
        /\ UNCHANGED <<vars, journal>>

-----------------------------------------------------------------------------
(* The pay loop, step 5. *)

Holding == Rules.holders[call.i]

Amount == (call.pool * Holding.weight) \div TotalWeight(Rules)
Paying == Running("pay") /\ call.i <= Len(Rules.holders)

SkipHolder ==
  /\ Paying /\ Amount = 0
  /\ call' = [call EXCEPT !.i = @ + 1]
  /\ UNCHANGED <<vars, journal>>

Transfer ==
  /\ Paying /\ Amount > 0 /\ Amount <= journal.purse
  /\ journal' = [journal EXCEPT !.purse = @ - Amount, !.balance[Holding.to] = @ + Amount]
  /\ call' = [call EXCEPT !.i = @ + 1, !.paid = @ + Amount]
  /\ UNCHANGED vars

\* transfer_tokens reverts the transaction: short of funds, or as the host will.
TransferFails ==
  /\ Paying /\ Amount > 0
  /\ Revert("TransferFailed")

-----------------------------------------------------------------------------
(* Steps 6 to 8. *)

Recorded(v) ==
  IF journal.registry[v] = None THEN NewReputation ELSE journal.registry[v]

\* The distinct verifiers in first-seen order: unique_verifiers, a push at a
\* time, after the first n of vs.
UniqueUpTo(vs) ==
  LET unique[n \in 0 .. Len(vs)] ==
        IF n = 0 THEN <<>>
        ELSE IF vs[n] \in Range(unique[n - 1]) THEN unique[n - 1]
        ELSE Append(unique[n - 1], vs[n])
  IN  unique
Unique(vs) == UniqueUpTo(vs)[Len(vs)]

\* The pool, the flag, the distinct verifiers and their snapshot.
Settle ==
  LET unique == Unique(Rules.verifiers)
  IN  /\ Running("pay") /\ call.i > Len(Rules.holders)
      /\ journal' = [journal EXCEPT !.pools[call.asset] = call.pool - call.paid,
                       !.distributed = @ \cup {Key(call.asset, call.cycle)}]
      /\ call' = [call EXCEPT !.pc = "score", !.unscored = unique,
                    !.snapshot = [i \in DOMAIN unique |->
                                    [signer |-> unique[i],
                                     score |-> Recorded(unique[i]).score]]]
      /\ UNCHANGED vars

\* find: the first position in question.
First(positions) == CHOOSE n \in positions : \A m \in positions : n <= m

\* The score loop: the first vote found is the verifier's.
Score ==
  LET v     == Head(call.unscored)
      found == {n \in DOMAIN call.votes : call.votes[n][1] = v}
      rep   == [Recorded(v) EXCEPT !.score.seen = @ + 1]
      yes   == call.votes[First(found)][2]
  IN  /\ Running("score") /\ call.unscored # <<>>
      /\ journal' = [journal EXCEPT !.registry[v] =
           IF found = {} THEN rep
           ELSE [rep EXCEPT !.score.voted = @ + 1,
                            !.score.agreed = IF yes THEN @ + 1 ELSE @,
                            !.lastVerdict = yes,
                            !.lastCycle = Key(call.asset, call.cycle)]]
      /\ call' = [call EXCEPT !.unscored = Tail(@)]
      /\ UNCHANGED vars

\* The receipt, the event, and the end of the call: the journal commits.
\* The receipt's vectors become ServicerVault's sets and function here.
SnapshotOf(v) ==
  LET found == {n \in DOMAIN call.snapshot : call.snapshot[n].signer = v}
  IN  IF found = {} THEN None ELSE call.snapshot[First(found)].score
Commit ==
  LET e       == call.evidence
      receipt == [asset |-> call.asset, cycle |-> call.cycle, total |-> call.paid,
                  dust |-> call.pool - call.paid, holderCount |-> Len(Rules.holders),
                  quorum |-> Rules.quorum,
                  signers |-> {e.signers[i] : i \in Range(call.yes)},
                  signatures |-> {e.signatures[i] : i \in Range(call.yes)},
                  snapshot |-> [v \in Verifier |-> SnapshotOf(v)]]
  IN  /\ Running("score") /\ call.unscored = <<>>
      /\ pools' = journal.pools
      /\ distributed' = journal.distributed
      /\ verifierRegistry' = journal.registry
      /\ receipts' = [journal.receipts EXCEPT ![Key(call.asset, call.cycle)] = receipt]
      /\ events' = Append(journal.events, EventOf(receipt))
      /\ purse' = journal.purse
      /\ balance' = journal.balance
      /\ call' = NoCall("ok")
      /\ journal' = storage'
      /\ UNCHANGED <<assets, verifierKeys, briefs, servicerKey, signed, funded>>

-----------------------------------------------------------------------------

ExecInit == Init /\ call = NoCall("none") /\ journal = storage

\* Another transaction, between calls of distribute; or somebody signs.
Others ==
  \/ \E caller \in Account, a \in Asset, cfg \in Registration :
       Running("none") /\ RegisterAsset(caller, a, cfg)
  \/ \E a \in Asset, attached \in Attached :
       Running("none") /\ purse + attached <= MaxFunds /\ Fund(a, attached)
  \/ \E caller \in Account, a \in Asset, c \in Cycle, b \in Brief :
       Running("none") /\ RecordBrief(caller, a, c, b)
  \/ \E s \in Signable : Sign(s)

ExecNext ==
  \/ \E a \in Asset, c \in Cycle, e \in Evidence : Enter(a, c, e)
  \/ Checks \/ CountVote \/ Tally
  \/ SkipHolder \/ Transfer \/ TransferFails
  \/ Settle \/ Score \/ Commit
  \/ Others /\ UNCHANGED <<call, journal>>

ExecSpec == ExecInit /\ [][ExecNext]_execVars

-----------------------------------------------------------------------------
(* Properties. *)

\* What commits is a step of ServicerVault: the loops count the votes, pay the
\* holders, snapshot and score the verifiers as its sets and sums say, all or
\* nothing, and a call that reverts anywhere leaves no trace.
ImplementsVault == Spec

\* A call that ends tells why as ServicerVault does, in its order of precedence:
\* it succeeds if and only if no reason to revert existed when it was called,
\* a failing host transfer aside.
ReasonsAgree ==
  [][call.pc # "none" /\ call'.pc = "none" /\ call'.result # "TransferFailed"
       => call'.result = DistributeError(call.asset, call.cycle, call.evidence)]_execVars
=============================================================================
