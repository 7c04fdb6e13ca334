--------------------------- MODULE ServicerVault ---------------------------
(***************************************************************************)
(* The on-chain settlement layer, contracts/src/servicer_vault.rs.         *)
(*                                                                         *)
(* One variable per contract state variable, one action per entrypoint     *)
(* that writes, plus the environment the contract runs in: the verifiers   *)
(* that sign verdicts off-chain and the native balances that               *)
(* `transfer_tokens` moves.  An entrypoint is one chain transaction: it    *)
(* either commits all of its writes or reverts and writes nothing, so an   *)
(* action is guarded by "the entrypoint does not revert" and the           *)
(* operators XxxError give the reason for which it would, in the order in  *)
(* which the code tests.  Module VaultExec runs `distribute` statement by  *)
(* statement and shows that its commits are the Distribute steps here.     *)
(***************************************************************************)
EXTENDS Verdicts, Sums

CONSTANTS
  Account,       \* callers of the entrypoints
  Holder,        \* accounts that are paid
  Brief,         \* texts submitted to record_brief
  BriefBytes,    \* their lengths in UTF-8 bytes
  Registration,  \* the configurations submitted to register_asset
  Evidence,      \* the evidence arrays submitted to distribute
  Attached,      \* the values attached to calls of fund
  MaxFunds,      \* BOUND: value held by the contract
  MaxWeight,     \* U256::MAX
  None           \* Option::None

VARIABLES
  assets, pools, distributed, receipts, verifierRegistry, verifierKeys,
  briefs, servicerKey,
  events,        \* the chain's log of Distributed events
  signed,        \* signatures the verifiers have issued
  purse,         \* the contract's native balance
  balance,       \* the holders' native balances
  funded         \* HISTORY: value ever attached for each asset

contractVars == <<assets, pools, distributed, receipts, verifierRegistry,
                  verifierKeys, briefs, servicerKey>>
vars == <<contractVars, events, signed, purse, balance, funded>>

-----------------------------------------------------------------------------
(* Data. *)

MaxBriefBytes == 1024

\* format!("{asset_id}:{cycle_id}"): the key of three of the mappings.
Key(a, c) == a \o <<":">> \o c
Keys == {Key(a, c) : a \in Asset, c \in Cycle}

Weights == 0 .. MaxWeight
Configs == [holders   : Seq([to : Holder, weight : Weights]),
            verifiers : Seq(Verifier),
            quorum    : Nat]

Scores == [seen : Nat, voted : Nat, agreed : Nat]
Reputations == [score : Scores, lastVerdict : BOOLEAN \cup {None},
                lastCycle : Keys \cup {None}]
NewReputation == [score |-> [seen |-> 0, voted |-> 0, agreed |-> 0],
                  lastVerdict |-> None, lastCycle |-> None]

\* A receipt.  The vectors of distinct signers are sets here, and the
\* snapshot a function that is None off the asset's verifiers; settled_at,
\* which nothing reads back, is left out.
Receipts == [asset : Asset, cycle : Cycle, total : Nat, dust : Nat,
             holderCount : Nat, quorum : Nat,
             signers : SUBSET Verifier, signatures : SUBSET Signatures,
             snapshot : [Verifier -> Scores \cup {None}]]

ASSUME IdAssumption ==
  /\ ":" \in STRING
  /\ Asset \subseteq Seq(STRING)
  /\ Cycle \subseteq Seq(STRING)
ASSUME InputAssumption ==
  /\ Registration \subseteq Configs
  /\ Evidence \subseteq EvidenceArrays
  /\ Attached \subseteq Nat
  /\ MaxFunds \in Nat
  /\ MaxWeight \in Nat
  /\ BriefBytes \in [Brief -> Nat]
ASSUME NoneAssumption ==
  /\ None \notin Configs /\ None \notin Receipts /\ None \notin Reputations
  /\ None \notin Brief /\ None \notin Account /\ None \notin Keys
  /\ None \notin Scores /\ None \notin BOOLEAN
  /\ Forged \notin Signatures

-----------------------------------------------------------------------------
(* register_asset *)

HolderWeights(cfg) == [i \in DOMAIN cfg.holders |-> cfg.holders[i].weight]
TotalWeight(cfg) == Total(HolderWeights(cfg))

RegisterError(a, cfg) ==
  IF assets[a] # None THEN "AssetAlreadyExists"
  ELSE IF cfg.holders = <<>> THEN "EmptyHolders"
  ELSE IF TotalWeight(cfg) > MaxWeight THEN "ArithmeticOverflow"
  ELSE IF TotalWeight(cfg) = 0 THEN "ZeroTotalWeight"
  ELSE IF cfg.quorum = 0 \/ cfg.quorum > Len(cfg.verifiers) THEN "InvalidQuorum"
  ELSE "ok"

\* Mutant of FreshPositions: a repeated verifier is pushed again.
FreshRepeated(vs) == {i \in DOMAIN vs : verifierRegistry[vs[i]] = None}

\* The positions at which a verifier not yet in the registry first occurs,
\* and the verifiers there in that order: what the seeding loop pushes.
FreshPositions(vs) ==
  {i \in DOMAIN vs : /\ verifierRegistry[vs[i]] = None
                     /\ \A j \in DOMAIN vs : j < i => vs[j] # vs[i]}
FreshVerifiers(vs) ==
  LET fresh == FreshPositions(vs)
      rank(i) == Cardinality({j \in fresh : j <= i})
  IN  [n \in 1 .. Cardinality(fresh) |-> vs[CHOOSE i \in fresh : rank(i) = n]]

RegisterAsset(caller, a, cfg) ==
  /\ RegisterError(a, cfg) = "ok"
  /\ servicerKey' = IF servicerKey = None THEN caller ELSE servicerKey
  /\ verifierRegistry' =
       [v \in Verifier |-> IF v \in Range(cfg.verifiers) /\ verifierRegistry[v] = None
                           THEN NewReputation ELSE verifierRegistry[v]]
  /\ verifierKeys' = verifierKeys \o FreshVerifiers(cfg.verifiers)
  /\ assets' = [assets EXCEPT ![a] = cfg]
  /\ UNCHANGED <<pools, distributed, receipts, briefs, events, signed, purse,
                 balance, funded>>

-----------------------------------------------------------------------------
(* fund *)

FundError(a) == IF assets[a] = None THEN "AssetNotFound" ELSE "ok"

Fund(a, attached) ==
  /\ FundError(a) = "ok"
  /\ pools' = [pools EXCEPT ![a] = @ + attached]
  /\ purse' = purse + attached
  /\ funded' = [funded EXCEPT ![a] = @ + attached]
  /\ UNCHANGED <<assets, distributed, receipts, verifierRegistry, verifierKeys,
                 briefs, servicerKey, events, signed, balance>>

-----------------------------------------------------------------------------
(* distribute *)

\* Mutant of Shares: divide first, multiply later.
SharesDividedFirst(cfg, pool) ==
  [i \in DOMAIN cfg.holders |-> (pool \div TotalWeight(cfg)) * cfg.holders[i].weight]

\* The pay loop: each holder's floor of its pro-rata share, and their sum.
Shares(cfg, pool) ==
  [i \in DOMAIN cfg.holders |-> (pool * cfg.holders[i].weight) \div TotalWeight(cfg)]
Paid(cfg, pool) == Total(Shares(cfg, pool))

\* Mutant of PaidTo: of a holder's entries only the first is paid.
PaidOnce(cfg, pool, h) ==
  LET entries == {i \in DOMAIN cfg.holders : cfg.holders[i].to = h}
  IN  IF entries = {} THEN 0
      ELSE Shares(cfg, pool)[CHOOSE i \in entries : \A j \in entries : i <= j]

PaidTo(cfg, pool, h) ==
  Total([i \in DOMAIN cfg.holders |->
           IF cfg.holders[i].to = h THEN Shares(cfg, pool)[i] ELSE 0])

\* Mutant of AlreadyDistributed: the flag is not looked at.
NeverDistributed(a, c) == FALSE

AlreadyDistributed(a, c) == Key(a, c) \in distributed

DistributeError(a, c, e) ==
  IF ~ParallelArrays(e) THEN "EvidenceArityMismatch"
  ELSE IF assets[a] = None THEN "AssetNotFound"
  ELSE IF AlreadyDistributed(a, c) THEN "AlreadyDistributed"
  ELSE IF Cardinality(YesVotes(assets[a], a, c, e)) < assets[a].quorum
    THEN "QuorumNotMet"
  ELSE IF pools[a] = 0 THEN "InsufficientPool"
  ELSE IF TotalWeight(assets[a]) = 0 THEN "ZeroTotalWeight"
  ELSE IF Paid(assets[a], pools[a]) > purse THEN "TransferFailed"
  ELSE "ok"

\* Mutant of ReputationOf: the stored entry is not read.
ForgottenReputation(v) == NewReputation

ReputationOf(v) ==
  IF verifierRegistry[v] = None THEN NewReputation ELSE verifierRegistry[v]

\* Mutant of Scored: a vote of either kind is an agreement.
ScoredAsAgreed(v, k, e, counted) ==
  LET rep   == ReputationOf(v)
      votes == {i \in counted : e.signers[i] = v}
  IN  IF votes = {} THEN [rep EXCEPT !.score.seen = @ + 1]
      ELSE [score |-> [seen   |-> rep.score.seen + 1,
                       voted  |-> rep.score.voted + 1,
                       agreed |-> rep.score.agreed + 1],
            lastVerdict |-> e.verdicts[CHOOSE i \in votes : TRUE],
            lastCycle   |-> k]

\* The registry entry of v after the cycle with key k settled on the counted
\* votes of e.
Scored(v, k, e, counted) ==
  LET rep   == ReputationOf(v)
      votes == {i \in counted : e.signers[i] = v}
      yes   == e.verdicts[CHOOSE i \in votes : TRUE]
  IN  IF votes = {} THEN [rep EXCEPT !.score.seen = @ + 1]
      ELSE [score |-> [seen   |-> rep.score.seen + 1,
                       voted  |-> rep.score.voted + 1,
                       agreed |-> rep.score.agreed + IF yes THEN 1 ELSE 0],
            lastVerdict |-> yes,
            lastCycle   |-> k]

NewReceipt(a, c, e) ==
  LET cfg  == assets[a]
      yes  == YesVotes(cfg, a, c, e)
      paid == Paid(cfg, pools[a])
  IN  [asset |-> a, cycle |-> c, total |-> paid, dust |-> pools[a] - paid,
       holderCount |-> Len(cfg.holders), quorum |-> cfg.quorum,
       signers    |-> {e.signers[i] : i \in yes},
       signatures |-> {e.signatures[i] : i \in yes},
       snapshot   |-> [v \in Verifier |-> IF v \in Range(cfg.verifiers)
                                     THEN ReputationOf(v).score ELSE None]]

\* The Distributed event of a settlement.
EventOf(r) == [asset |-> r.asset, cycle |-> r.cycle, total |-> r.total,
               signers |-> r.signers]

Distribute(a, c, e) ==
  /\ Range(e.signatures) \subseteq signed \cup {Forged}
  /\ DistributeError(a, c, e) = "ok"
  /\ LET cfg     == assets[a]
         k       == Key(a, c)
         counted == CountedVotes(cfg, a, c, e)
         paid    == Paid(cfg, pools[a])
         receipt == NewReceipt(a, c, e)
     IN  /\ purse' = purse - paid
         /\ balance' = [h \in Holder |-> balance[h] + PaidTo(cfg, pools[a], h)]
         /\ pools' = [pools EXCEPT ![a] = @ - paid]
         /\ distributed' = distributed \cup {k}
         /\ verifierRegistry' =
              [v \in Verifier |-> IF v \in Range(cfg.verifiers)
                                  THEN Scored(v, k, e, counted)
                                  ELSE verifierRegistry[v]]
         /\ receipts' = [receipts EXCEPT ![k] = receipt]
         /\ events' = Append(events, EventOf(receipt))
  /\ UNCHANGED <<assets, verifierKeys, briefs, servicerKey, signed, funded>>

-----------------------------------------------------------------------------
(* record_brief *)

\* Mutant of BriefError: a recorded brief may be replaced.
BriefErrorOverwriting(caller, a, c, b) ==
  IF servicerKey = None \/ caller # servicerKey THEN "NotServicer"
  ELSE IF receipts[Key(a, c)] = None THEN "CycleNotSettled"
  ELSE IF BriefBytes[b] > MaxBriefBytes THEN "BriefTooLong"
  ELSE "ok"

BriefError(caller, a, c, b) ==
  IF servicerKey = None \/ caller # servicerKey THEN "NotServicer"
  ELSE IF receipts[Key(a, c)] = None THEN "CycleNotSettled"
  ELSE IF briefs[Key(a, c)] # None THEN "BriefAlreadyRecorded"
  ELSE IF BriefBytes[b] > MaxBriefBytes THEN "BriefTooLong"
  ELSE "ok"

RecordBrief(caller, a, c, b) ==
  /\ BriefError(caller, a, c, b) = "ok"
  /\ briefs' = [briefs EXCEPT ![Key(a, c)] = b]
  /\ UNCHANGED <<assets, pools, distributed, receipts, verifierRegistry,
                 verifierKeys, servicerKey, events, signed, purse, balance, funded>>

-----------------------------------------------------------------------------
(* The environment: a verifier signs a verdict.  It may sign any message it *)
(* likes, both verdicts on one cycle included.                              *)

Sign(s) ==
  /\ s \notin signed
  /\ signed' = signed \cup {s}
  /\ UNCHANGED <<contractVars, events, purse, balance, funded>>

-----------------------------------------------------------------------------

Init ==
  /\ assets = [a \in Asset |-> None]
  /\ pools = [a \in Asset |-> 0]
  /\ distributed = {}
  /\ receipts = [k \in Keys |-> None]
  /\ verifierRegistry = [v \in Verifier |-> None]
  /\ verifierKeys = <<>>
  /\ briefs = [k \in Keys |-> None]
  /\ servicerKey = None
  /\ events = <<>>
  /\ signed = {}
  /\ purse = 0
  /\ balance = [h \in Holder |-> 0]
  /\ funded = [a \in Asset |-> 0]

\* Signatures that occur in some submission: the others are never looked at.
Signable == (UNION {Range(e.signatures) : e \in Evidence}) \ {Forged}

Next ==
  \/ \E s \in Signable : Sign(s)
  \/ \E caller \in Account, a \in Asset, cfg \in Registration :
       RegisterAsset(caller, a, cfg)
  \/ \E a \in Asset, attached \in Attached :
       purse + attached <= MaxFunds /\ Fund(a, attached)
  \/ \E a \in Asset, c \in Cycle, e \in Evidence : Distribute(a, c, e)
  \/ \E caller \in Account, a \in Asset, c \in Cycle, b \in Brief :
       RecordBrief(caller, a, c, b)

Spec == Init /\ [][Next]_vars

-----------------------------------------------------------------------------
(* Properties. *)

Settled == {k \in Keys : receipts[k] # None}

\* Type correctness of the contract's storage and of its environment.
TypeOK ==
  /\ assets \in [Asset -> Configs \cup {None}]
  /\ pools \in [Asset -> Nat]
  /\ distributed \subseteq Keys
  /\ receipts \in [Keys -> Receipts \cup {None}]
  /\ verifierRegistry \in [Verifier -> Reputations \cup {None}]
  /\ verifierKeys \in Seq(Verifier)
  /\ briefs \in [Keys -> Brief \cup {None}]
  /\ servicerKey \in Account \cup {None}
  /\ events \in Seq([asset : Asset, cycle : Cycle, total : Nat,
                     signers : SUBSET Verifier])
  /\ signed \subseteq Signatures
  /\ purse \in Nat
  /\ balance \in [Holder -> Nat]
  /\ funded \in [Asset -> Nat]

\* Every registered asset has rules that distribute can run: somebody to pay,
\* a total weight to divide by, and a quorum of at least one listed verifier.
RulesValid ==
  \A a \in Asset : assets[a] # None =>
    LET cfg == assets[a]
    IN  /\ cfg.holders # <<>>
        /\ TotalWeight(cfg) > 0
        /\ cfg.quorum \in 1 .. Len(cfg.verifiers)

\* Money moved for a cycle only if `quorum` distinct verifiers registered for
\* that very asset really signed "yes" for that very cycle, whatever the
\* submitted arrays repeat, replay, mislabel or forge (distribute, step 3).
SettledByQuorum ==
  \A k \in Settled :
    LET r   == receipts[k]
        cfg == assets[r.asset]
    IN  /\ cfg # None
        /\ r.signers \subseteq Range(cfg.verifiers)
        /\ Cardinality(r.signers) >= cfg.quorum
        /\ \A v \in r.signers : \E d \in Detail :
             [signer |-> v, message |-> Message(r.asset, r.cycle, TRUE, d)] \in signed

\* The idempotency flag, the queryable receipt and the event log tell one
\* story: a key is flagged exactly when it has a receipt, which is stored
\* under its own ids, and exactly one event with the same content was emitted.
RecordsAgree ==
  /\ distributed = Settled
  /\ Len(events) = Cardinality(distributed)
  /\ \A k \in distributed :
       /\ Key(receipts[k].asset, receipts[k].cycle) = k
       /\ \E n \in DOMAIN events : events[n] = EventOf(receipts[k])

\* No value is created, lost or charged to another asset: what was attached
\* for an asset is in its pool or in its receipts, the contract's purse
\* covers exactly the pools, and the holders got exactly the receipts' totals.
FundsConserved ==
  LET paid(S) == SumFunctionOnSet([k \in Settled |-> receipts[k].total], S)
  IN  /\ purse = SumFunction(pools)
      /\ \A a \in Asset :
           funded[a] = pools[a] + paid({k \in Settled : receipts[k].asset = a})
      /\ SumFunction(balance) = paid(Settled)

\* The accumulated reputation is what the receipts say: a verifier is seen by
\* each settled cycle of its assets, agrees with those it signed, never votes
\* more than it is seen, and its last verdict is the one of its last cycle.
ReputationMatchesReceipts ==
  \A v \in Verifier : verifierRegistry[v] # None =>
    LET rep    == verifierRegistry[v]
        judged == {k \in Settled : receipts[k].snapshot[v] # None}
    IN  /\ rep.score.seen = Cardinality(judged)
        /\ rep.score.agreed = Cardinality({k \in judged : v \in receipts[k].signers})
        /\ rep.score.agreed <= rep.score.voted
        /\ rep.score.voted <= rep.score.seen
        /\ rep.lastVerdict = None <=> rep.score.voted = 0
        /\ rep.lastCycle = None <=> rep.score.voted = 0
        /\ rep.lastCycle # None =>
             /\ rep.lastCycle \in judged
             /\ (rep.lastVerdict = TRUE) <=> v \in receipts[rep.lastCycle].signers

\* A receipt's snapshot is the record each verifier brought to that cycle: it
\* counts the settlements before it in the log, not itself, and none after.
SnapshotIsTrackRecord ==
  LET receipt(n) == receipts[Key(events[n].asset, events[n].cycle)]
  IN  \A n \in DOMAIN events, v \in Verifier : receipt(n).snapshot[v] # None =>
        LET earlier == {m \in 1 .. n - 1 : receipt(m).snapshot[v] # None}
        IN  /\ receipt(n).snapshot[v].seen = Cardinality(earlier)
            /\ receipt(n).snapshot[v].agreed =
                 Cardinality({m \in earlier : v \in receipt(m).signers})

\* A settlement leaves less than one unit per holder behind: what the floor
\* divisions of the pay loop lose is dust, whatever the weights.
DustBounded == \A k \in Settled : receipts[k].dust < receipts[k].holderCount

\* The index that get_verifier_registry iterates lists every verifier with an
\* entry once, and every verifier of a registered asset has an entry.
RegistryIndexed ==
  /\ Range(verifierKeys) = {v \in Verifier : verifierRegistry[v] # None}
  /\ IsInjective(verifierKeys)
  /\ \A a \in Asset : assets[a] # None =>
       Range(assets[a].verifiers) \subseteq Range(verifierKeys)

\* get_receipt(a, c) answers for (a, c) and for no other pair.  True of ids
\* without a colon; see the run of MCVaultColon for the others.
ReceiptIsForItsCycle ==
  \A a \in Asset, c \in Cycle : receipts[Key(a, c)] # None =>
    /\ receipts[Key(a, c)].asset = a
    /\ receipts[Key(a, c)].cycle = c

\* What has been recorded is final: a receipt, a brief, an asset's rules and
\* the servicer key never change once set, and a brief is only ever added to
\* a cycle that had settled in an earlier transaction.
RecordsAreFinal ==
  [][/\ \A k \in Keys :
          /\ receipts[k] # None => receipts'[k] = receipts[k]
          /\ briefs[k] # None => briefs'[k] = briefs[k]
          /\ briefs'[k] # briefs[k] => receipts[k] # None
     /\ \A a \in Asset : assets[a] # None => assets'[a] = assets[a]
     /\ servicerKey # None => servicerKey' = servicerKey]_vars
=============================================================================
