----------------------------- MODULE Dashboard -----------------------------
(***************************************************************************)
(* What the dashboard shows of one asset (dashboard/lib/data.ts) next to    *)
(* what the contract holds.  The live reads of dashboard/lib/chain.ts       *)
(* return null until the decoding of the stored values is written, so that  *)
(* every page is computed from a committed list of cycles.  The list is     *)
(* kept by hand from the agent's runs: a run that distributed and a run     *)
(* that halted add an entry, on the verdicts the run had accepted.          *)
(***************************************************************************)
EXTENDS ServicerVault

CONSTANTS
  Shown,         \* the asset of dashboard/data/asset.json
  MaxHalts       \* BOUND: halted runs in the list

ASSUME ShownAssumption == Shown \in Asset /\ MaxHalts \in Nat

VARIABLE ledger  \* dashboard/data/cycles.json

-----------------------------------------------------------------------------
(* The committed list.  A verdict names its verifier twice: by the label it  *)
(* has signed (source) and by its key (signer).  Labels are those of        *)
(* asset.json, one per key.                                                 *)

Entry(c, e, status, yesCount, required, payouts) ==
  [cycle |-> c, status |-> status, payouts |-> payouts,
   verdicts |-> [i \in DOMAIN e.signers |->
                   [source |-> e.signers[i], signer |-> e.signers[i],
                    yes |-> e.verdicts[i]]],
   quorum |-> [yesCount |-> yesCount, required |-> required,
               met |-> yesCount >= required]]

Yes(entry) == {i \in DOMAIN entry.verdicts : entry.verdicts[i].yes}

\* getCycles: an entry it does not throw on.
Accepted(entry) ==
  /\ Cardinality(Yes(entry)) = entry.quorum.yesCount
  /\ entry.quorum.met <=> Cardinality(Yes(entry)) >= entry.quorum.required
  /\ entry.quorum.met => entry.status = "distributed"
  /\ ~entry.quorum.met => entry.status = "halted"

\* The verdicts of a run for (a, c): the client refuses any other.
Genuine(a, c, e) ==
  /\ ParallelArrays(e)
  /\ \A i \in DOMAIN e.signers :
       VerifySignature(Message(a, c, e.verdicts[i], e.details[i]),
                       e.signatures[i], e.signers[i])

EntryOf(c, e, status, payouts) ==
  Entry(c, e, status, Cardinality(YesVotes(assets[Shown], Shown, c, e)),
        assets[Shown].quorum, payouts)

Committed(a, c, e) ==
  LET entry == EntryOf(c, e, "distributed", Shares(assets[a], pools[a]))
  IN  IF a = Shown /\ Genuine(a, c, e) /\ Accepted(entry)
      THEN Append(ledger, entry) ELSE ledger

-----------------------------------------------------------------------------
(* What the pages compute. *)

\* Mutant of ScoredEntries: halted cycles are scored as well.
ScoredWithHalts(entries) == DOMAIN entries

ScoredEntries(entries) ==
  {n \in DOMAIN entries : entries[n].status = "distributed"}

\* The verdict of v that find() returns in an entry: its first.
FirstOf(entry, v) ==
  CHOOSE i \in DOMAIN entry.verdicts :
    /\ entry.verdicts[i].source = v
    /\ \A j \in 1 .. i - 1 : entry.verdicts[j].source # v
VotedIn(entries, v) ==
  {n \in ScoredEntries(entries) :
     \E i \in DOMAIN entries[n].verdicts : entries[n].verdicts[i].source = v}
VerdictIn(entry, v) == entry.verdicts[FirstOf(entry, v)].yes

ScoreFrom(entries, v) ==
  [seen   |-> Cardinality(ScoredEntries(entries)),
   voted  |-> Cardinality(VotedIn(entries, v)),
   agreed |-> Cardinality({n \in VotedIn(entries, v) : VerdictIn(entries[n], v)})]

\* verifierRegistryFromCommitted, the row of v.  Its last cycle is an id.
VerifierRegistryFromCommitted(v) ==
  LET voted == VotedIn(ledger, v)
      last  == ledger[CHOOSE n \in voted : \A m \in voted : m <= n]
  IN  [score |-> ScoreFrom(ledger, v),
       lastVerdict |-> IF voted = {} THEN None ELSE VerdictIn(last, v),
       lastCycle   |-> IF voted = {} THEN None ELSE last.cycle]

\* findIndex: the first entry with the id.
IndexOf(c) ==
  CHOOSE n \in DOMAIN ledger :
    /\ ledger[n].cycle = c
    /\ \A m \in 1 .. n - 1 : ledger[m].cycle # c

\* Mutant of Prior: the cycle itself counts as one before it.
PriorInclusive(c) == SubSeq(ledger, 1, IndexOf(c))

Prior(c) == SubSeq(ledger, 1, IndexOf(c) - 1)

\* distributionReceiptForCycle; fundedMotes is what the asset was funded with.
DistributionReceiptForCycle(entry) ==
  LET total == Total(entry.payouts)
  IN  [total       |-> total,
       dust        |-> IF funded[Shown] > total THEN funded[Shown] - total ELSE 0,
       holderCount |-> Len(entry.payouts),
       quorum      |-> entry.quorum.required,
       signers     |-> {entry.verdicts[i].signer : i \in Yes(entry)},
       snapshot    |-> [v \in Range(assets[Shown].verifiers) |->
                          ScoreFrom(Prior(entry.cycle), v)]]

-----------------------------------------------------------------------------

\* A settlement, and its entry if it is one of the shown asset.
Settle(a, c, e) == Distribute(a, c, e) /\ ledger' = Committed(a, c, e)

\* A run of the shown asset that ends below the quorum: no transaction.
Halt(c, e) ==
  /\ Cardinality({n \in DOMAIN ledger : ledger[n].status = "halted"}) < MaxHalts
  /\ Range(e.signatures) \subseteq signed
  /\ assets[Shown] # None
  /\ ~AlreadyDistributed(Shown, c)
  /\ Genuine(Shown, c, e)
  /\ LET entry == EntryOf(c, e, "halted", <<>>)
     IN  ~entry.quorum.met /\ Accepted(entry) /\ ledger' = Append(ledger, entry)
  /\ UNCHANGED vars

\* The steps of the contract and its environment that settle nothing.
Unlisted == Next /\ events' = events /\ UNCHANGED ledger

DashboardInit == Init /\ ledger = <<>>
DashboardNext ==
  \/ \E a \in Asset, c \in Cycle, e \in Evidence : Settle(a, c, e)
  \/ \E c \in Cycle, e \in Evidence : Halt(c, e)
  \/ Unlisted

DashboardSpec == DashboardInit /\ [][DashboardNext]_<<vars, ledger>>

-----------------------------------------------------------------------------
(* Properties. *)

ListedSettlements == {n \in DOMAIN ledger : ledger[n].status = "distributed"}
ListIsComplete ==
  Cardinality(ListedSettlements) =
    Cardinality({n \in DOMAIN events : events[n].asset = Shown})
OnlyOfShown(v) ==
  /\ v \in Range(assets[Shown].verifiers)
  /\ \A a \in Asset \ {Shown} : assets[a] = None \/ v \notin Range(assets[a].verifiers)

\* The contract's entry that a row stands for: the last cycle of a row is a
\* bare cycle id, that of an entry is the joined key.
EntryMeant(row) ==
  [score |-> row.score, lastVerdict |-> row.lastVerdict,
   lastCycle |-> IF row.score.voted = 0 THEN None ELSE Key(Shown, row.lastCycle)]

\* "The on-chain model applied to the committed ledger" (data.ts): with every
\* settlement of the asset listed, scores, last verdict and last cycle of the
\* registry the pages show stand for those on chain, in whatever order runs
\* halted, settled and other assets settled.  Not "exactly", as data.ts says:
\* the cycle is shown without its asset, and it holds only for verifiers of no
\* other asset, whose record the contract keeps over all assets.
RegistryMirrorsChain ==
  assets[Shown] # None /\ ListIsComplete =>
    \A v \in {w \in Verifier : OnlyOfShown(w)} :
      EntryMeant(VerifierRegistryFromCommitted(v)) = verifierRegistry[v]

\* The receipt card of a listed settlement says what get_receipt says.  The
\* snapshot only if the id is listed once (findIndex stops at an entry of a
\* run that halted before) and for verifiers of no other asset; the dust only
\* if nothing else was ever funded or settled.
ReceiptMirrorsChain ==
  ListIsComplete => \A n \in ListedSettlements :
    LET card     == DistributionReceiptForCycle(ledger[n])
        receipt  == receipts[Key(Shown, ledger[n].cycle)]
        once     == \A m \in DOMAIN ledger : ledger[m].cycle = ledger[n].cycle => m = n
        untouched == pools[Shown] = receipt.dust /\ ListedSettlements = {n}
    IN  /\ receipt # None
        /\ card.total = receipt.total
        /\ card.holderCount = receipt.holderCount
        /\ card.quorum = receipt.quorum
        /\ card.signers = receipt.signers
        /\ once => \A v \in {w \in Verifier : OnlyOfShown(w)} :
                     card.snapshot[v] = receipt.snapshot[v]
        /\ untouched => card.dust = receipt.dust
=============================================================================
