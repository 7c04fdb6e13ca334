# Quittance in TLA+

Specifications of the servicing protocol in this repository: an agent collects
signed verdicts of paid verifiers about a cashflow, and an on-chain vault pays
the holders of an asset when a quorum of verdicts says that the cashflow came
in. The modules are translated from the source; `PROJECT.json` maps each
definition to the lines it models.

    tlc -workers 2 -config MCVaultQuorum.cfg MCVaultQuorum.tla
    tlapm ServicerVaultProofs.tla

## 1. The system

| Component | State it keeps | Operations |
|---|---|---|
| `ServicerVault` contract (`contracts/src/servicer_vault.rs`) | assets, pools, distributed flags, receipts, verifier registry and its index, briefs, servicer key | `register_asset`, `fund`, `distribute`, `record_brief`, getters |
| Servicer agent (`agent/src/servicer.ts`) | none beyond a run's locals: its guard, its queries, its verdicts, its outcome | `runCycle`, `queryWithRetry` |
| Quorum pre-check and signing (`packages/core/src/quorum.ts`, `sign.ts`) | none | `reachQuorum`, `canonicalBytes`, `signVerdict`, `verifyVerdict` |
| Chain client (`packages/adapters/src/casper-js-chain-client.ts`) | none beyond a call's locals | dictionary query, submit, `waitForFinality` |
| Verifier client (`packages/adapters/src/casper-verifier-client.ts`) | none beyond a query's locals | pay and query, `parseVerdict`, `extractReceipt` |
| Verifier service (`verifiers/src/server.ts`) | the gate's `initPromise`, the limiter's window, requests in flight | `GET /verify` behind limiter and payment gate, deferred settlement |
| Verifier decision (`verdict.ts`, `verifier.ts`, `stripe-cashflow-source.ts`, `cashflow-source.ts`) | none; reads the payment rail or a file | `decide`, `runVerifier`, the two sources |
| Verifier process (`verifiers/src/serve.ts`) | the environment's settings, the table it has loaded | `main`, `listen` |
| Brief client (`agent/src/llm-brief-client.ts`) | none | compose a text |
| Harness (`e2e/harness/run-cycle.mjs` and others) | the exit code | one run and its finality; registration, funding |
| Dashboard (`dashboard/lib/data.ts`) | a list of cycles kept by hand | checks of the list, reputations, the receipt card |
| Build binaries, types, test doubles | none that the system depends on | |

Who talks to whom: the agent asks the vault (is the cycle distributed?), asks
and pays every verifier in parallel, counts the verdicts as the contract would,
submits `distribute` with the evidence, asks for a brief and submits
`record_brief`. A verifier service checks the payment authorization with a
gateway, asks its source, signs, and settles the payment before it answers.
The harness waits for the finality of what the run submitted and turns it into
an exit code; the dashboard derives its pages from runs that were written down.
Nothing is shared but the chain; everything between two `await`s is atomic for
its process, and nothing is across them.

What is hard here, with the property that each module owes to it:

* evidence is hostile: repeated signers, conflicting, replayed, mislabelled and
  forged verdicts must not make a quorum (`SettledByQuorum`,
  `ImplementsSettlement`);
* money is indivisible and shared by cycles (`FundsConserved`, `DustBounded`);
* one settlement writes eight places, with a loop of host transfers in the
  middle that can fail (`RecordsAgree`, `ImplementsVault`);
* runs overlap, submissions and answers get lost, transactions execute late, out
  of order or never (`OneRunSettles`, `SubmittedSettles`, `RunsFinish`);
* two programs in two languages count the same verdicts (`PrecheckAgrees`,
  `EvidenceIsAccepted`) over the same bytes (`OneVerdictPerMessage`), and check a
  text in hex twice, in two ways (`VerifiedIsEncodable`);
* a verdict is computed before it is paid for, by requests that may share an
  authorization and that share an initialization that may fail
  (`ImplementsSale`, `EveryRequestAnswered`);
* the service may stop between two calls while a transfer is in the facilitator's
  hand, connections break, answers are altered and signed again (`ImplementsPaidAnswer`,
  `AnswerIsItsVerdict`, `QueriesEnd`);
* a node lags, answers "not found" for faults, shows results that are not final,
  and a clock runs (`GuardIsSound`, `OutcomeIsTruth`, `TimeoutIsHonest`,
  `WaitIsBounded`);
* a process takes its configuration, its keys and its amounts from text that
  somebody wrote (`FailsFast`, `YesIsWarranted`);
* a page repeats by other means what the contract computes
  (`RegistryMirrorsChain`, `ReceiptMirrorsChain`).

`PROJECT.json` lists every hazard at its line.

## 2. The modules

**The contract.** `Verdicts` has the evidence loop as sets of positions:
registered, valid, distinct; then the yes votes. A signature is ideal: it names
its signer and its message. `Canonical` justifies the message as a tuple: it is
the byte encoding with its u16 length prefixes, and shows that the bytes
determine the verdict. `ServicerVault` has one variable per contract variable
and one action per writing entrypoint. An entrypoint is one transaction that
commits or reverts, so the action's guard is that the operator `XxxError`, which
gives the first test to fail in the order of the code, is `"ok"`. Environment:
`signed` (what verifiers have signed, never unsigned), `purse` and `balance`
(native money), `events` (the log); `funded` is a history variable. `VaultExec`
runs `distribute` by statements: check, vote by vote, payment by payment (each
may fail), flag and receipt, score by score, commit. A journal of the storage is
restored on a revert, as the host does.

**What the contract promises.** `Settlement` is an escrow that knows of no
evidence, receipts or reputations: a pot per asset, votes, quorums, and a
settlement per cycle that takes from the pot if some quorum has voted for
exactly that cycle. `VaultRefinement` maps the vault to it: the quorums of an
asset are the sets of at least `quorum` distinct registered verifiers, the votes
are the issued yes signatures, the settlements are read off the receipts.

**The dashboard.** `Dashboard` runs beside `ServicerVault`: a distribution of the
asset shown, or a run that halts, adds an entry to the committed list if
`getCycles` accepts it. Registry rows and the receipt card are operators on the
list; the properties compare them with the contract's scores and snapshots under
the conditions under which they can agree: the list is complete, the asset is
the only one its verifiers serve, and so on. A row's `lastCycle` is the bare cycle
id (`data.ts:109`), the contract's is asset and cycle (`servicer_vault.rs:590`);
`EntryMeant` is the entry that a row stands for, read as one of the asset shown.

**The agent.** `Precheck` has `reachQuorum`'s loop as a recursive function of the
number of verdicts seen (`Counted`), the evidence arrays the agent makes of
them, and two checks of the texts in them that are written apart in the code:
`VerifyVerdict` decodes a text to bytes (`HexToBytes`, which refuses odd digits
and anything else) and the signature library demands 64 and 32 of them;
`IsKeyHex` and `IsSignatureHex` match digits, or the encoding of the whole call
throws. A text has a form (`OddForms`): how many digits it begins with, how
many characters follow, and what it spells. Signers are *spellings*: `KeyOf`
says which key a text stands for, as hex may be written in two cases.
`VerdictQuorum` lets verdicts arrive in any order and compares the loop with
what has been said validly (`SaidYes`, `SaidNo`) and with the contract's count. `Servicer` composes runs of
`runCycle` with the vault: `Guard` (the dictionary query, which can fail or, with
`Masking`, wrongly say absent), per verifier the attempts of `queryWithRetry`
(refused; answered but not settled; served, charged and then answered or lost),
`Decide`, `Submit` (or a submission that fails before or after the node took it),
`WriteBrief`, `RecordSubmit` (`BriefProvider` says whether the provider can
fail). The chain executes pending transactions in any order, or they expire.

**The chain client.** `ChainClient` has sessions in the order of
`run-cycle.mjs`: construction, guard, submission, wait, exit code. A call is a
request, a moment at which the node looks, and a reply; each may fail.
`IsDictionaryNotFound` decides by the first numeric code it finds, else by text;
`AbsentErrors` and `FaultErrors` say how a node expresses itself, and they
overlap: a fault may look exactly as an absent item does (`Ambiguous`), and
`GuardIsSound` says that nothing but such a fault gets past the guard. A poll is
final if it has a result and a height other than 0. Time passes between all
steps, but no call takes longer than `Latency`: the code sets no such limit, and
the properties about time are relative to the longest call. A run's own
computation between guard and submission is one step here; `Servicer` has it.

**The verifier service.** `Cashflow` has the Stripe source and `decide`.
`VerifierService` has requests that overlap: limiter, joint lazy initialization,
gate, fetch, settlement; the gateway's calls return or throw at will, the
transfer (`Charge`) happens between the call and its return. `Sale` is what that
promises: a priced request is sold its verdict only for an authorization spent
on it, an authorization pays for one request, a request spends at most one.

**Query and answer.** `PaidQuery` puts the paying client in front of
`VerifierService`: an attempt is an unpaid request and, on a 402, the same
request with a fresh authorization; whatever throws leads to the second attempt
or to failure. The connection may break in any state of the request, ids are
trimmed by the service and not by the client, and the body may be unreadable,
changed, taken from another request, or signed again with another key
(`Bodies`): the client verifies a signature under the key that the body states
(`ParseVerdict`), since the entry of an endpoint has none. It therefore takes
such a body, and `AnswerIsItsVerdict` says of it only which cycle it is about;
the vault's test for registered verifiers is what stops it. Then `Restart` stops the service with every request in it, a transfer in
the facilitator's hand excepted. `PaidAnswer` is what that promises the agent,
and `PaidQuery` implements it.

**The verifier process.** `VerifierProcess` starts in any environment with any
file: `MainThrows` is every test of `main`, `requireEnv`, `buildSource` and the
two loaders, as a set of conditions since they all exit alike. An amount is a
JSON value: its type, whether it is in digits only, what `BigInt` makes of it.
A process that listens answers from the table it has loaded while somebody edits
the file. What the gate is built of is only tested for being there
(`GateSettings`): with one of them wrong the gate passes nobody, and paid
requests end with 402 or 500 (`GateAnswers`). A record has the cycle that it was
written for (`of`), which may be another than the key that it stands under, and
which the code does not look at.

`Sums` is the sum of a sequence as a recursive function, for the modules that
are proved about. Modules `*Proofs` hold theorems; `MC*` are instances for TLC:

| Proofs | About | Built on |
|---|---|---|
| `ServicerVaultProofs` | sums and shares; `ServicerVault`, that it implements `Settlement`, and its ledger | |
| `VaultExecProofs` | `VaultExec`, that it implements `ServicerVault` | `ServicerVaultProofs` |
| `AgentProofs` | `Precheck`, `VerdictQuorum`, `Servicer` | `ServicerVaultProofs` |
| `DashboardProofs` | `Dashboard` | `ServicerVaultProofs` |
| `CanonicalProofs` | `Canonical` | |
| `VerifierServiceProofs` | `VerifierService` and `Sale`, `PaidQuery` and `PaidAnswer` | |
| `ChainClientProofs` | `ChainClient` | |
| `VerifierProcessProofs` | `VerifierProcess` | |

## 3. The runs

| Run | Question | Instance | States |
|---|---|---|---|
| `MCVaultQuorum` | can any evidence settle without a quorum, and is the record of a settlement right and final? | 1 asset, 2 cycles, 2 of 3 verifiers registered, all evidence of up to 3 of 9 kinds of entry, 2 rules, 3 briefs | 12 288 |
| `MCVaultLedger` | does the money add up, do reputations follow the receipts, does the dashboard? | 2 assets with overlapping verifiers, 2 cycles each, 5 registrations of which 3 are rejected, indivisible pools up to 6, 1 halted run | 116 352 |
| `MCVaultExec` | do the loops of `distribute` commit what `ServicerVault` says? | 2 assets, 7 kinds of evidence, a transfer may fail at each holder | 60 947 |
| `MCQuorum` | do agent and contract count alike, is what is verified encodable, and do the signed bytes determine the verdict? | every sequence of up to 4 verdicts: a key in two spellings, contradictions, forgeries, 4 texts that are no key or signature; beside them every pair of verdicts over 4 strings that imitate prefixes | 172 699 |
| `MCQuorumFirstYes` | is the first valid "yes" of a signer counted? | the same | violated |
| `MCVaultColon` | is a receipt that of the cycle asked about, whatever the ids? | 2 pairs of ids with one key | violated |
| `MCServicerRace` | do overlapping runs settle once and pay within bounds? | 2 runs, 2 cycles, 1 verifier | 205 765 |
| `MCServicerPanel` | can fraud be paid out, and does everything come to an end? | 1 run, 3 verifiers, one dishonest, quorum 2, under fairness | 384 338 |
| `MCService` | what can a request cost or be told, is a verdict sold for a payment, is every request answered? | 2 priced requests and an unpriced one, 1 authorization, an intent that is right or wrong in one respect, under fairness | 269 263 |
| `MCPaidQuery` | what does the agent get for its money, across retries and restarts? | a query (priced or not) of two attempts, ids plain, padded or blank, bodies with either key stated and either signature or none, intents right or too small, under fairness | 88 260 |
| `MCChainClient` | is what the client reports true, in time, and does it end? | 2 sessions for one cycle, timeout 2, poll 1, latency 1, two absences, two faults that contradict each other in code and text, and two that look like an absence, under fairness | 519 062 |
| `MCVerifierProcess` | what can go wrong after a verifier has started? | 3 assets and 3 cycles of which two pairs collide and two would without the colon, a good environment per source and each that differs in one variable, 22 files (one with a record under a wrong key), one of which may replace another | 451 066 |

Why these bounds are enough to be of interest: with two signers, three entries
hold a duplicate and a conflicting pair at once; two assets with one common
verifier are what registry, reputation and shared purse need to interfere; a
pool of 3 over weights 1 and 2, and of 3 over 4, leaves no dust and some; two
runs are enough for both to pass the guard; two requests with one authorization
are enough for both to pass verification; one query has two attempts, each of
which can be charged, lost, and charged after the fact (`MaxAsked` = 1: queries
share nothing but the limiter and the initialization, which `MCService` has
contended); a timeout of two polls has a first, a middle and a last; what a
verifier process answers depends on no earlier answer. `MaxFunds`, `MaxWeight`, `MaxVerdicts`,
`MaxSigned`, `MaxHits`, `MaxHalts`, `MaxAsked`, `MaxAnswers`, `LastStart`, `Session` and
the sets of the MC modules are the only bounds, each marked where it is declared.
`CHECK_DEADLOCK FALSE` appears where the system stops when its inputs are used
up: all cycles settled, all runs and requests done.

`MCQuorum` puts two specifications side by side that share nothing: in a
behaviour either verdicts arrive or verdicts are signed.

Two runs look for a disagreement between a comment and the code and find it:
`MCVaultColon`, in which ids with a colon share a key, and a receipt is returned
for a cycle that never settled; and `MCQuorumFirstYes`, in which a signer's "no"
hides its later "yes", while the comment at `quorum.ts:15-16` has "only the first
valid "yes" from that signer" counted. `PROJECT.json` ("findings") quotes the
texts.

### Where the models disagree with a text

The models admit more that a reader of the comments might not expect, and that
no run of its own pursues:

* `data.ts:94-95` says that the computed registry is "exactly the on-chain
  model applied to the committed ledger"; its `lastCycle` is the bare cycle id where the contract stores
  asset and cycle. `RegistryMirrorsChain` compares what the row means.
* `casper-verifier-client.ts:152` has a bad signature as "a hard error — never
  trust it"; the key is the one that the answer itself states, so that a body
  signed again with any key is taken, counted by the pre-check, and refused by
  the contract alone.
* `verdict.ts:18` promises "evidence for a cycle, or null if the source has no
  record". The key of a record joins two ids by a colon, and the service takes
  ids with colons; and nobody compares the ids that a fixture's record states.
  `YesIsWarranted` is restricted to colon-free asset ids and records under their
  own keys; without either restriction the instance of `MCVerifierProcess`
  violates it.
* `serve.ts:15-16` speaks of missing values, and means it: a wrong facilitator,
  token, network, asset, payee or price, or a wrong token name or version, is
  not noticed before every request fails at the gate.
* `SPEC.md:77` says a confirmed settlement is never sent again; a retry after a
  lost answer pays the verifier a second time (`PaidAnswer` is what holds: one
  charge per attempt).
* A brief is composed as soon as the distribution is submitted, and reported as
  soon as `record_brief` is (`servicer.ts:201` to `213`); either transaction may
  still revert or expire, the brief also for its length, and then no brief "was
  recorded", in the words of `servicer.ts:216`.
* `cashflow-source.ts:8-9` has malformed fixtures fail at startup; only the
  outermost value is checked. An amount that is a JSON number is decided, signed,
  charged for, and refused by the client. The signing key's form is not looked at
  when the process starts either. `FailsFast` names these exceptions, the settings
  of the gate, and Stripe's amounts.
* `casper-js-chain-client.ts:37-39` and `:413-415` ("never mask a real fault"):
  `DICT_ABSENT_RPC_CODES` has the code for a key that could not be parsed, and an
  error without a code counts as absent if its text looks like "not found".
  `GuardIsSound` names exactly these (`Ambiguous`), and its run has such faults:
  after one, a session does submit for a settled cycle. With `Masking`
  (`GuardMasked`) a run then pays verifiers for a cycle that has settled, so
  `MCServicerRace` has it off.
* A settlement call that fails after the transfer is answered 500
  (`server.ts:398`) to a client that has been charged.
* The dashboard agrees with the contract only if its list is complete and in
  order, its verifiers serve one asset, and no verifier repeats: it scores per
  asset where the contract scores over all, and takes the first entry of a cycle
  id where a halted run may have come before.

### Fairness

`AgentFairness`: once a run has started, its next step is taken (a fetch or an
RPC call returns, throws or times out), and a pending transaction executes or
expires (Casper transactions carry a time to live). Nothing forces a run to
start, cash to arrive or the operator to act. `ServiceFairness`: the
initialization and the calls a request waits for return or throw. The transfer
itself (`Charge`) is under no fairness: whether the facilitator executes it
before the call returns is its own business. Limiter windows need not end, and
no restart has to happen. `QueryFairness`: the client goes on with what it has
received, and notices that the process it is connected to is gone. The client
has no timeout, so that `QueriesEnd` rests on the service's own progress; it is
false without it. `ClientFairness`: calls return or throw, timers fire, time goes
on. That the chain executes anything is not assumed there: the wait ends by its
deadline. `VerifierProcess` and the vault claim no liveness.

## 4. The proofs

All theorems hold for every value of the constants that satisfies the ASSUMEs of
the modules; TLC evaluates those on every run.

* **The vault** (`ServicerVaultProofs`). `TypeCorrect` first: the shape of the
  state, and `RulesValid`, that stored rules have holders, a positive total
  weight and a quorum within range. Then `SafetyInv`, which adds
  `SettledByQuorum`, `RecordsAgree` and `DustBounded` to it. Each needs a
  companion to be inductive: a receipt's quorum is that of the asset's rules,
  which never change once set; a key is flagged exactly if it has a receipt; the
  dust of a receipt is bounded by its own holder count. `SettledByQuorum` is
  proved from what `distribute` checks at that moment, and survives because
  `signed` only grows. `DustBounded` rests on the sum of floor divisions
  (`ProRataBounds`): for shares `(pool * w) \div total` the sum is at most the pool
  and falls short by less than the number of holders. `RecordsStayFinal` is an
  action property: for a receipt it needs `RecordsAgree`, as `distribute` looks
  at the flag alone.
* **The escrow** (`ServicerVaultProofs`). `VaultImplementsSettlement`: each
  action of the vault maps to one of `Settlement` or to a stutter; `Distribute`
  maps to `Settle` with the yes signers as the quorum. `ReceiptLookup`: if asset
  ids are free of colons, the key determines asset and cycle, and `get_receipt`
  answers for its cycle.
* **The ledger** (`ServicerVaultProofs`, last part). `LedgerInv` is `SafetyInv` with three
  statements that are properties and two that only make them inductive:
  `UnlistedUnseen` (a verifier that is not in the registry is in no receipt's
  snapshot, so that a score that starts at zero starts right) and `LogIsExact`
  (the log's entries are exactly the settled keys, each once, so that a cycle's
  place in time is its place in the log). From it `ReputationIsTrue`,
  `SnapshotsAreTrackRecords` and `RegistryIsIndexed`: an increment per cycle and
  verifier, in a loop over a list that may repeat verifiers, is a recount over
  receipts. `FundsAlwaysConserved` is about sums over functions, hence assumes
  that assets and accounts are finitely many; a transfer loop credits an account
  once per entry of the holder list (`SumOfParts` adds that up by holder and by
  entry), and `DustBounded`'s lemma says that the pool covers it.
* **The loops of `distribute`** (`VaultExecProofs`). `CallInv` says what each
  loop knows at its n-th turn, in the terms of `ServicerVault`'s sets and sums:
  the vote loop has collected exactly the counted votes among the first n entries
  (`VotesKnown`; `CountedNext` is why a list of signers already seen finds them),
  the pay loop has paid the first n shares and each account its part of them
  (`PaidUpTo`, `BalanceAt`), the score loop has written the new entry of each
  distinct verifier but those still before it (`RegistryBut`), and the journal is
  the storage with just that changed. `UniqueFacts` is the loop that drops
  repeated verifiers, `VoteFound` that the first vote found is the one counted.
  From it `ExecImplementsVault`: the commit is a `Distribute` step and everything
  before it, or a revert, a stutter; the vault's theorems therefore hold of
  `distribute` run statement by statement. `ReasonsAreTrue`: a call that ends gives
  the reason that `DistributeError` gives, a failing transfer aside, which the host
  may refuse for its own reasons. TLC has checked `CallInv` on the instance of `MCVaultExec` before it was proved.
* **The agent** (`AgentProofs`). `Describes` is what `reachQuorum`'s loop knows
  after n verdicts: the keys of the verified ones, and the "yes" of each key's
  first. From it `PrecheckCountsYes` (each spelling once, for a valid "yes", and
  always without a valid "no") and `PrecheckAgreesWithContract`: the contract's
  sets of positions and the agent's loop choose the same signers.
  `VerifiedAlwaysEncodable` needs no invariant, but that the two checks of a text
  are one: what decodes to 32 or 64 bytes has nothing after its 64 or 128 digits
  (`DecodedIsEncodable`). In `Servicer` every step of the contract is one of
  the vault's, by other hands and with other evidence (`VaultStep`: the vault's
  actions without the bounds of its own inputs), so that its theorems hold
  there too: `AgentKeepsVaultPromises`. `AgentInv` adds what relates runs to the
  chain: what a run must know at each await and what its transaction carries
  (`RunsOK`), that a settled key is that of exactly one run's successful
  transaction (`SettledByOneRun`), that honest verifiers have signed "yes" for
  cashflows that came in (`HonestSigned`), that the purse is the one pool
  (`OnePool`, without which a transfer might fail), and why a transaction can have
  failed (`Accepted`; also before the asset is registered). From it
  `RunsSettleOnce`, `FraudIsNeverPaid` (a quorum that the dishonest cannot fill
  has an honest member), `EvidenceAlwaysAccepted` (`PrecheckAgreesWithContract`
  for evidence that is executed late) and, without masked faults,
  `NoPaymentAfterSettlement`. TLC has checked `AgentInv` on both instances of
  `Servicer` before it was proved.
* **The dashboard** (`DashboardProofs`). Nothing removes an entry, but a
  settlement may go unlisted, and then no later one makes the list complete
  again: `ListInv` has it that at most as many settlements are listed as there
  are events of the asset, and keeps what the pages must show (`RegistryMirrored`,
  `SnapshotsMirrored`) under the premise that these are equal. What an entry
  must have taken from its run is in `ReceiptAgrees`. The heart is that an
  accepted entry's "yes" votes are the votes that the contract counts
  (`EntryFacts`): as many, and each counted one is a "yes", so that the first
  verdict of a source is also its vote. `FundedOnce` is enough for the dust, and
  needs no sum. From it `RegistryIsMirrored` and `ReceiptIsMirrored`, for lists
  of any length.
* **The bytes** (`CanonicalProofs`). `SignatureAttestsOneVerdict`: the two length
  digits determine a length below 65536, hence a prefixed string can be split
  off, hence five fields in a row can.
* **The service** (`VerifierServiceProofs`). `ServiceInv` says what is known of a
  request at each await (`Progress`), that an authorization is spent only for
  the request that offers it and after its verdict (`Spending`), and that a
  "yes" has a confirmed intent behind it. One lemma per group of actions;
  `OneRequestStep` has what they share. From it `ChargedOnlyForVerdicts`,
  `NoYesIsFalse`, `OwnFailures` and, step by step, `ServiceImplementsSale`.
* **Query and answer** (`VerifierServiceProofs`, second half). `ServiceInv` is
  stated for requests that may be lost, or lost with a transfer under way, which
  happens only here. `QueryInv` adds that a request carries the authorization of
  its own attempt and has not arrived before the attempt began (`Own`, without
  which a late transfer might be charged to another attempt), that a priced 200
  has been paid for (`Sold`), and that an accepted answer is about the id asked
  about and, under the service's key, one of the verdicts it has computed
  (`Warranted`). From it `AnswersAreTheirVerdicts`, and
  `QueriesImplementPaidAnswer` through restarts, retries and late transfers;
  `ServicePromisesKept` repeats the service's own theorems for the composition.
* **The chain client** (`ChainClientProofs`). The invariant is three statements
  about one session and its transaction, so that a step of another session
  cannot disturb them: `Guarded` (nothing is submitted before the guard has
  answered, nor after it has said "settled"), `Truthful` (a final reply has the
  transaction's status, and a settled cycle stays so) and `Timely` (a call under
  way was sent at most `Latency` ago, a sleep is at most a poll interval long, a
  round starts before the deadline). From it `GuardSound`, `FinalityIsTrue`,
  `ExitZero`, `WaitBounded` and `GivesUpHonestly`, for any number of sessions,
  any timeout, interval and latency, and for any faults: `GuardSound` rests on
  `NotFoundIsAmbiguous`, that whatever the code takes for an absence without the
  item being absent has the form that `Ambiguous` names.
* **The verifier process** (`VerifierProcessProofs`). A process that listens has
  the table of a file that `main` has not thrown at, and every answer was made
  from it, through a gate that turns nobody away unless one of its settings is
  wrong. From it `FailsFastOrNever` and, with `KeyReadsOneWay` (the first colon of
  a key ends the asset id, if asset ids have none), `YesWarranted`, for any ids
  and any files.

Only model-checked:

* liveness (`RunsFinish`, `SubmittedSettles`, `EveryRequestAnswered`,
  `QueriesEnd`, `EverySessionEnds`), as liveness under fairness is out of the
  prover's reach.

Induction over the length of a sequence is done with a first-order statement
about sets of naturals instead (`SetInduction`), as induction that instantiates an
operator is out of reach too.

## 5. What is not modelled

* Ed25519 and the token: a signature is ideal, an authorization is spent once.
* `settled_at`, event and receipt encodings, amounts and sources inside a
  verdict (one opaque detail).
* UTF-8, and fields of 65536 bytes and more in the proofs (the encoding has the
  prefix wrap); u32 counters that wrap. A sum of weights over U256::MAX reverts,
  and is modelled.
* `installContract` and the proxy call of `fund`: one-shot encodings. The x402
  header encodings, and the Express adapter around the handler.
* Prompt, fallback text and receipt layout: wording.
* The live reads of `dashboard/lib/chain.ts` return null until they are written;
  `TryTheFraudDemo.tsx` and the other components present values.
* Types, re-exports and test doubles (`packages/core/src/fakes.ts`), the build
  binaries, and the scripts under `e2e` that deploy, register, wrap or probe
  once: they keep no state that a property could be about.
* The limiter promises nothing about fairness between clients, and nothing is
  claimed of it. Real time between two attempts of the agent is left out.

## 6. Plan

Done, in this order: `Verdicts`, `ServicerVault`, `Settlement` and the
refinement with its proofs; `VaultExec`; `Precheck` and `VerdictQuorum`; `Servicer`;
`Cashflow`, `VerifierService` and `Sale` with proofs; `Canonical` with its proof;
`ChainClient` with proofs; `PaidAnswer` and `PaidQuery`; `VerifierProcess` with
proofs; `Dashboard`.

The proofs of the ledger, the agent, the queries, the dashboard and the loops of
`distribute` followed, in that order. Every invariant and action property that a
run checks is now a theorem; what is left to TLC is liveness.
