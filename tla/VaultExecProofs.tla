---------------------------- MODULE VaultExecProofs ----------------------------
(***************************************************************************)
(* Theorems about VaultExec, for all values of its constants: whatever the *)
(* loops of `distribute` commit is a Distribute step of ServicerVault, and *)
(* a call that fails tells the reason that ServicerVault gives.            *)
(***************************************************************************)
EXTENDS VaultExec, ServicerVaultProofs

-----------------------------------------------------------------------------
(* What the loops know at each turn, for a call l and a journal j. *)

Snapshots == Seq([signer : Verifier, score : Scores])
Calls == [pc : {"checks", "votes", "pay", "score"}, asset : Asset, cycle : Cycle,
          evidence : Evidence, i : Nat \ {0}, seen : Seq(Verifier),
          votes : Seq(Verifier \X BOOLEAN), yes : Seq(Nat), pool : Nat, paid : Nat,
          snapshot : Snapshots,
          unscored : Seq(Verifier)]

\* A journal that has touched what distribute touches.
Journal(ps, ds, reg, pu, ba) ==
  [pools |-> ps, distributed |-> ds, receipts |-> receipts, registry |-> reg,
   events |-> events, purse |-> pu, balance |-> ba]

\* The votes that ServicerVault counts, those of the first n entries, and
\* among them those in favour.
Counted(l) == CountedVotes(assets[l.asset], l.asset, l.cycle, l.evidence)
CountedUpTo(l, n) == {k \in Counted(l) : k <= n}
YesUpTo(l, n) == {k \in CountedUpTo(l, n) : l.evidence.verdicts[k]}

\* The vote loop has been through n entries.
VotesKnown(l, n) ==
  LET e == l.evidence
  IN  /\ Range(l.seen) = {e.signers[k] : k \in CountedUpTo(l, n)}
      /\ Range(l.votes) = {<<e.signers[k], e.verdicts[k]>> : k \in CountedUpTo(l, n)}
      /\ Range(l.yes) = YesUpTo(l, n)
      /\ Len(l.yes) = Cardinality(YesUpTo(l, n))

\* What each entry of the holder list is to receive, and each entry of h.
SharesOf(l) == Shares(assets[l.asset], pools[l.asset])
DueTo(cfg, pool, h) ==
  [k \in DOMAIN cfg.holders |-> IF cfg.holders[k].to = h THEN Shares(cfg, pool)[k] ELSE 0]
Due(l, h) == DueTo(assets[l.asset], pools[l.asset], h)

\* The pay loop has been through n holders.
PaidUpTo(l, n) ==
  /\ l.paid = PrefixSum(SharesOf(l))[n]
  /\ l.paid <= purse
BalanceAt(l, n) == [h \in Holder |-> balance[h] + PrefixSum(Due(l, h))[n]]

\* The registry when all but the verifiers of vs have been scored.
RegistryBut(l, vs) ==
  [v \in Verifier |->
     IF v \in Range(assets[l.asset].verifiers) \ Range(vs)
     THEN Scored(v, Key(l.asset, l.cycle), l.evidence, Counted(l))
     ELSE verifierRegistry[v]]

\* The score of v in a snapshot s.
ScoreIn(s, v) ==
  LET found == {n \in DOMAIN s : s[n].signer = v}
  IN  IF found = {} THEN None ELSE s[First(found)].score

\* The first tests have been passed, and those before the pay loop.
Admitted(l) ==
  /\ ParallelArrays(l.evidence)
  /\ assets[l.asset] # None
  /\ ~AlreadyDistributed(l.asset, l.cycle)
Payable(l) ==
  /\ Admitted(l)
  /\ VotesKnown(l, Len(l.evidence.signers))
  /\ Len(l.yes) >= assets[l.asset].quorum
  /\ l.pool = pools[l.asset]
  /\ l.pool # 0

AtChecks(l, j) ==
  /\ l.seen = <<>> /\ l.votes = <<>> /\ l.yes = <<>> /\ l.paid = 0
  /\ j = storage

AtVotes(l, j) ==
  /\ Admitted(l)
  /\ l.i <= Len(l.evidence.signers) + 1
  /\ VotesKnown(l, l.i - 1)
  /\ l.paid = 0
  /\ j = storage

AtPay(l, j) ==
  /\ Payable(l)
  /\ l.i <= Len(assets[l.asset].holders) + 1
  /\ PaidUpTo(l, l.i - 1)
  /\ j = Journal(pools, distributed, verifierRegistry,
                 purse - l.paid, BalanceAt(l, l.i - 1))

AtScore(l, j) ==
  /\ Payable(l)
  /\ PaidUpTo(l, Len(assets[l.asset].holders))
  /\ IsInjective(l.unscored)
  /\ Range(l.unscored) \subseteq Range(assets[l.asset].verifiers)
  /\ \A v \in Verifier :
       ScoreIn(l.snapshot, v) =
         IF v \in Range(assets[l.asset].verifiers) THEN ReputationOf(v).score ELSE None
  /\ j = Journal([pools EXCEPT ![l.asset] = @ - l.paid],
                 distributed \cup {Key(l.asset, l.cycle)},
                 RegistryBut(l, l.unscored),
                 purse - l.paid, BalanceAt(l, Len(assets[l.asset].holders)))

CallOK(l, j) ==
  l.pc # "none" =>
    /\ l \in Calls
    /\ l.pc = "checks" => AtChecks(l, j)
    /\ l.pc = "votes" => AtVotes(l, j)
    /\ l.pc = "pay" => AtPay(l, j)
    /\ l.pc = "score" => AtScore(l, j)

\* The evidence of the call can have been submitted.
Submittable(l) ==
  l.pc # "none" => Range(l.evidence.signatures) \subseteq signed \cup {Forged}

CallInv == CallOK(call, journal) /\ Submittable(call)

\* The invariant of a call reads only what nobody else writes meanwhile.
LEMMA Carry ==
  ASSUME assets' = assets, pools' = pools, distributed' = distributed,
         receipts' = receipts, verifierRegistry' = verifierRegistry,
         events' = events, purse' = purse, balance' = balance,
         CallOK(call', journal')
  PROVE  CallOK(call, journal)'
<1>1. storage' = storage
  BY DEF storage
<1>2. ASSUME Admitted(call') PROVE Admitted(call)'
  BY <1>2 DEF Admitted, AlreadyDistributed
<1>3. ASSUME NEW n, VotesKnown(call', n) PROVE VotesKnown(call, n)'
  BY <1>3 DEF VotesKnown, CountedUpTo, YesUpTo, Counted
<1>4. ASSUME Payable(call') PROVE Payable(call)'
  BY <1>2, <1>3, <1>4 DEF Payable
<1>5. ASSUME NEW n, PaidUpTo(call', n) PROVE PaidUpTo(call, n)'
  BY <1>5 DEF PaidUpTo, SharesOf
<1>6. ASSUME NEW n PROVE BalanceAt(call, n)' = BalanceAt(call', n)
  BY DEF BalanceAt, Due
<1>7. RegistryBut(call, call.unscored)' = RegistryBut(call', call'.unscored)
  BY DEF RegistryBut, Scored, ReputationOf, Counted
<1>8. \A v \in Verifier : ReputationOf(v)' = ReputationOf(v)
  BY DEF ReputationOf
<1>9. ASSUME AtChecks(call', journal') PROVE AtChecks(call, journal)'
  BY <1>1, <1>9 DEF AtChecks
<1>10. ASSUME AtVotes(call', journal') PROVE AtVotes(call, journal)'
  BY <1>1, <1>2, <1>3, <1>10 DEF AtVotes
<1>11. ASSUME AtPay(call', journal') PROVE AtPay(call, journal)'
  BY <1>4, <1>5, <1>6, <1>11 DEF AtPay, Journal
<1>12. ASSUME AtScore(call', journal') PROVE AtScore(call, journal)'
  BY <1>4, <1>5, <1>6, <1>7, <1>8, <1>12 DEF AtScore, Journal
<1> QED BY <1>9, <1>10, <1>11, <1>12 DEF CallOK

-----------------------------------------------------------------------------
(* Sequences. *)

\* What is pushed is added.
LEMMA Pushed ==
  ASSUME NEW S, NEW s \in Seq(S), NEW x \in S
  PROVE  /\ Append(s, x) \in Seq(S)
         /\ Len(Append(s, x)) = Len(s) + 1
         /\ Range(Append(s, x)) = Range(s) \cup {x}
         /\ IsInjective(s) /\ x \notin Range(s) => IsInjective(Append(s, x))
<1> DEFINE t == Append(s, x)
           n == Len(s)
<1>1. /\ t \in Seq(S) /\ n \in Nat /\ Len(t) = n + 1 /\ t[n + 1] = x
      /\ DOMAIN s = 1 .. n /\ DOMAIN t = 1 .. (n + 1)
      /\ \A k \in 1 .. n : t[k] = s[k]
  OBVIOUS
<1> HIDE DEF t, n
<1>2. Range(t) = Range(s) \cup {x}
  <2>1. ASSUME NEW y \in Range(t) PROVE y \in Range(s) \cup {x}
    BY <1>1, <2>1 DEF Range
  <2>2. ASSUME NEW y \in Range(s) \cup {x} PROVE y \in Range(t)
    <3>1. \A k \in 1 .. n : k \in 1 .. (n + 1) /\ n + 1 \in 1 .. (n + 1)
      BY <1>1
    <3>2. n + 1 \in 1 .. (n + 1)
      BY <1>1
    <3> QED BY <1>1, <3>1, <3>2, <2>2 DEF Range
  <2> QED BY <2>1, <2>2
<1>3. ASSUME IsInjective(s), x \notin Range(s) PROVE IsInjective(t)
  <2>1. \A k, m \in 1 .. n : s[k] = s[m] => k = m
    BY <1>1, <1>3 DEF IsInjective
  <2>2. \A k \in 1 .. n : s[k] # x
    BY <1>1, <1>3 DEF Range
  <2>3. SUFFICES ASSUME NEW k \in 1 .. (n + 1), NEW m \in 1 .. (n + 1), t[k] = t[m]
                 PROVE  k = m
    BY <1>1 DEF IsInjective
  <2> QED BY <1>1, <2>1, <2>2, <2>3
<1> QED BY <1>1, <1>2, <1>3 DEF t, n

\* The loop that keeps the distinct elements of a sequence.
LEMMA UniqueStep ==
  ASSUME NEW S, NEW vs \in Seq(S)
  PROVE  \A n \in 0 .. Len(vs) :
           UniqueUpTo(vs)[n] =
             IF n = 0 THEN <<>>
             ELSE IF vs[n] \in Range(UniqueUpTo(vs)[n - 1]) THEN UniqueUpTo(vs)[n - 1]
             ELSE Append(UniqueUpTo(vs)[n - 1], vs[n])
<1> DEFINE Step(u, n) == IF n = 0 THEN <<>>
                         ELSE IF vs[n] \in Range(u[n - 1]) THEN u[n - 1]
                         ELSE Append(u[n - 1], vs[n])
           Upto(u, m) == u = [n \in 0 .. m |-> Step(u, n)]
           N == {m \in Nat : \E u : Upto(u, m)}
           L == Len(vs)
<1>1. 0 \in N
  <2> DEFINE u == [n \in 0 .. 0 |-> <<>>]
  <2>1. \A n \in 0 .. 0 : n = 0 /\ Step(u, n) = <<>>
    OBVIOUS
  <2>2. Upto(u, 0)
    <3> HIDE DEF Step
    <3> QED BY <2>1
  <2> QED BY <2>2
<1>2. ASSUME NEW m \in N PROVE m + 1 \in N
  <2>1. PICK u : Upto(u, m)
    BY <1>2
  <2>2. m \in Nat
    BY <1>2
  <2> DEFINE w == [n \in 0 .. (m + 1) |-> Step(u, n)]
  <2>3. \A n \in 0 .. m : w[n] = u[n]
    <3>1. \A n \in 0 .. m : u[n] = Step(u, n) /\ n \in 0 .. (m + 1)
      <4> DEFINE rhs == [n \in 0 .. m |-> Step(u, n)]
      <4>1. \A n \in 0 .. m : rhs[n] = Step(u, n)
        <5> HIDE DEF Step
        <5> QED OBVIOUS
      <4>2. u = rhs
        BY <2>1
      <4>3. \A n \in 0 .. m : n \in 0 .. (m + 1)
        BY <2>2
      <4> HIDE DEF rhs, Step
      <4> QED BY <4>1, <4>2, <4>3
    <3> HIDE DEF Step
    <3> QED BY <3>1
  <2>4. \A n \in 0 .. (m + 1) : Step(w, n) = Step(u, n)
    <3> SUFFICES ASSUME NEW n \in 0 .. (m + 1), n # 0 PROVE Step(w, n) = Step(u, n)
      OBVIOUS
    <3>1. n - 1 \in 0 .. m
      BY <2>2
    <3>2. w[n - 1] = u[n - 1]
      BY <2>3, <3>1
    <3> HIDE DEF w
    <3> QED BY <3>2
  <2>5. Upto(w, m + 1)
    <3> HIDE DEF Step
    <3> QED BY <2>4
  <2> HIDE DEF Upto, w
  <2> QED BY <2>2, <2>5
<1>3. N = Nat
  <2>1. N \in SUBSET Nat
    OBVIOUS
  <2> HIDE DEF N
  <2> QED BY <1>1, <1>2, <2>1, SetInduction
<1>4. L \in N
  <2> HIDE DEF N
  <2> QED BY <1>3
<1>5. \E u : Upto(u, L)
  <2> HIDE DEF Upto
  <2> QED BY <1>4
<1> DEFINE h == UniqueUpTo(vs)
<1>6. h = CHOOSE u : Upto(u, L)
  BY DEF UniqueUpTo
<1>7. Upto(h, L)
  <2> HIDE DEF Upto, h
  <2> QED BY <1>5, <1>6, Zenon
<1>8. \A n \in 0 .. L : h[n] = Step(h, n)
  <2> DEFINE rhs == [n \in 0 .. L |-> Step(h, n)]
  <2>1. \A n \in 0 .. L : rhs[n] = Step(h, n)
    <3> HIDE DEF Step, h, L
    <3> QED OBVIOUS
  <2>2. h = rhs
    BY <1>7
  <2> HIDE DEF h, rhs, Step
  <2> QED BY <2>1, <2>2
<1> QED BY <1>8

\* unique_verifiers lists the verifiers, and each once.
LEMMA UniqueFacts ==
  ASSUME NEW S, NEW vs \in Seq(S)
  PROVE  /\ Unique(vs) \in Seq(S)
         /\ IsInjective(Unique(vs))
         /\ Range(Unique(vs)) = Range(vs)
<1> DEFINE u == UniqueUpTo(vs)
           L == Len(vs)
           Good(n) == /\ u[n] \in Seq(S) /\ IsInjective(u[n])
                      /\ Range(u[n]) = {vs[k] : k \in 1 .. n}
           N == {n \in Nat : n <= L => Good(n)}
<1>1. L \in Nat /\ \A k \in 1 .. L : vs[k] \in S
  OBVIOUS
<1>2. /\ u[0] = <<>>
      /\ \A n \in 1 .. L : u[n] = IF vs[n] \in Range(u[n - 1]) THEN u[n - 1]
                                  ELSE Append(u[n - 1], vs[n])
  <2> HIDE DEF u, L
  <2>1. 0 \in 0 .. L /\ \A n \in 1 .. L : n \in 0 .. L /\ n # 0
    BY <1>1
  <2> QED BY <2>1, UniqueStep DEF u, L
<1> HIDE DEF u, L
<1>3. 0 \in N
  <2>1. <<>> \in Seq(S) /\ IsInjective(<<>>) /\ Range(<<>>) = {} /\ 1 .. 0 = {}
    BY DEF IsInjective, Range
  <2> QED BY <1>2, <2>1
<1>4. ASSUME NEW n \in N, n + 1 <= L PROVE Good(n + 1)
  <2>1. /\ n \in Nat /\ n + 1 \in 1 .. L /\ (n + 1) - 1 = n
        /\ u[n] \in Seq(S) /\ IsInjective(u[n]) /\ Range(u[n]) = {vs[k] : k \in 1 .. n}
    BY <1>1, <1>4
  <2>2. u[n + 1] = IF vs[n + 1] \in Range(u[n]) THEN u[n] ELSE Append(u[n], vs[n + 1])
    BY <1>2, <2>1
  <2>3. {vs[k] : k \in 1 .. (n + 1)} = {vs[k] : k \in 1 .. n} \cup {vs[n + 1]}
    <3>1. 1 .. (n + 1) = 1 .. n \cup {n + 1}
      BY <2>1
    <3> QED BY <3>1
  <2>4. vs[n + 1] \in S
    BY <1>1, <2>1
  <2>5. CASE vs[n + 1] \in Range(u[n])
    BY <2>1, <2>2, <2>3, <2>5
  <2>6. CASE vs[n + 1] \notin Range(u[n])
    <3>1. u[n + 1] = Append(u[n], vs[n + 1])
      BY <2>2, <2>6
    <3> QED BY <2>1, <2>3, <2>4, <2>6, <3>1, Pushed
  <2> QED BY <2>5, <2>6
<1>5. \A n \in N : n + 1 \in N
  <2> HIDE DEF Good
  <2>1. SUFFICES ASSUME NEW n \in N PROVE n + 1 \in N
    OBVIOUS
  <2>2. n \in Nat
    OBVIOUS
  <2> QED BY <1>4, <2>1, <2>2
<1>6. N = Nat
  <2>1. N \in SUBSET Nat
    OBVIOUS
  <2> HIDE DEF N
  <2> QED BY <1>3, <1>5, <2>1, SetInduction
<1>7. Good(L)
  <2>1. L \in N
    <3> HIDE DEF N
    <3> QED BY <1>1, <1>6
  <2> HIDE DEF Good
  <2> QED BY <1>1, <2>1
<1>8. {vs[k] : k \in 1 .. L} = Range(vs)
  <2>1. DOMAIN vs = 1 .. L
    BY DEF L
  <2> QED BY <2>1 DEF Range
<1>9. Unique(vs) = u[L]
  BY DEF Unique, u, L
<1> QED BY <1>7, <1>8, <1>9

-----------------------------------------------------------------------------
(* The vote loop. *)

\* Evidence that can be submitted is typed.
LEMMA EvidenceType ==
  ASSUME NEW e \in Evidence
  PROVE  /\ e \in EvidenceArrays
         /\ e.signers \in Seq(Verifier) /\ e.verdicts \in Seq(BOOLEAN)
         /\ Len(e.signers) \in Nat /\ DOMAIN e.signers = 1 .. Len(e.signers)
         /\ ParallelArrays(e) => \A k \in DOMAIN e.signers :
              e.signers[k] \in Verifier /\ e.verdicts[k] \in BOOLEAN
BY InputAssumption DEF EvidenceArrays, ParallelArrays

\* A signer with a valid vote has a counted one no later.
LEMMA FirstOfSigner ==
  ASSUME NEW cfg, NEW a, NEW c, NEW e \in Evidence, NEW j \in ValidVotes(cfg, a, c, e)
  PROVE  \E k \in CountedVotes(cfg, a, c, e) : k <= j /\ e.signers[k] = e.signers[j]
<1> DEFINE valid == ValidVotes(cfg, a, c, e)
           T == {k \in valid : e.signers[k] = e.signers[j]}
<1>1. valid \subseteq Nat
  BY EvidenceType DEF ValidVotes
<1> HIDE DEF valid
<1>2. T \in SUBSET Nat /\ T # {} /\ j \in T
  BY <1>1 DEF valid
<1>3. PICK k \in T : \A m \in T : k <= m
  <2> HIDE DEF T
  <2> QED BY <1>2, LeastElement
<1>4. ASSUME NEW m \in valid, m < k PROVE e.signers[m] # e.signers[k]
  BY <1>1, <1>3, <1>4
<1>5. k \in CountedVotes(cfg, a, c, e)
  BY <1>3, <1>4 DEF CountedVotes, valid
<1> QED BY <1>2, <1>3, <1>5

\* The loop's three tests at an entry are what makes it a counted one.
LEMMA CountedNext ==
  ASSUME NEW cfg, NEW a, NEW c, NEW e \in Evidence, NEW i \in DOMAIN e.signers,
         NEW n, n = i - 1
  PROVE  i \in CountedVotes(cfg, a, c, e) <=>
           /\ e.signers[i] \in Range(cfg.verifiers)
           /\ VerifySignature(Message(a, c, e.verdicts[i], e.details[i]),
                              e.signatures[i], e.signers[i])
           /\ e.signers[i] \notin
                {e.signers[k] : k \in {m \in CountedVotes(cfg, a, c, e) : m <= n}}
<1> DEFINE valid == ValidVotes(cfg, a, c, e)
           counted == CountedVotes(cfg, a, c, e)
<1>1. /\ i \in valid <=>
           /\ e.signers[i] \in Range(cfg.verifiers)
           /\ VerifySignature(Message(a, c, e.verdicts[i], e.details[i]),
                              e.signatures[i], e.signers[i])
  BY DEF ValidVotes
<1>2. /\ valid \subseteq 1 .. Len(e.signers) /\ Len(e.signers) \in Nat
      /\ i \in 1 .. Len(e.signers)
  BY EvidenceType DEF ValidVotes
<1>3. counted = {k \in valid : \A j \in valid : j < k => e.signers[j] # e.signers[k]}
  BY DEF CountedVotes
<1>4. \A j \in valid : \E k \in counted : k <= j /\ e.signers[k] = e.signers[j]
  BY FirstOfSigner
<1> HIDE DEF valid, counted
<1>5. ASSUME i \in counted
      PROVE  e.signers[i] \notin {e.signers[k] : k \in {m \in counted : m <= n}}
  <2> SUFFICES ASSUME NEW k \in counted, k <= n, e.signers[i] = e.signers[k] PROVE FALSE
    OBVIOUS
  <2>1. k \in valid /\ k < i
    BY <1>2, <1>3
  <2> QED BY <1>3, <1>5, <2>1
<1>6. ASSUME i \in valid, i \notin counted
      PROVE  e.signers[i] \in {e.signers[k] : k \in {m \in counted : m <= n}}
  <2>1. PICK j \in valid : j < i /\ e.signers[j] = e.signers[i]
    BY <1>3, <1>6
  <2>2. PICK k \in counted : k <= j /\ e.signers[k] = e.signers[j]
    BY <1>4
  <2>3. k <= n
    BY <1>2, <1>3, <2>1, <2>2
  <2> QED BY <2>1, <2>2, <2>3
<1>7. i \in counted => i \in valid
  BY <1>3
<1> QED BY <1>1, <1>5, <1>6, <1>7 DEF counted

\* What a call has collected when it has examined one more entry.
LEMMA ExaminedKnows ==
  ASSUME call \in Calls, Admitted(call), NEW i, i = call.i,
         i <= Len(call.evidence.signers), NEW n, n = i - 1, VotesKnown(call, n),
         NEW m, m = Examined(call)
  PROVE  /\ m \in Calls
         /\ m.asset = call.asset /\ m.cycle = call.cycle /\ m.evidence = call.evidence
         /\ m.paid = call.paid /\ m.pc = call.pc /\ m.i = i /\ m.pool = call.pool
         /\ VotesKnown(m, i)
<1> DEFINE e == call.evidence
           a == call.asset
           c == call.cycle
           cfg == assets[a]
           counted == CountedVotes(cfg, a, c, e)
           signer == e.signers[i]
           verdict == e.verdicts[i]
<1>1. e \in Evidence /\ i \in Nat /\ i > 0
  BY DEF Calls
<1>2. /\ i \in DOMAIN e.signers /\ signer \in Verifier /\ verdict \in BOOLEAN
  BY <1>1, EvidenceType DEF Admitted
<1>3. Range(call.seen) = {e.signers[k] : k \in {k \in counted : k <= n}}
  BY DEF VotesKnown, CountedUpTo, Counted
<1>4. counted \subseteq 1 .. Len(e.signers) /\ Len(e.signers) \in Nat
  BY <1>1, EvidenceType DEF CountedVotes, ValidVotes
<1> DEFINE Passes == /\ signer \in Range(cfg.verifiers)
                     /\ VerifySignature(Message(a, c, verdict, e.details[i]),
                                        e.signatures[i], signer)
                     /\ signer \notin Range(call.seen)
<1>5. i \in counted <=> Passes
  BY <1>1, <1>2, <1>3, CountedNext
<1>6. m = IF ~Passes THEN call
          ELSE [call EXCEPT !.seen = Append(@, signer),
                            !.votes = Append(@, <<signer, verdict>>),
                            !.yes = IF verdict THEN Append(@, i) ELSE @]
  BY DEF Examined, Rules
<1>7. \A k \in counted : k <= i <=> (k <= n \/ k = i)
  BY <1>1, <1>4
<1>8. CASE ~Passes
  <2>1. m = call
    BY <1>6, <1>8
  <2>2. CountedUpTo(m, i) = CountedUpTo(call, n)
    <3>1. \A k \in counted : k <= i <=> k <= n
      BY <1>5, <1>7, <1>8
    <3> QED BY <2>1, <3>1 DEF CountedUpTo, Counted
  <2>3. VotesKnown(m, i)
    BY <2>1, <2>2 DEF VotesKnown, YesUpTo
  <2> QED BY <2>1, <2>3
<1>9. CASE Passes
  <2> DEFINE seen == Append(call.seen, signer)
             votes == Append(call.votes, <<signer, verdict>>)
             yes == IF verdict THEN Append(call.yes, i) ELSE call.yes
  <2>1. m = [call EXCEPT !.seen = seen, !.votes = votes, !.yes = yes]
    BY <1>6, <1>9
  <2>2. /\ call.seen \in Seq(Verifier) /\ call.votes \in Seq(Verifier \X BOOLEAN)
        /\ call.yes \in Seq(Nat)
    BY DEF Calls
  <2>3. seen \in Seq(Verifier) /\ Range(seen) = Range(call.seen) \cup {signer}
    BY <1>2, <2>2, Pushed
  <2>4. /\ votes \in Seq(Verifier \X BOOLEAN)
        /\ Range(votes) = Range(call.votes) \cup {<<signer, verdict>>}
    <3>1. <<signer, verdict>> \in Verifier \X BOOLEAN
      BY <1>2
    <3> DEFINE x == <<signer, verdict>>
               S == Verifier \X BOOLEAN
               s == call.votes
    <3>2. x \in S /\ s \in Seq(S)
      BY <2>2, <3>1
    <3> HIDE DEF x, S, s
    <3>3. Append(s, x) \in Seq(S) /\ Range(Append(s, x)) = Range(s) \cup {x}
      BY <3>2, Pushed
    <3> QED BY <3>3 DEF x, S, s
  <2>5. /\ yes \in Seq(Nat)
        /\ Range(yes) = Range(call.yes) \cup (IF verdict THEN {i} ELSE {})
        /\ Len(yes) = Len(call.yes) + (IF verdict THEN 1 ELSE 0)
    <3>1. CASE verdict
      <4> DEFINE s == call.yes
      <4>1. s \in Seq(Nat) /\ i \in Nat
        BY <1>1, <2>2
      <4>2. yes = Append(s, i)
        BY <3>1
      <4> HIDE DEF s, yes, verdict
      <4>3. /\ Append(s, i) \in Seq(Nat) /\ Range(Append(s, i)) = Range(s) \cup {i}
            /\ Len(Append(s, i)) = Len(s) + 1
        BY <4>1, Pushed
      <4> QED BY <3>1, <4>2, <4>3 DEF s
    <3>2. CASE ~verdict
      <4>1. Len(call.yes) \in Nat
        BY <2>2
      <4> QED BY <2>2, <3>2, <4>1
    <3> QED BY <3>1, <3>2
  <2> HIDE DEF seen, votes, yes
  <2>6. m \in Calls
    BY <2>1, <2>3, <2>4, <2>5 DEF Calls
  <2>7. /\ m.seen = seen /\ m.votes = votes /\ m.yes = yes
        /\ m.evidence = e /\ m.asset = a /\ m.cycle = c
        /\ m.paid = call.paid /\ m.pc = call.pc /\ m.i = i /\ m.pool = call.pool
    BY <2>1 DEF Calls
  <2>8. CountedUpTo(m, i) = CountedUpTo(call, n) \cup {i} /\ i \notin CountedUpTo(call, n)
    <3>1. i \in counted
      BY <1>5, <1>9
    <3>2. ~(i <= n)
      BY <1>1
    <3>3. CountedUpTo(m, i) = {k \in counted : k <= i}
      BY <2>7 DEF CountedUpTo, Counted
    <3>4. CountedUpTo(call, n) = {k \in counted : k <= n}
      BY DEF CountedUpTo, Counted
    <3> HIDE DEF counted
    <3>5. i <= i
      BY <1>1
    <3> QED BY <1>7, <3>1, <3>2, <3>3, <3>4, <3>5
  <2>9. YesUpTo(m, i) = YesUpTo(call, n) \cup (IF verdict THEN {i} ELSE {})
    BY <2>7, <2>8 DEF YesUpTo
  <2>10. IsFiniteSet(YesUpTo(call, n)) /\ i \notin YesUpTo(call, n)
    <3>1. YesUpTo(call, n) \in SUBSET (1 .. Len(e.signers))
      BY <1>4 DEF YesUpTo, CountedUpTo, Counted
    <3>2. IsFiniteSet(1 .. Len(e.signers))
      BY <1>4, FS_Interval
    <3>3. IsFiniteSet(YesUpTo(call, n))
      BY <3>1, <3>2, FS_Subset
    <3> QED BY <3>3, <2>8 DEF YesUpTo
  <2>11. Cardinality(YesUpTo(m, i)) =
           Cardinality(YesUpTo(call, n)) + (IF verdict THEN 1 ELSE 0)
    <3>1. CASE verdict
      <4>1. YesUpTo(m, i) = YesUpTo(call, n) \cup {i}
        BY <2>9, <3>1
      <4>2. Cardinality(YesUpTo(call, n) \cup {i}) = Cardinality(YesUpTo(call, n)) + 1
        BY <2>10, FS_AddElement
      <4> QED BY <3>1, <4>1, <4>2
    <3>2. CASE ~verdict
      <4>1. YesUpTo(m, i) = YesUpTo(call, n)
        BY <2>9, <3>2
      <4>2. Cardinality(YesUpTo(call, n)) \in Nat
        BY <2>10, FS_CardinalityType
      <4> QED BY <3>2, <4>1, <4>2
    <3> QED BY <3>1, <3>2
  <2>12. /\ Range(m.seen) = {e.signers[k] : k \in CountedUpTo(m, i)}
         /\ Range(m.votes) = {<<e.signers[k], e.verdicts[k]>> : k \in CountedUpTo(m, i)}
    <3>1. /\ Range(call.seen) = {e.signers[k] : k \in CountedUpTo(call, n)}
          /\ Range(call.votes) = {<<e.signers[k], e.verdicts[k]>> : k \in CountedUpTo(call, n)}
      BY DEF VotesKnown
    <3> QED BY <2>3, <2>4, <2>7, <2>8, <3>1
  <2>13. /\ Range(m.yes) = YesUpTo(m, i)
         /\ Len(m.yes) = Cardinality(YesUpTo(m, i))
    <3>1. Range(call.yes) = YesUpTo(call, n) /\ Len(call.yes) = Cardinality(YesUpTo(call, n))
      BY DEF VotesKnown
    <3> QED BY <2>5, <2>7, <2>9, <2>11, <3>1
  <2>14. VotesKnown(m, i)
    BY <2>7, <2>12, <2>13 DEF VotesKnown
  <2> QED BY <2>6, <2>7, <2>14
<1> QED BY <1>8, <1>9

-----------------------------------------------------------------------------
(* How the steps write the record of a call. *)

\* A call after a step that moves its program counter, its index or its sums.
Updated(l, pc, i, pool, paid) ==
  [l EXCEPT !.pc = pc, !.i = i, !.pool = pool, !.paid = paid]

\* Where such a step leaves a call, and what it leaves alone.
At(m, pc, i, pool, paid) ==
  m.pc = pc /\ m.i = i /\ m.pool = pool /\ m.paid = paid
SameCall(l, m) ==
  /\ m.asset = l.asset /\ m.cycle = l.cycle /\ m.evidence = l.evidence
  /\ m.seen = l.seen /\ m.votes = l.votes /\ m.yes = l.yes

\* It is a call, and the same in all other respects.
LEMMA CallUpdate ==
  ASSUME NEW l \in Calls, NEW pc \in {"checks", "votes", "pay", "score"},
         NEW i \in Nat \ {0}, NEW pool \in Nat, NEW paid \in Nat
  PROVE  /\ Updated(l, pc, i, pool, paid) \in Calls
         /\ SameCall(l, Updated(l, pc, i, pool, paid))
         /\ At(Updated(l, pc, i, pool, paid), pc, i, pool, paid)
<1> DEFINE VS == Seq(Verifier)
           VB == Seq(Verifier \X BOOLEAN)
           NS == Seq(Nat)
           PC == {"checks", "votes", "pay", "score"}
<1>1. Calls = [pc : PC, asset : Asset, cycle : Cycle,
               evidence : Evidence, i : Nat \ {0}, seen : VS, votes : VB, yes : NS,
               pool : Nat, paid : Nat, snapshot : Snapshots, unscored : VS]
  BY DEF Calls
<1>2. pc \in PC
  OBVIOUS
<1> HIDE DEF VS, VB, NS, PC
<1> QED BY <1>1, <1>2 DEF Updated, SameCall, At

\* The forms in which VaultExec writes such a step: to the pay loop,
LEMMA CallPays ==
  ASSUME NEW l \in Calls, NEW pc, NEW i, NEW pool
  PROVE  [l EXCEPT !.pc = pc, !.i = i, !.pool = pool] = Updated(l, pc, i, pool, l.paid)
BY DEF Calls, Updated

\* to another loop,
LEMMA CallMoves ==
  ASSUME NEW l \in Calls, NEW pc, NEW i
  PROVE  [l EXCEPT !.pc = pc, !.i = i] = Updated(l, pc, i, l.pool, l.paid)
BY DEF Calls, Updated

\* past a holder who is paid,
LEMMA CallAdds ==
  ASSUME NEW l \in Calls, NEW i, NEW paid
  PROVE  [l EXCEPT !.i = i, !.paid = paid] = Updated(l, l.pc, i, l.pool, paid)
BY DEF Calls, Updated

\* and past any other entry.
LEMMA CallAdvances ==
  ASSUME NEW l \in Calls, NEW i
  PROVE  [l EXCEPT !.i = i] = Updated(l, l.pc, i, l.pool, l.paid)
BY DEF Calls, Updated

\* A call's sums and index are numbers.
LEMMA CallNumbers ==
  ASSUME NEW l \in Calls
  PROVE  /\ l.i \in Nat \ {0} /\ l.pool \in Nat /\ l.paid \in Nat
         /\ l.pc \in {"checks", "votes", "pay", "score"}
         /\ l.i + 1 \in Nat \ {0} /\ Len(l.yes) \in Nat
         /\ l.asset \in Asset /\ l.cycle \in Cycle /\ l.evidence \in Evidence
         /\ Len(l.evidence.signers) \in Nat
BY EvidenceType DEF Calls

-----------------------------------------------------------------------------
(* What the loops know at their first and last turns. *)

\* The pay loop's sums are those of ServicerVault, holder by holder.
LEMMA ShareSums ==
  ASSUME NEW cfg \in Configs, NEW pool \in Nat, NEW h, TotalWeight(cfg) > 0
  PROVE  /\ \A k \in DOMAIN cfg.holders : Shares(cfg, pool)[k] \in Nat
         /\ Accumulates(PrefixSum(Shares(cfg, pool)), Shares(cfg, pool), Len(cfg.holders))
         /\ DueTo(cfg, pool, h) \in Seq(Nat)
         /\ Len(DueTo(cfg, pool, h)) = Len(cfg.holders)
         /\ Accumulates(PrefixSum(DueTo(cfg, pool, h)), DueTo(cfg, pool, h),
                        Len(cfg.holders))
<1> DEFINE s == Shares(cfg, pool)
           n == Len(cfg.holders)
           t == DueTo(cfg, pool, h)
<1>1. n \in Nat /\ DOMAIN cfg.holders = 1 .. n
  BY DEF Configs
<1>2. s \in Seq(Nat) /\ DOMAIN s = 1 .. n
  BY <1>1, PaidBounds
<1> HIDE DEF s, n
<1>3. Len(s) = n /\ \A k \in 1 .. n : s[k] \in Nat
  BY <1>1, <1>2
<1>4. t \in [1 .. n -> Nat]
  BY <1>1, <1>3 DEF s, DueTo
<1> HIDE DEF t
<1>5. t \in Seq(Nat) /\ Len(t) = n
  BY <1>1, <1>4
<1>6. Accumulates(PrefixSum(s), s, n) /\ Accumulates(PrefixSum(t), t, n)
  BY <1>2, <1>3, <1>5, PrefixSumAccumulates
<1> QED BY <1>1, <1>3, <1>5, <1>6 DEF s, n, t

\* For a call: what has been paid at its first turn, and what one more turn
\* adds.
LEMMA PayStart ==
  ASSUME TypeInv, NEW l, assets[l.asset] \in Configs, TotalWeight(assets[l.asset]) > 0,
         pools[l.asset] \in Nat, l.paid = 0
  PROVE  PaidUpTo(l, 0) /\ BalanceAt(l, 0) = balance
<1> DEFINE n == Len(assets[l.asset].holders)
<1>1. n \in Nat
  BY DEF Configs
<1>2. /\ Accumulates(PrefixSum(SharesOf(l)), SharesOf(l), n)
      /\ \A h : Accumulates(PrefixSum(Due(l, h)), Due(l, h), n)
  BY ShareSums DEF SharesOf, Due
<1>3. PrefixSum(SharesOf(l))[0] = 0 /\ \A h : PrefixSum(Due(l, h))[0] = 0
  BY <1>2 DEF Accumulates
<1>4. purse \in Nat /\ balance \in [Holder -> Nat]
  BY DEF TypeInv, TypeOK
<1>5. PaidUpTo(l, 0)
  BY <1>3, <1>4 DEF PaidUpTo
<1>6. \A h \in Holder : balance[h] + PrefixSum(Due(l, h))[0] = balance[h]
  BY <1>3, <1>4
<1>7. BalanceAt(l, 0) = balance
  BY <1>4, <1>6 DEF BalanceAt
<1> QED BY <1>5, <1>7

\* At its end the vote loop has counted what ServicerVault counts.
LEMMA AllCounted ==
  ASSUME NEW l \in Calls
  PROVE  /\ CountedUpTo(l, Len(l.evidence.signers)) = Counted(l)
         /\ YesUpTo(l, Len(l.evidence.signers)) =
              YesVotes(assets[l.asset], l.asset, l.cycle, l.evidence)
<1> DEFINE n == Len(l.evidence.signers)
<1>1. l.evidence \in Evidence
  BY DEF Calls
<1>2. \A k \in Counted(l) : k \in 1 .. n /\ n \in Nat
  BY <1>1, EvidenceType DEF Counted, CountedVotes, ValidVotes
<1>3. \A k \in Counted(l) : k <= n
  <2> HIDE DEF n
  <2> QED BY <1>2
<1>4. CountedUpTo(l, n) = Counted(l)
  <2> HIDE DEF n
  <2> QED BY <1>3 DEF CountedUpTo
<1> QED BY <1>4 DEF YesUpTo, YesVotes, Counted

\* Before its first turn it has counted nothing.
LEMMA NoneCounted ==
  ASSUME NEW l \in Calls, l.seen = <<>>, l.votes = <<>>, l.yes = <<>>
  PROVE  VotesKnown(l, 0)
<1>1. l.evidence \in Evidence
  BY DEF Calls
<1>2. \A k \in Counted(l) : k \in 1 .. Len(l.evidence.signers) /\ Len(l.evidence.signers) \in Nat
  BY <1>1, EvidenceType DEF Counted, CountedVotes, ValidVotes
<1>3. \A k \in Counted(l) : ~(k <= 0)
  BY <1>2
<1>4. CountedUpTo(l, 0) = {} /\ YesUpTo(l, 0) = {}
  BY <1>3 DEF CountedUpTo, YesUpTo
<1>5. Range(<<>>) = {} /\ Len(<<>>) = 0 /\ Cardinality({}) = 0
  BY FS_EmptySet DEF Range
<1> QED BY <1>4, <1>5 DEF VotesKnown

\* What is known of the votes depends on nothing else in the call.
LEMMA SameVotes ==
  ASSUME NEW l, NEW m, NEW n, VotesKnown(l, n),
         SameCall(l, m)
  PROVE  VotesKnown(m, n)
BY DEF SameCall, VotesKnown, YesUpTo, CountedUpTo, Counted

-----------------------------------------------------------------------------
(* The steps up to the pay loop. *)

\* What a step of a call must leave: a call that goes on knows what it must,
\* and one that ends tells why.
Follows ==
  /\ CallOK(call', journal')
  /\ call'.pc = "none" \/ call'.evidence = call.evidence
  /\ call'.pc = "none" /\ call'.result # "TransferFailed" =>
       call'.result = DistributeError(call.asset, call.cycle, call.evidence)

\* A revert does if its reason is the right one.
LEMMA RevertFollows ==
  ASSUME NEW r, Revert(r),
         r # "TransferFailed" => r = DistributeError(call.asset, call.cycle, call.evidence)
  PROVE  Follows
BY DEF Revert, NoCall, Follows, CallOK

\* distribute is entered with nothing collected, and untouched storage.
LEMMA EnterStep ==
  ASSUME NEW a \in Asset, NEW c \in Cycle, NEW e \in Evidence, Enter(a, c, e)
  PROVE  CallOK(call', journal') /\ Submittable(call')
<1>1. call' = [pc |-> "checks", asset |-> a, cycle |-> c, evidence |-> e, i |-> 1,
               seen |-> <<>>, votes |-> <<>>, yes |-> <<>>, pool |-> 0, paid |-> 0,
               snapshot |-> <<>>, unscored |-> <<>>]
  BY DEF Enter
<1>2. call' \in Calls
  <2> DEFINE Scored1 == [signer : Verifier, score : Scores]
             Vote == Verifier \X BOOLEAN
  <2> HIDE DEF Scored1, Vote
  <2>1. <<>> \in Seq(Verifier) /\ <<>> \in Seq(Vote) /\ <<>> \in Seq(Nat) /\ <<>> \in Seq(Scored1)
    OBVIOUS
  <2> QED BY <1>1, <2>1 DEF Calls, Snapshots, Scored1, Vote
<1>3. AtChecks(call', journal')
  BY <1>1 DEF Enter, AtChecks
<1>4. Submittable(call')
  BY <1>1 DEF Submittable, Enter
<1> QED BY <1>1, <1>2, <1>3, <1>4 DEF CallOK

\* Past the first tests the vote loop has been through no entry yet.
LEMMA ChecksStep ==
  ASSUME Checks, call \in Calls, AtChecks(call, journal)
  PROVE  Follows
<1> DEFINE a == call.asset
           c == call.cycle
           e == call.evidence
<1>1. CASE ~ParallelArrays(e) /\ Revert("EvidenceArityMismatch")
  BY <1>1, RevertFollows DEF DistributeError
<1>2. CASE ParallelArrays(e) /\ Rules = None /\ Revert("AssetNotFound")
  BY <1>2, RevertFollows DEF DistributeError, Rules
<1>3. CASE /\ ParallelArrays(e) /\ Rules # None /\ AlreadyDistributed(a, c)
           /\ Revert("AlreadyDistributed")
  BY <1>3, RevertFollows DEF DistributeError, Rules
<1>4. CASE /\ ParallelArrays(e) /\ Rules # None /\ ~AlreadyDistributed(a, c)
           /\ Goto("votes") /\ UNCHANGED <<vars, journal>>
  <2>1. call' = [call EXCEPT !.pc = "votes", !.i = 1] /\ journal' = journal
    BY <1>4 DEF Goto
  <2>2. /\ call' \in Calls /\ SameCall(call, call')
        /\ At(call', "votes", 1, call.pool, call.paid)
    <3>1. call' = Updated(call, "votes", 1, call.pool, call.paid)
      BY <2>1, CallMoves
    <3>2. 1 \in Nat \ {0} /\ "votes" \in {"checks", "votes", "pay", "score"}
      OBVIOUS
    <3> QED BY <3>1, <3>2, CallUpdate, CallNumbers
  <2>3. VotesKnown(call', 0)
    BY <2>2, NoneCounted DEF AtChecks, SameCall
  <2>4. Admitted(call')
    BY <1>4, <2>2 DEF Admitted, Rules, SameCall
  <2>5. Len(e.signers) \in Nat
    BY EvidenceType DEF Calls
  <2>6. AtVotes(call', journal')
    <3>1. call'.i <= Len(call'.evidence.signers) + 1 /\ call'.i - 1 = 0
      BY <2>2, <2>5 DEF SameCall, At
    <3>2. VotesKnown(call', call'.i - 1)
      BY <2>3, <3>1
    <3> QED BY <2>1, <2>2, <2>4, <3>1, <3>2 DEF AtVotes, AtChecks, At
  <2> QED BY <2>2, <2>6 DEF Follows, CallOK, SameCall, At
<1> QED BY <1>1, <1>2, <1>3, <1>4 DEF Checks

\* A turn of the vote loop examines one more entry.
LEMMA CountVoteStep ==
  ASSUME CountVote, call \in Calls, AtVotes(call, journal)
  PROVE  Follows
<1> DEFINE m == Examined(call)
           i == call.i
<1>1. /\ call.pc = "votes" /\ i <= Len(call.evidence.signers)
      /\ call' = [m EXCEPT !.i = @ + 1] /\ journal' = journal
      /\ i \in Nat /\ i > 0
  BY DEF CountVote, Running, Calls
<1>2. /\ m \in Calls /\ VotesKnown(m, i)
      /\ m.asset = call.asset /\ m.cycle = call.cycle /\ m.evidence = call.evidence
      /\ m.paid = call.paid /\ m.pc = call.pc /\ m.i = i /\ m.pool = call.pool
  <2>1. VotesKnown(call, i - 1) /\ Admitted(call)
    BY DEF AtVotes
  <2>2. i = call.i /\ m = Examined(call)
    OBVIOUS
  <2> HIDE DEF m, i
  <2> QED BY <1>1, <2>1, <2>2, ExaminedKnows
<1> HIDE DEF m
<1>3. call' = [m EXCEPT !.i = i + 1] /\ i + 1 \in Nat \ {0}
  BY <1>1, <1>2
<1>4. /\ call' \in Calls /\ SameCall(m, call')
      /\ At(call', "votes", i + 1, m.pool, m.paid)
  <2>1. call' = Updated(m, m.pc, i + 1, m.pool, m.paid)
    <3> HIDE DEF i
    <3> QED BY <1>2, <1>3, CallAdvances
  <2>2. m.pc = "votes" /\ m.pc \in {"checks", "votes", "pay", "score"}
    BY <1>1, <1>2
  <2>3. m \in Calls /\ m.pool \in Nat /\ m.paid \in Nat
    BY <1>2, CallNumbers
  <2>4. call' = Updated(m, "votes", i + 1, m.pool, m.paid)
    BY <2>1, <2>2
  <2>5. "votes" \in {"checks", "votes", "pay", "score"}
    OBVIOUS
  <2> DEFINE k == i + 1
  <2>6. k \in Nat \ {0} /\ call' = Updated(m, "votes", k, m.pool, m.paid)
    BY <1>3, <2>4
  <2> HIDE DEF k
  <2>7. /\ call' \in Calls /\ SameCall(m, call')
        /\ At(call', "votes", k, m.pool, m.paid)
    BY <2>3, <2>5, <2>6, CallUpdate
  <2> QED BY <2>7 DEF k
<1>5. VotesKnown(call', i)
  BY <1>2, <1>4, SameVotes
<1>6. Len(call.evidence.signers) \in Nat
  BY EvidenceType DEF Calls
<1>7. call'.i <= Len(call'.evidence.signers) + 1 /\ call'.i - 1 = i
  BY <1>1, <1>2, <1>4, <1>6 DEF SameCall, At
<1>8. Admitted(call')
  BY <1>2, <1>4 DEF Admitted, AtVotes, SameCall
<1>9. AtVotes(call', journal')
  BY <1>1, <1>2, <1>4, <1>5, <1>7, <1>8 DEF AtVotes, SameCall, At
<1> QED BY <1>2, <1>4, <1>9 DEF Follows, CallOK, SameCall, At

\* The rules and the pool of an asset that passed the first tests.
LEMMA AdmittedFacts ==
  ASSUME TypeInv, NEW l \in Calls, Admitted(l)
  PROVE  /\ assets[l.asset] \in Configs /\ TotalWeight(assets[l.asset]) > 0
         /\ assets[l.asset].quorum \in Nat /\ pools[l.asset] \in Nat
         /\ Len(assets[l.asset].holders) \in Nat
         /\ assets[l.asset].verifiers \in Seq(Verifier)
<1> DEFINE a == l.asset
<1>1. a \in Asset
  BY DEF Calls
<1> HIDE DEF a
<1>2. assets[a] # None
  BY DEF Admitted, a
<1>3. assets[a] \in Configs /\ TotalWeight(assets[a]) > 0 /\ pools[a] \in Nat
  BY <1>1, <1>2 DEF TypeInv, TypeOK, RulesValid
<1> QED BY <1>3 DEF Configs, a

\* After the vote loop: QuorumNotMet or InsufficientPool as ServicerVault has
\* it, or on to the holders with nothing paid.
LEMMA TallyStep ==
  ASSUME TypeInv, Tally, call \in Calls, AtVotes(call, journal)
  PROVE  Follows
<1> DEFINE a == call.asset
           c == call.cycle
           e == call.evidence
           n == Len(e.signers)
           i == call.i
<1>1. /\ n \in Nat /\ i \in Nat /\ i > 0 /\ i <= n + 1 /\ i > n
      /\ Admitted(call) /\ journal = storage /\ call.paid = 0
  BY EvidenceType DEF Calls, AtVotes, Tally
<1>2. VotesKnown(call, n)
  <2>1. i - 1 = n
    BY <1>1
  <2> HIDE DEF n, i
  <2> QED BY <2>1 DEF AtVotes, i
<1>3. Len(call.yes) = Cardinality(YesVotes(assets[a], a, c, e))
  BY <1>2, AllCounted DEF VotesKnown
<1>4. /\ assets[a] \in Configs /\ TotalWeight(assets[a]) > 0
      /\ assets[a].quorum \in Nat /\ pools[a] \in Nat /\ Len(assets[a].holders) \in Nat
  BY <1>1, AdmittedFacts
<1>5. Pool = pools[a]
  BY <1>1 DEF Pool, storage
<1>6. CASE PayoutError(call) # "ok" /\ Revert(PayoutError(call))
  <2>1. PayoutError(call) = DistributeError(a, c, e)
    BY <1>1, <1>3, <1>5, <1>6 DEF PayoutError, DistributeError, Admitted, Rules
  <2> QED BY <1>6, <2>1, RevertFollows
<1>7. CASE /\ PayoutError(call) = "ok"
           /\ call' = [call EXCEPT !.pc = "pay", !.i = 1, !.pool = Pool]
           /\ UNCHANGED <<vars, journal>>
  <2>1. ~(Len(call.yes) < assets[a].quorum) /\ pools[a] # 0
    BY <1>5, <1>7 DEF PayoutError, Rules
  <2>2. /\ call' \in Calls /\ SameCall(call, call')
        /\ At(call', "pay", 1, pools[a], 0) /\ journal' = storage
    <3> DEFINE p == pools[a]
    <3>1. call' = [call EXCEPT !.pc = "pay", !.i = 1, !.pool = p] /\ p \in Nat
      BY <1>4, <1>5, <1>7
    <3>2. journal' = storage /\ call.paid = 0
      BY <1>1, <1>7
    <3> HIDE DEF p
    <3>3. call' = Updated(call, "pay", 1, p, call.paid)
      BY <3>1, CallPays
    <3>4. 1 \in Nat \ {0} /\ "pay" \in {"checks", "votes", "pay", "score"}
      OBVIOUS
    <3>5. /\ call' \in Calls /\ SameCall(call, call')
          /\ At(call', "pay", 1, p, call.paid)
      <4>1. call.paid \in Nat
        BY CallNumbers
      <4> QED BY <3>1, <3>3, <3>4, <4>1, CallUpdate
    <3> QED BY <3>2, <3>5 DEF p
  <2>3. Payable(call')
    <3>1. VotesKnown(call', n)
      BY <1>2, <2>2, SameVotes
    <3>2. Admitted(call')
      BY <1>1, <2>2 DEF Admitted, SameCall
    <3>3. Len(call.yes) \in Nat
      BY DEF Calls
    <3> QED BY <1>4, <2>1, <2>2, <3>1, <3>2, <3>3 DEF Payable, SameCall, At
  <2>4. PaidUpTo(call', 0) /\ BalanceAt(call', 0) = balance
    BY <1>4, <2>2, <2>3, PayStart DEF SameCall, At
  <2>5. AtPay(call', journal')
    <3>1. call'.i <= Len(assets[call'.asset].holders) + 1 /\ call'.i - 1 = 0
      BY <1>4, <2>2 DEF SameCall, At
    <3>2. purse - call'.paid = purse
      BY <2>2 DEF At, TypeInv, TypeOK
    <3>3. storage = Journal(pools, distributed, verifierRegistry,
                            purse - call'.paid, balance)
      BY <3>2 DEF storage, Journal
    <3>4. PaidUpTo(call', call'.i - 1) /\ BalanceAt(call', call'.i - 1) = balance
      BY <2>4, <3>1
    <3> QED BY <2>2, <2>3, <3>1, <3>3, <3>4 DEF AtPay
  <2> QED BY <2>2, <2>5 DEF Follows, CallOK, SameCall, At
<1> QED BY <1>6, <1>7 DEF Tally

-----------------------------------------------------------------------------
(* The turns of the pay loop. *)

\* What a turn adds to the total and to each balance.
LEMMA PayEntry ==
  ASSUME TypeInv, NEW l \in Calls, Admitted(l),
         NEW i \in 1 .. Len(assets[l.asset].holders), NEW k, k = i - 1
  PROVE  /\ SharesOf(l)[i] \in Nat /\ PrefixSum(SharesOf(l))[k] \in Nat
         /\ PrefixSum(SharesOf(l))[i] = PrefixSum(SharesOf(l))[k] + SharesOf(l)[i]
         /\ assets[l.asset].holders[i].to \in Holder
         /\ \A h \in Holder :
              /\ BalanceAt(l, k)[h] \in Nat
              /\ BalanceAt(l, i)[h] = BalanceAt(l, k)[h]
                   + IF assets[l.asset].holders[i].to = h THEN SharesOf(l)[i] ELSE 0
<1> DEFINE cfg == assets[l.asset]
           pool == pools[l.asset]
           n == Len(cfg.holders)
           s == Shares(cfg, pool)
<1>1. cfg \in Configs /\ TotalWeight(cfg) > 0 /\ pool \in Nat /\ n \in Nat
  BY AdmittedFacts
<1>2. DOMAIN cfg.holders = 1 .. n /\ cfg.holders[i].to \in Holder
  <2> DEFINE R == [to : Holder, weight : Weights]
             hs == cfg.holders
  <2>1. hs \in Seq(R) /\ i \in 1 .. Len(hs)
    BY <1>1 DEF Configs
  <2> HIDE DEF R, hs
  <2>2. DOMAIN hs = 1 .. Len(hs) /\ hs[i] \in R
    BY <2>1
  <2>3. hs[i].to \in Holder
    BY <2>2 DEF R
  <2> QED BY <2>2, <2>3 DEF hs
<1>3. s = SharesOf(l)
  BY DEF SharesOf
<1> HIDE DEF cfg, pool, n, s
<1>4. k \in 0 .. n /\ i \in 0 .. n /\ i \in 1 .. n
  BY <1>1 DEF n, cfg
<1>5. \A j \in 1 .. n : Shares(cfg, pool)[j] \in Nat
  BY <1>1, <1>2, ShareSums
<1>6. /\ s[i] \in Nat /\ PrefixSum(s)[k] \in Nat
      /\ PrefixSum(s)[i] = PrefixSum(s)[k] + s[i]
  <2>1. Accumulates(PrefixSum(s), s, n)
    BY <1>1, ShareSums DEF s, n
  <2> QED BY <1>4, <1>5, <2>1 DEF Accumulates, s
<1>7. ASSUME NEW h \in Holder
      PROVE  /\ BalanceAt(l, k)[h] \in Nat
             /\ BalanceAt(l, i)[h] = BalanceAt(l, k)[h]
                  + IF cfg.holders[i].to = h THEN s[i] ELSE 0
  <2> DEFINE t == DueTo(cfg, pool, h)
             x == IF cfg.holders[i].to = h THEN s[i] ELSE 0
  <2>1. t[i] = x
    BY <1>2, <1>4 DEF DueTo, s
  <2>2. Accumulates(PrefixSum(t), t, n)
    BY <1>1, ShareSums DEF n
  <2>3. balance[h] \in Nat
    BY DEF TypeInv, TypeOK
  <2>4. /\ BalanceAt(l, k)[h] = balance[h] + PrefixSum(t)[k]
        /\ BalanceAt(l, i)[h] = balance[h] + PrefixSum(t)[i]
    BY DEF BalanceAt, Due, cfg, pool
  <2>5. x \in Nat
    BY <1>6
  <2> HIDE DEF t, x
  <2>6. PrefixSum(t)[k] \in Nat /\ PrefixSum(t)[i] = PrefixSum(t)[k] + t[i]
    BY <1>4, <2>2 DEF Accumulates
  <2>7. BalanceAt(l, i)[h] = BalanceAt(l, k)[h] + x /\ BalanceAt(l, k)[h] \in Nat
    BY <2>1, <2>3, <2>4, <2>5, <2>6
  <2> QED BY <2>7 DEF x
<1> QED BY <1>2, <1>3, <1>6, <1>7 DEF cfg

\* The amounts it sums up are those of the pool at the call's start.
LEMMA AmountIsShare ==
  ASSUME TypeInv, call \in Calls, AtPay(call, journal), Paying
  PROVE  /\ Amount = SharesOf(call)[call.i]
         /\ call.i \in 1 .. Len(assets[call.asset].holders)
         /\ call.pc = "pay" /\ Admitted(call)
         /\ Holding.to = assets[call.asset].holders[call.i].to
<1>1. call.i \in 1 .. Len(assets[call.asset].holders) /\ Admitted(call)
  BY DEF Paying, Rules, AtPay, Payable, Calls
<1>2. assets[call.asset] \in Configs
  BY <1>1, AdmittedFacts
<1>3. call.i \in DOMAIN assets[call.asset].holders
  BY <1>1, <1>2 DEF Configs
<1>4. call.pool = pools[call.asset]
  BY DEF AtPay, Payable
<1> QED BY <1>1, <1>3, <1>4 DEF Amount, Holding, Rules, SharesOf, Shares, Paying, Running

\* The rest of the call is as it was.
LEMMA SamePayable ==
  ASSUME NEW l, NEW m, Payable(l), SameCall(l, m), m.pool = l.pool
  PROVE  Payable(m)
<1>1. VotesKnown(m, Len(l.evidence.signers))
  BY SameVotes DEF Payable
<1> QED BY <1>1 DEF Payable, Admitted, SameCall

\* And so are its sums.
LEMMA SameSums ==
  ASSUME NEW l, NEW m, SameCall(l, m)
  PROVE  /\ SharesOf(m) = SharesOf(l)
         /\ \A n : BalanceAt(m, n) = BalanceAt(l, n)
BY DEF SameCall, SharesOf, BalanceAt, Due

\* A holder whose share rounds to nothing changes no sum.
LEMMA SkipHolderStep ==
  ASSUME TypeInv, SkipHolder, call \in Calls, AtPay(call, journal)
  PROVE  Follows
<1> DEFINE i == call.i
           k == i - 1
           j == i + 1
<1>1. /\ SharesOf(call)[i] = 0 /\ i \in 1 .. Len(assets[call.asset].holders)
      /\ call.pc = "pay" /\ Admitted(call)
  BY AmountIsShare DEF SkipHolder
<1>2. /\ i \in Nat \ {0} /\ j \in Nat \ {0} /\ j - 1 = i
      /\ call.pool \in Nat /\ call.paid \in Nat
      /\ Len(assets[call.asset].holders) \in Nat
  BY <1>1, CallNumbers, AdmittedFacts
<1>3. /\ PrefixSum(SharesOf(call))[i] = PrefixSum(SharesOf(call))[k]
      /\ BalanceAt(call, i) = BalanceAt(call, k)
  <2>1. /\ PrefixSum(SharesOf(call))[k] \in Nat
        /\ PrefixSum(SharesOf(call))[i] = PrefixSum(SharesOf(call))[k] + 0
        /\ \A h \in Holder : /\ BalanceAt(call, k)[h] \in Nat
                             /\ BalanceAt(call, i)[h] = BalanceAt(call, k)[h] + 0
    <3> HIDE DEF i
    <3> QED BY <1>1, PayEntry
  <2>2. \A h \in Holder : BalanceAt(call, i)[h] = BalanceAt(call, k)[h]
    BY <2>1
  <2> QED BY <2>1, <2>2 DEF BalanceAt
<1>4. /\ call' \in Calls /\ SameCall(call, call')
      /\ At(call', "pay", j, call.pool, call.paid)
  <2>1. call' = [call EXCEPT !.i = j]
    BY DEF SkipHolder
  <2>2. "pay" \in {"checks", "votes", "pay", "score"}
    OBVIOUS
  <2> HIDE DEF j
  <2>3. call' = Updated(call, "pay", j, call.pool, call.paid)
    BY <1>1, <2>1, CallAdvances
  <2> QED BY <1>2, <2>2, <2>3, CallUpdate
<1>5. Payable(call')
  BY <1>4, SamePayable DEF AtPay, At
<1> HIDE DEF i, j, k
<1>6. call'.i - 1 = i /\ call'.i <= Len(assets[call'.asset].holders) + 1 /\ call'.paid = call.paid
  <2>1. call'.i = j /\ call'.asset = call.asset /\ call'.paid = call.paid
    BY <1>4 DEF At, SameCall
  <2>2. j <= Len(assets[call.asset].holders) + 1
    BY <1>1, <1>2 DEF j
  <2> QED BY <1>2, <2>1, <2>2
<1>7. /\ SharesOf(call') = SharesOf(call)
      /\ BalanceAt(call', i) = BalanceAt(call, i)
  BY <1>4, SameSums
<1>8. PaidUpTo(call', i)
  BY <1>3, <1>6, <1>7 DEF PaidUpTo, AtPay, i, k
<1>9. /\ journal = Journal(pools, distributed, verifierRegistry,
                          purse - call.paid, BalanceAt(call, k))
      /\ journal' = journal
  BY DEF AtPay, SkipHolder, i, k
<1>10. AtPay(call', journal')
  <2>1. journal' = Journal(pools, distributed, verifierRegistry,
                           purse - call'.paid, BalanceAt(call', i))
    BY <1>3, <1>6, <1>7, <1>9
  <2> QED BY <1>5, <1>6, <1>8, <2>1 DEF AtPay
<1> QED BY <1>4, <1>10 DEF Follows, CallOK, SameCall, At

\* A transfer adds one share to what is paid and to its holder's balance.
LEMMA TransferStep ==
  ASSUME TypeInv, Transfer, call \in Calls, AtPay(call, journal)
  PROVE  Follows
<1> DEFINE i == call.i
           k == i - 1
           j == i + 1
           to == Holding.to
           x == Amount
           paid == call.paid + x
<1>1. /\ SharesOf(call)[i] = x /\ i \in 1 .. Len(assets[call.asset].holders)
      /\ call.pc = "pay" /\ Admitted(call)
      /\ to = assets[call.asset].holders[i].to
  BY AmountIsShare DEF Transfer
<1>2. /\ i \in Nat \ {0} /\ j \in Nat \ {0} /\ j - 1 = i
      /\ call.pool \in Nat /\ call.paid \in Nat
      /\ Len(assets[call.asset].holders) \in Nat
  BY <1>1, CallNumbers, AdmittedFacts
<1>3. journal = Journal(pools, distributed, verifierRegistry,
                        purse - call.paid, BalanceAt(call, k))
  BY DEF AtPay
<1>4. /\ x <= purse - call.paid
      /\ journal' = [journal EXCEPT !.purse = @ - x, !.balance[to] = @ + x]
      /\ call' = [call EXCEPT !.i = j, !.paid = paid]
  BY <1>3 DEF Transfer, Journal
<1> HIDE DEF i, to, x
<1>5. /\ x \in Nat /\ to \in Holder
      /\ PrefixSum(SharesOf(call))[i] = PrefixSum(SharesOf(call))[k] + x
      /\ \A h \in Holder :
           /\ BalanceAt(call, k)[h] \in Nat
           /\ BalanceAt(call, i)[h] = BalanceAt(call, k)[h] + IF to = h THEN x ELSE 0
  BY <1>1, PayEntry
<1>6. paid \in Nat /\ purse \in Nat /\ paid <= purse
  <2>1. purse \in Nat
    BY DEF TypeInv, TypeOK
  <2>2. call.paid \in Nat /\ x \in Nat /\ x <= purse - call.paid
    BY <1>2, <1>4, <1>5
  <2> QED BY <2>1, <2>2
<1>7. /\ call' \in Calls /\ SameCall(call, call')
      /\ At(call', "pay", j, call.pool, paid)
  <2>1. "pay" \in {"checks", "votes", "pay", "score"}
    OBVIOUS
  <2> HIDE DEF j, paid
  <2>2. call' = Updated(call, "pay", j, call.pool, paid)
    BY <1>1, <1>4, CallAdds
  <2> QED BY <1>2, <1>6, <2>1, <2>2, CallUpdate
<1>8. Payable(call')
  BY <1>7, SamePayable DEF AtPay, At
<1>9. /\ call'.i - 1 = i /\ call'.i <= Len(assets[call'.asset].holders) + 1
      /\ call'.paid = paid
  <2>1. call'.i = j /\ call'.asset = call.asset /\ call'.paid = paid
    BY <1>7 DEF At, SameCall
  <2>2. j <= Len(assets[call.asset].holders) + 1
    BY <1>1, <1>2
  <2> QED BY <1>2, <2>1, <2>2
<1>10. /\ SharesOf(call') = SharesOf(call)
       /\ BalanceAt(call', i) = BalanceAt(call, i)
  BY <1>7, SameSums
<1>11. PaidUpTo(call', i)
  BY <1>5, <1>6, <1>9, <1>10 DEF PaidUpTo, AtPay, i
<1>12. [BalanceAt(call, k) EXCEPT ![to] = @ + x] = BalanceAt(call, i)
  <2> DEFINE b == BalanceAt(call, k)
             d == BalanceAt(call, i)
  <2>1. b = [h \in Holder |-> b[h]] /\ d = [h \in Holder |-> d[h]]
    BY DEF BalanceAt
  <2>2. \A h \in Holder : b[h] \in Nat /\ d[h] = b[h] + IF to = h THEN x ELSE 0
    BY <1>5
  <2> HIDE DEF b, d
  <2>3. \A h \in Holder : [b EXCEPT ![to] = @ + x][h] = d[h]
    BY <1>5, <2>1, <2>2
  <2>4. [b EXCEPT ![to] = @ + x] = [h \in Holder |-> [b EXCEPT ![to] = @ + x][h]]
    BY <2>1
  <2>5. [b EXCEPT ![to] = @ + x] = d
    BY <2>1, <2>3, <2>4
  <2> QED BY <2>5 DEF b, d
<1>13. journal' = Journal(pools, distributed, verifierRegistry,
                          purse - paid, BalanceAt(call, i))
  <2> DEFINE q == purse - call.paid
             b == BalanceAt(call, k)
             d == BalanceAt(call, i)
  <2>1. q - x = purse - paid
    BY <1>2, <1>5, <1>6
  <2>2. /\ journal = Journal(pools, distributed, verifierRegistry, q, b)
        /\ [b EXCEPT ![to] = @ + x] = d
    BY <1>3, <1>12
  <2> HIDE DEF q, b, d
  <2>3. journal' = Journal(pools, distributed, verifierRegistry, q - x, d)
    BY <1>4, <2>2 DEF Journal
  <2> QED BY <2>1, <2>3 DEF d
<1>14. AtPay(call', journal')
  <2>1. journal' = Journal(pools, distributed, verifierRegistry,
                           purse - call'.paid, BalanceAt(call', call'.i - 1))
    BY <1>9, <1>10, <1>13
  <2>2. PaidUpTo(call', call'.i - 1)
    BY <1>9, <1>11
  <2> QED BY <1>8, <1>9, <2>1, <2>2 DEF AtPay
<1> QED BY <1>7, <1>14 DEF Follows, CallOK, SameCall, At

\* A holder whose account cannot be paid reverts the call.
LEMMA TransferFailsStep == TransferFails => Follows
BY RevertFollows DEF TransferFails

-----------------------------------------------------------------------------
(* From the pay loop to the score loop. *)

\* find returns a position in question.
LEMMA FirstIn ==
  ASSUME NEW T \in SUBSET Nat, T # {}
  PROVE  First(T) \in T
BY LeastElement DEF First

\* The reputation of a verifier is one.
LEMMA ReputationType ==
  ASSUME TypeInv, NEW v \in Verifier
  PROVE  ReputationOf(v) \in Reputations /\ ReputationOf(v).score \in Scores
<1>1. verifierRegistry[v] \in Reputations \cup {None}
  BY DEF TypeInv, TypeOK
<1>2. NewReputation \in Reputations
  BY DEF NewReputation, Reputations, Scores
<1>3. ReputationOf(v) \in Reputations
  BY <1>1, <1>2 DEF ReputationOf
<1> QED BY <1>3 DEF Reputations

\* The snapshot of distinct verifiers has the score of each.
SnapshotVector(u) ==
  [i \in DOMAIN u |-> [signer |-> u[i], score |-> ReputationOf(u[i]).score]]

\* It is a vector of scores, and find finds in it the score that is meant.
LEMMA SnapshotFacts ==
  ASSUME TypeInv, NEW u \in Seq(Verifier)
  PROVE  /\ SnapshotVector(u) \in Snapshots
         /\ \A v : ScoreIn(SnapshotVector(u), v) =
                     IF v \in Range(u) THEN ReputationOf(v).score ELSE None
<1> DEFINE s == SnapshotVector(u)
           S == [signer : Verifier, score : Scores]
           n == Len(u)
<1>1. n \in Nat /\ DOMAIN u = 1 .. n /\ \A i \in 1 .. n : u[i] \in Verifier
  OBVIOUS
<1>2. /\ DOMAIN s = 1 .. n
      /\ \A i \in 1 .. n : s[i] = [signer |-> u[i], score |-> ReputationOf(u[i]).score]
      /\ s = [i \in 1 .. n |-> s[i]]
  BY <1>1 DEF SnapshotVector
<1> HIDE DEF s, n
<1>3. \A i \in 1 .. n : s[i] \in S
  BY <1>1, <1>2, ReputationType
<1>4. s \in Seq(S)
  <2> HIDE DEF S
  <2> QED BY <1>1, <1>2, <1>3
<1>5. ASSUME NEW v
      PROVE  ScoreIn(s, v) = IF v \in Range(u) THEN ReputationOf(v).score ELSE None
  <2> DEFINE found == {k \in DOMAIN s : s[k].signer = v}
             f == First(found)
  <2>1. \A k \in 1 .. n : s[k].signer = u[k] /\ s[k].score = ReputationOf(u[k]).score
    BY <1>2
  <2>2. v \in Range(u) <=> found # {}
    BY <1>1, <1>2, <2>1 DEF Range
  <2>3. CASE found # {}
    <3>1. found \in SUBSET Nat
      BY <1>1, <1>2
    <3>2. f \in found
      <4> HIDE DEF found
      <4> QED BY <2>3, <3>1, FirstIn
    <3>3. s[f].score = ReputationOf(v).score
      <4> HIDE DEF f
      <4> QED BY <1>2, <2>1, <3>2
    <3> QED BY <2>2, <2>3, <3>3 DEF ScoreIn
  <2>4. CASE found = {}
    BY <2>2, <2>4 DEF ScoreIn
  <2> QED BY <2>3, <2>4
<1> QED BY <1>4, <1>5 DEF s, Snapshots

\* A call after the step that prepares the score loop.
Prepared(l, u, s) == [l EXCEPT !.pc = "score", !.unscored = u, !.snapshot = s]

\* It is a call, with these two vectors.
LEMMA PreparedCall ==
  ASSUME NEW l \in Calls, NEW u \in Seq(Verifier),
         NEW s \in Snapshots
  PROVE  /\ Prepared(l, u, s) \in Calls
         /\ SameCall(l, Prepared(l, u, s))
         /\ At(Prepared(l, u, s), "score", l.i, l.pool, l.paid)
         /\ Prepared(l, u, s).unscored = u /\ Prepared(l, u, s).snapshot = s
<1> DEFINE VS == Seq(Verifier)
           VB == Seq(Verifier \X BOOLEAN)
           NS == Seq(Nat)
           PC == {"checks", "votes", "pay", "score"}
<1>1. Calls = [pc : PC, asset : Asset, cycle : Cycle,
               evidence : Evidence, i : Nat \ {0}, seen : VS, votes : VB, yes : NS,
               pool : Nat, paid : Nat, snapshot : Snapshots, unscored : VS]
  BY DEF Calls
<1>2. "score" \in PC /\ u \in VS /\ s \in Snapshots
  OBVIOUS
<1> HIDE DEF VS, VB, NS, PC
<1> QED BY <1>1, <1>2 DEF Prepared, SameCall, At

\* When the holders are paid, the pool and the flag are written, and the score
\* loop has every distinct verifier before it.
LEMMA SettleStep ==
  ASSUME TypeInv, Settle, call \in Calls, AtPay(call, journal)
  PROVE  Follows
<1> DEFINE a == call.asset
           cfg == assets[a]
           u == Unique(cfg.verifiers)
           n == Len(cfg.holders)
           k == Key(a, call.cycle)
<1>1. Payable(call) /\ Admitted(call) /\ call.pc = "pay" /\ call.pool = pools[a]
  BY DEF AtPay, Payable, Settle, Running
<1>2. /\ cfg \in Configs /\ n \in Nat /\ pools[a] \in Nat
      /\ cfg.verifiers \in Seq(Verifier)
  BY <1>1, AdmittedFacts
<1>3. u \in Seq(Verifier) /\ IsInjective(u) /\ Range(u) = Range(cfg.verifiers)
  BY <1>2, UniqueFacts
<1>4. call.i - 1 = n
  BY <1>2, CallNumbers DEF Settle, Rules, AtPay
<1>5. journal = Journal(pools, distributed, verifierRegistry,
                        purse - call.paid, BalanceAt(call, n))
  BY <1>4 DEF AtPay
<1>6. PaidUpTo(call, n)
  BY <1>4 DEF AtPay
<1> DEFINE s == SnapshotVector(u)
<1>7. call' = Prepared(call, u, s)
  <2>1. \A v : Recorded(v) = ReputationOf(v)
    BY <1>5 DEF Recorded, ReputationOf, Journal
  <2>2. [i \in DOMAIN u |-> [signer |-> u[i], score |-> Recorded(u[i]).score]] = s
    BY <2>1 DEF SnapshotVector
  <2>3. call' = [call EXCEPT !.pc = "score", !.unscored = u,
                   !.snapshot = [i \in DOMAIN u |->
                      [signer |-> u[i], score |-> Recorded(u[i]).score]]]
    BY DEF Settle, Rules
  <2> HIDE DEF u, s
  <2> QED BY <2>2, <2>3 DEF Prepared
<1>8. /\ s \in Snapshots
      /\ \A v : ScoreIn(s, v) = IF v \in Range(u) THEN ReputationOf(v).score ELSE None
  BY <1>3, SnapshotFacts
<1> HIDE DEF u, s
<1>9. /\ call' \in Calls /\ SameCall(call, call')
      /\ At(call', "score", call.i, call.pool, call.paid)
      /\ call'.unscored = u /\ call'.snapshot = s
  BY <1>3, <1>7, <1>8, PreparedCall
<1>10. Payable(call')
  BY <1>1, <1>9, SamePayable DEF At
<1>11. /\ SharesOf(call') = SharesOf(call)
       /\ BalanceAt(call', n) = BalanceAt(call, n)
  BY <1>9, SameSums
<1>12. /\ call'.asset = a /\ call'.paid = call.paid /\ assets[call'.asset] = cfg
       /\ Key(call'.asset, call'.cycle) = k
  BY <1>9 DEF SameCall, At
<1>13. PaidUpTo(call', n)
  BY <1>6, <1>11, <1>12 DEF PaidUpTo
<1>14. RegistryBut(call', u) = verifierRegistry
  <2>1. \A v : v \notin Range(assets[call'.asset].verifiers) \ Range(u)
    BY <1>3, <1>12
  <2>2. RegistryBut(call', u) = [v \in Verifier |-> verifierRegistry[v]]
    BY <2>1 DEF RegistryBut
  <2>3. verifierRegistry = [v \in Verifier |-> verifierRegistry[v]]
    BY DEF TypeInv, TypeOK
  <2> QED BY <2>2, <2>3
<1>15. journal' = Journal([pools EXCEPT ![a] = @ - call.paid], distributed \cup {k},
                          verifierRegistry, purse - call.paid, BalanceAt(call, n))
  <2> DEFINE q == purse - call.paid
             b == BalanceAt(call, n)
             p == call.pool - call.paid
  <2>1. journal' = [journal EXCEPT !.pools[a] = p, !.distributed = @ \cup {k}]
    BY DEF Settle
  <2>2. [pools EXCEPT ![a] = @ - call.paid] = [pools EXCEPT ![a] = p]
    BY <1>1
  <2>3. journal = Journal(pools, distributed, verifierRegistry, q, b)
    BY <1>5
  <2> HIDE DEF q, b, p, k, a
  <2>4. journal' = Journal([pools EXCEPT ![a] = p], distributed \cup {k},
                           verifierRegistry, q, b)
    BY <2>1, <2>3 DEF Journal
  <2> QED BY <2>2, <2>4 DEF q, b
<1>16. AtScore(call', journal')
  <2>1. IsInjective(call'.unscored) /\ Range(call'.unscored) \subseteq Range(cfg.verifiers)
    BY <1>3, <1>9
  <2>2. \A v \in Verifier : ScoreIn(call'.snapshot, v) =
          IF v \in Range(cfg.verifiers) THEN ReputationOf(v).score ELSE None
    BY <1>3, <1>8, <1>9
  <2>3. RegistryBut(call', call'.unscored) = verifierRegistry
    BY <1>9, <1>14
  <2>4. journal' = Journal([pools EXCEPT ![call'.asset] = @ - call'.paid],
                           distributed \cup {Key(call'.asset, call'.cycle)},
                           RegistryBut(call', call'.unscored),
                           purse - call'.paid, BalanceAt(call', n))
    BY <1>11, <1>12, <1>15, <2>3
  <2> QED BY <1>10, <1>12, <1>13, <2>1, <2>2, <2>4 DEF AtScore
<1> QED BY <1>9, <1>16 DEF Follows, CallOK, SameCall, At

-----------------------------------------------------------------------------
(* The turns of the score loop. *)

\* A call after a turn of the score loop.
Scoring(l, u) == [l EXCEPT !.unscored = u]

\* It is a call, with that list left.
LEMMA ScoringCall ==
  ASSUME NEW l \in Calls, NEW u \in Seq(Verifier)
  PROVE  /\ Scoring(l, u) \in Calls
         /\ SameCall(l, Scoring(l, u))
         /\ At(Scoring(l, u), l.pc, l.i, l.pool, l.paid)
         /\ Scoring(l, u).unscored = u /\ Scoring(l, u).snapshot = l.snapshot
<1> DEFINE VS == Seq(Verifier)
           VB == Seq(Verifier \X BOOLEAN)
           NS == Seq(Nat)
           PC == {"checks", "votes", "pay", "score"}
<1>1. Calls = [pc : PC, asset : Asset, cycle : Cycle,
               evidence : Evidence, i : Nat \ {0}, seen : VS, votes : VB, yes : NS,
               pool : Nat, paid : Nat, snapshot : Snapshots, unscored : VS]
  BY DEF Calls
<1>2. u \in VS
  OBVIOUS
<1> HIDE DEF VS, VB, NS, PC
<1> QED BY <1>1, <1>2 DEF Scoring, SameCall, At

\* The votes collected from v, and the counted ones that v signed.
VotesOf(l, v) == {n \in DOMAIN l.votes : l.votes[n][1] = v}
CountedOf(l, v) == {k \in Counted(l) : l.evidence.signers[k] = v}

\* The vote that the score loop finds is the one that was counted.
LEMMA VoteFound ==
  ASSUME NEW l \in Calls, Payable(l), NEW v
  PROVE  /\ VotesOf(l, v) = {} <=> CountedOf(l, v) = {}
         /\ CountedOf(l, v) # {} =>
              /\ l.votes[First(VotesOf(l, v))][2] =
                   l.evidence.verdicts[CHOOSE k \in CountedOf(l, v) : TRUE]
              /\ l.votes[First(VotesOf(l, v))][2] \in BOOLEAN
<1> DEFINE e == l.evidence
           mine == CountedOf(l, v)
           found == VotesOf(l, v)
           f == First(found)
           k == CHOOSE j \in mine : TRUE
<1>1. Range(l.votes) = {<<e.signers[j], e.verdicts[j]>> : j \in Counted(l)}
  BY AllCounted DEF Payable, VotesKnown
<1>2. l.votes \in Seq(Verifier \X BOOLEAN) /\ e \in Evidence
  BY DEF Calls
<1>3. DOMAIN l.votes = 1 .. Len(l.votes) /\ Len(l.votes) \in Nat
  <2> DEFINE S == Verifier \X BOOLEAN
  <2>1. l.votes \in Seq(S)
    BY <1>2
  <2> HIDE DEF S
  <2> QED BY <2>1
<1>4. \A n \in DOMAIN l.votes : \E j \in Counted(l) :
         l.votes[n] = <<e.signers[j], e.verdicts[j]>>
  BY <1>1 DEF Range
<1>5. \A j \in Counted(l) : \E n \in DOMAIN l.votes :
         l.votes[n] = <<e.signers[j], e.verdicts[j]>>
  BY <1>1 DEF Range
<1>6. found = {} <=> mine = {}
  BY <1>4, <1>5 DEF VotesOf, CountedOf
<1>7. ASSUME mine # {}
      PROVE  l.votes[f][2] = e.verdicts[k] /\ l.votes[f][2] \in BOOLEAN
  <2>1. found \in SUBSET Nat /\ found # {}
    BY <1>3, <1>6, <1>7 DEF VotesOf
  <2>2. f \in found
    <3> HIDE DEF found
    <3> QED BY <2>1, FirstIn
  <2>3. k \in mine
    BY <1>7
  <2> HIDE DEF f, k
  <2>4. f \in DOMAIN l.votes /\ l.votes[f][1] = v
    BY <2>2 DEF VotesOf
  <2>5. PICK j \in Counted(l) : l.votes[f] = <<e.signers[j], e.verdicts[j]>>
    BY <1>4, <2>4
  <2>6. e.signers[j] = v /\ l.votes[f][2] = e.verdicts[j]
    BY <2>4, <2>5
  <2>7. k \in Counted(l) /\ e.signers[k] = v
    BY <2>3 DEF CountedOf
  <2>8. \A m, p \in Counted(l) : e.signers[m] = e.signers[p] => m = p
    <3>1. e \in EvidenceArrays
      BY <1>2, EvidenceType
    <3> QED BY <3>1, CountedVotesFacts DEF Counted
  <2>9. j = k
    BY <2>6, <2>7, <2>8
  <2>10. e.verdicts[j] \in BOOLEAN
    <3>1. ParallelArrays(e)
      BY DEF Payable, Admitted
    <3>2. j \in DOMAIN e.signers
      BY DEF Counted, CountedVotes, ValidVotes
    <3> QED BY <1>2, <3>1, <3>2, EvidenceType
  <2> QED BY <2>6, <2>9, <2>10
<1> QED BY <1>6, <1>7 DEF f, k

\* The entry that the loop writes for a verifier that had r.
Rescored(r, votes, yes, k) ==
  LET rep == [r EXCEPT !.score.seen = @ + 1]
  IN  IF votes = {} THEN rep
      ELSE [rep EXCEPT !.score.voted = @ + 1,
                       !.score.agreed = IF yes THEN @ + 1 ELSE @,
                       !.lastVerdict = yes, !.lastCycle = k]

\* With a vote found it is a record of all the fields that it changes.
LEMMA RescoredRecord ==
  ASSUME NEW r \in Reputations, NEW votes, votes # {}, NEW yes \in BOOLEAN, NEW k
  PROVE  Rescored(r, votes, yes, k) =
           [score |-> [seen   |-> r.score.seen + 1,
                       voted  |-> r.score.voted + 1,
                       agreed |-> r.score.agreed + IF yes THEN 1 ELSE 0],
            lastVerdict |-> yes, lastCycle |-> k]
<1> DEFINE s == r.score
           LV == BOOLEAN \cup {None}
           LC == Keys \cup {None}
<1>1. r \in [score : Scores, lastVerdict : LV, lastCycle : LC]
  BY DEF Reputations
<1> HIDE DEF LV, LC
<1>2. s \in Scores
  BY <1>1
<1>3. s.agreed + 0 = s.agreed
  BY <1>2 DEF Scores
<1> DEFINE t == [s EXCEPT !.seen = @ + 1]
           u == [t EXCEPT !.voted = @ + 1, !.agreed = IF yes THEN @ + 1 ELSE @]
           rep == [r EXCEPT !.score.seen = @ + 1]
<1>4. u = [seen |-> s.seen + 1, voted |-> s.voted + 1,
           agreed |-> s.agreed + IF yes THEN 1 ELSE 0]
  <2>1. t = [seen |-> s.seen + 1, voted |-> s.voted, agreed |-> s.agreed]
    BY <1>2 DEF Scores
  <2> DEFINE y == s.voted + 1
             z == s.agreed + IF yes THEN 1 ELSE 0
  <2>2. t.voted + 1 = y /\ (IF yes THEN t.agreed + 1 ELSE t.agreed) = z
    <3>1. t.voted = s.voted /\ t.agreed = s.agreed
      BY <2>1
    <3> HIDE DEF t, s
    <3> QED BY <1>3, <3>1
  <2> HIDE DEF t
  <2>3. u = [t EXCEPT !.voted = y, !.agreed = z]
    BY <2>2
  <2> HIDE DEF u, s, y, z
  <2>4. u = [seen |-> s.seen + 1, voted |-> y, agreed |-> z]
    BY <2>1, <2>3
  <2> QED BY <2>4 DEF y, z
<1>5. rep = [r EXCEPT !.score = t]
  BY <1>1, <1>2 DEF Scores
<1>6. rep = [score |-> t, lastVerdict |-> r.lastVerdict, lastCycle |-> r.lastCycle]
  <2> HIDE DEF t, rep
  <2> QED BY <1>1, <1>5
<1>7. Rescored(r, votes, yes, k) =
        [rep EXCEPT !.score.voted = @ + 1,
                    !.score.agreed = IF yes THEN @ + 1 ELSE @,
                    !.lastVerdict = yes, !.lastCycle = k]
  BY DEF Rescored
<1>8. t \in [seen : {s.seen + 1}, voted : {s.voted}, agreed : {s.agreed}]
  BY <1>2 DEF Scores
<1>9. Rescored(r, votes, yes, k) = [score |-> u, lastVerdict |-> yes, lastCycle |-> k]
  <2> HIDE DEF t, rep, s
  <2> QED BY <1>6, <1>7, <1>8
<1> QED BY <1>4, <1>9

\* What it writes is what ServicerVault scores.
LEMMA RescoredIsScored ==
  ASSUME TypeInv, NEW l \in Calls, Payable(l), NEW v \in Verifier, NEW k
  PROVE  Rescored(ReputationOf(v), VotesOf(l, v), l.votes[First(VotesOf(l, v))][2], k)
           = Scored(v, k, l.evidence, Counted(l))
<1> DEFINE r == ReputationOf(v)
           votes == VotesOf(l, v)
           yes == l.votes[First(VotesOf(l, v))][2]
           mine == {i \in Counted(l) : l.evidence.signers[i] = v}
           mark == l.evidence.verdicts[CHOOSE i \in mine : TRUE]
<1>1. r \in Reputations
  BY ReputationType
<1>2. mine = CountedOf(l, v)
  BY DEF CountedOf
<1>3. /\ votes = {} <=> mine = {}
      /\ mine # {} => yes = mark /\ yes \in BOOLEAN
  BY <1>2, VoteFound
<1>4. Scored(v, k, l.evidence, Counted(l)) =
        IF mine = {} THEN [r EXCEPT !.score.seen = @ + 1]
        ELSE [score |-> [seen   |-> r.score.seen + 1,
                         voted  |-> r.score.voted + 1,
                         agreed |-> r.score.agreed + IF mark THEN 1 ELSE 0],
              lastVerdict |-> mark, lastCycle |-> k]
  BY DEF Scored
<1> HIDE DEF r, votes, yes, mine, mark
<1>5. CASE mine = {}
  <2>1. Rescored(r, votes, yes, k) = [r EXCEPT !.score.seen = @ + 1]
    BY <1>3, <1>5 DEF Rescored
  <2> QED BY <1>4, <1>5, <2>1 DEF r, votes, yes
<1>6. CASE mine # {}
  <2>1. Rescored(r, votes, yes, k) =
           [score |-> [seen   |-> r.score.seen + 1,
                       voted  |-> r.score.voted + 1,
                       agreed |-> r.score.agreed + IF yes THEN 1 ELSE 0],
            lastVerdict |-> yes, lastCycle |-> k]
    BY <1>1, <1>3, <1>6, RescoredRecord
  <2>2. yes = mark
    BY <1>3, <1>6
  <2>3. Rescored(r, votes, yes, k) = Scored(v, k, l.evidence, Counted(l))
    BY <1>4, <1>6, <2>1, <2>2
  <2> QED BY <2>3 DEF r, votes, yes
<1> QED BY <1>5, <1>6

\* The first of a list of distinct verifiers is not in the rest.
LEMMA HeadAndTail ==
  ASSUME NEW S, NEW u \in Seq(S), u # <<>>, IsInjective(u)
  PROVE  /\ Head(u) \in Range(u) /\ Head(u) \in S
         /\ Tail(u) \in Seq(S) /\ IsInjective(Tail(u))
         /\ Range(Tail(u)) = Range(u) \ {Head(u)}
<1> DEFINE t == Tail(u)
           n == Len(u)
<1>1. /\ n \in Nat /\ n > 0 /\ DOMAIN u = 1 .. n /\ u[1] = Head(u)
      /\ t \in Seq(S) /\ DOMAIN t = 1 .. (n - 1)
      /\ \A i \in 1 .. (n - 1) : t[i] = u[i + 1]
      /\ \A i \in 1 .. n : u[i] \in S
  OBVIOUS
<1> HIDE DEF t, n
<1>2. 1 \in 1 .. n
  BY <1>1
<1>3. Head(u) \in Range(u) /\ Head(u) \in S
  BY <1>1, <1>2 DEF Range
<1>4. \A i, j \in 1 .. n : u[i] = u[j] => i = j
  BY <1>1 DEF IsInjective
<1>5. IsInjective(t)
  <2>1. SUFFICES ASSUME NEW i \in 1 .. (n - 1), NEW j \in 1 .. (n - 1), t[i] = t[j]
                 PROVE  i = j
    BY <1>1 DEF IsInjective
  <2>2. i + 1 \in 1 .. n /\ j + 1 \in 1 .. n /\ u[i + 1] = u[j + 1]
    BY <1>1, <2>1
  <2>3. i + 1 = j + 1
    BY <1>4, <2>2
  <2> QED BY <2>3
<1>6. Range(t) = Range(u) \ {Head(u)}
  <2>1. ASSUME NEW x \in Range(t) PROVE x \in Range(u) \ {Head(u)}
    <3>1. PICK i \in 1 .. (n - 1) : t[i] = x
      BY <1>1, <2>1 DEF Range
    <3>2. i + 1 \in 1 .. n /\ u[i + 1] = x /\ i + 1 # 1
      BY <1>1, <3>1
    <3>3. x # u[1]
      BY <1>2, <1>4, <3>2
    <3> QED BY <1>1, <3>2, <3>3 DEF Range
  <2>2. ASSUME NEW x \in Range(u), x # Head(u) PROVE x \in Range(t)
    <3>1. PICK i \in 1 .. n : u[i] = x
      BY <1>1, <2>2 DEF Range
    <3>2. i # 1
      BY <1>1, <2>2, <3>1
    <3>3. i - 1 \in 1 .. (n - 1) /\ (i - 1) + 1 = i
      BY <1>1, <3>2
    <3>4. t[i - 1] = x
      BY <1>1, <3>1, <3>3
    <3> QED BY <1>1, <3>3, <3>4 DEF Range
  <2> QED BY <2>1, <2>2
<1> QED BY <1>1, <1>3, <1>5, <1>6 DEF t

\* A turn of the score loop writes the entry of the first verifier left.
LEMMA ScoreStep ==
  ASSUME TypeInv, Score, call \in Calls, AtScore(call, journal)
  PROVE  Follows
<1> DEFINE a == call.asset
           cfg == assets[a]
           v == Head(call.unscored)
           t == Tail(call.unscored)
           k == Key(a, call.cycle)
           n == Len(cfg.holders)
           x == Scored(v, k, call.evidence, Counted(call))
<1>1. /\ Payable(call) /\ PaidUpTo(call, n) /\ call.pc = "score" /\ call.unscored # <<>>
      /\ call.unscored \in Seq(Verifier) /\ IsInjective(call.unscored)
      /\ Range(call.unscored) \subseteq Range(cfg.verifiers)
  BY DEF AtScore, Score, Running, Calls
<1>2. /\ v \in Range(call.unscored) /\ v \in Verifier
      /\ t \in Seq(Verifier) /\ IsInjective(t)
      /\ Range(t) = Range(call.unscored) \ {v}
  BY <1>1, HeadAndTail
<1> HIDE DEF v, t
<1>3. journal.registry = RegistryBut(call, call.unscored)
  BY DEF AtScore, Journal
<1>4. Recorded(v) = ReputationOf(v)
  <2>1. journal.registry[v] = verifierRegistry[v]
    BY <1>2, <1>3 DEF RegistryBut
  <2> QED BY <2>1 DEF Recorded, ReputationOf
<1>5. journal' = [journal EXCEPT !.registry[v] = x]
  <2> DEFINE votes == VotesOf(call, v)
             yes == call.votes[First(votes)][2]
             y == Rescored(ReputationOf(v), votes, yes, k)
  <2>1. journal' = [journal EXCEPT !.registry[v] = y]
    <3>1. journal' = [journal EXCEPT !.registry[v] = Rescored(Recorded(v), votes, yes, k)]
      BY DEF Score, VotesOf, Rescored, v
    <3> HIDE DEF votes, yes
    <3> QED BY <1>4, <3>1
  <2>2. y = x
    BY <1>1, <1>2, RescoredIsScored
  <2> HIDE DEF y, x
  <2> QED BY <2>1, <2>2
<1>6. /\ call' \in Calls /\ SameCall(call, call')
      /\ At(call', "score", call.i, call.pool, call.paid)
      /\ call'.unscored = t /\ call'.snapshot = call.snapshot
  <2>1. call' = Scoring(call, t)
    BY DEF Score, Scoring, t
  <2> QED BY <1>1, <1>2, <2>1, ScoringCall
<1>7. Payable(call')
  BY <1>1, <1>6, SamePayable DEF At
<1>8. /\ SharesOf(call') = SharesOf(call)
      /\ BalanceAt(call', n) = BalanceAt(call, n)
  BY <1>6, SameSums
<1>9. /\ call'.asset = a /\ call'.paid = call.paid /\ assets[call'.asset] = cfg
      /\ Key(call'.asset, call'.cycle) = k
      /\ call'.evidence = call.evidence /\ Counted(call') = Counted(call)
  BY <1>6 DEF SameCall, At, Counted
<1>10. PaidUpTo(call', n)
  BY <1>1, <1>8, <1>9 DEF PaidUpTo
<1>11. RegistryBut(call', t) = [RegistryBut(call, call.unscored) EXCEPT ![v] = x]
  <2> DEFINE f == RegistryBut(call, call.unscored)
             g == RegistryBut(call', t)
             V == Range(cfg.verifiers)
             new(w) == Scored(w, k, call.evidence, Counted(call))
  <2>1. f = [w \in Verifier |-> IF w \in V \ Range(call.unscored) THEN new(w)
                                ELSE verifierRegistry[w]]
    BY DEF RegistryBut
  <2>2. g = [w \in Verifier |-> IF w \in V \ Range(t) THEN new(w)
                                ELSE verifierRegistry[w]]
    BY <1>9 DEF RegistryBut
  <2>3. \A w \in Verifier : w \in V \ Range(t) <=> (w \in V \ Range(call.unscored) \/ w = v)
    BY <1>1, <1>2
  <2>4. x = new(v)
    OBVIOUS
  <2> HIDE DEF f, g, V, new, x
  <2>5. \A w \in Verifier : g[w] = IF w = v THEN x ELSE f[w]
    BY <2>1, <2>2, <2>3, <2>4
  <2>6. g = [f EXCEPT ![v] = x]
    BY <1>2, <2>1, <2>2, <2>5
  <2> QED BY <2>6 DEF f, g
<1>12. journal' = Journal([pools EXCEPT ![a] = @ - call.paid], distributed \cup {k},
                          RegistryBut(call', t), purse - call.paid, BalanceAt(call, n))
  <2> DEFINE q == purse - call.paid
             b == BalanceAt(call, n)
             p == [pools EXCEPT ![a] = @ - call.paid]
             d == distributed \cup {k}
             f == RegistryBut(call, call.unscored)
  <2>1. journal = Journal(p, d, f, q, b)
    BY DEF AtScore
  <2> HIDE DEF q, b, p, d, f, x
  <2>2. journal' = Journal(p, d, [f EXCEPT ![v] = x], q, b)
    BY <1>5, <2>1 DEF Journal
  <2> QED BY <1>11, <2>2 DEF q, b, p, d, f
<1>13. AtScore(call', journal')
  <2>1. IsInjective(call'.unscored) /\ Range(call'.unscored) \subseteq Range(cfg.verifiers)
    BY <1>1, <1>2, <1>6
  <2>2. \A w \in Verifier : ScoreIn(call'.snapshot, w) =
          IF w \in Range(cfg.verifiers) THEN ReputationOf(w).score ELSE None
    BY <1>6 DEF AtScore
  <2>3. journal' = Journal([pools EXCEPT ![call'.asset] = @ - call'.paid],
                           distributed \cup {Key(call'.asset, call'.cycle)},
                           RegistryBut(call', call'.unscored),
                           purse - call'.paid, BalanceAt(call', n))
    BY <1>6, <1>8, <1>9, <1>12
  <2> QED BY <1>7, <1>9, <1>10, <2>1, <2>2, <2>3 DEF AtScore
<1> QED BY <1>6, <1>13 DEF Follows, CallOK, SameCall, At

-----------------------------------------------------------------------------
(* What commits. *)

\* The pay loop's sums at its end are ServicerVault's.
LEMMA PaidInFull ==
  ASSUME TypeInv, NEW l \in Calls, Payable(l), PaidUpTo(l, Len(assets[l.asset].holders))
  PROVE  /\ l.paid = Paid(assets[l.asset], pools[l.asset])
         /\ BalanceAt(l, Len(assets[l.asset].holders)) =
              [h \in Holder |-> balance[h] + PaidTo(assets[l.asset], pools[l.asset], h)]
<1> DEFINE cfg == assets[l.asset]
           pool == pools[l.asset]
           n == Len(cfg.holders)
           s == Shares(cfg, pool)
<1>1. cfg \in Configs /\ TotalWeight(cfg) > 0 /\ pool \in Nat /\ n \in Nat
  BY AdmittedFacts DEF Payable
<1>2. Len(s) = n
  <2>1. s \in Seq(Nat) /\ DOMAIN s = DOMAIN cfg.holders
    BY <1>1, PaidBounds
  <2>2. DOMAIN cfg.holders = 1 .. n
    BY <1>1 DEF Configs
  <2> HIDE DEF s, n
  <2> QED BY <1>1, <2>1, <2>2
<1>3. l.paid = PrefixSum(s)[n]
  BY DEF PaidUpTo, SharesOf
<1>4. \A h : PaidTo(cfg, pool, h) = Total(DueTo(cfg, pool, h))
  BY DEF PaidTo, DueTo
<1>5. \A h : Len(DueTo(cfg, pool, h)) = n
  BY <1>1, ShareSums
<1>6. \A h : PaidTo(cfg, pool, h) = PrefixSum(DueTo(cfg, pool, h))[n]
  <2> HIDE DEF cfg, pool, n
  <2> QED BY <1>4, <1>5 DEF Total
<1>7. Paid(cfg, pool) = PrefixSum(s)[n]
  <2>1. Paid(cfg, pool) = Total(s)
    BY DEF Paid
  <2> HIDE DEF s, n
  <2> QED BY <1>2, <2>1 DEF Total
<1> QED BY <1>3, <1>6, <1>7 DEF BalanceAt, Due

\* The vote loop's count at its end is the quorum test's.
LEMMA VotesInFull ==
  ASSUME NEW l \in Calls, Payable(l)
  PROVE  /\ Range(l.yes) = YesVotes(assets[l.asset], l.asset, l.cycle, l.evidence)
         /\ Len(l.yes) =
              Cardinality(YesVotes(assets[l.asset], l.asset, l.cycle, l.evidence))
BY AllCounted DEF Payable, VotesKnown

\* A call that gets that far had no reason to revert when it was made.
LEMMA NoReason ==
  ASSUME TypeInv, NEW l \in Calls, Payable(l), PaidUpTo(l, Len(assets[l.asset].holders))
  PROVE  DistributeError(l.asset, l.cycle, l.evidence) = "ok"
<1> DEFINE a == l.asset
           votes == Cardinality(YesVotes(assets[a], a, l.cycle, l.evidence))
<1>1. Len(l.yes) = votes /\ Len(l.yes) \in Nat
  BY VotesInFull, CallNumbers
<1>2. l.paid = Paid(assets[a], pools[a]) /\ l.paid <= purse /\ l.paid \in Nat /\ purse \in Nat
  BY PaidInFull, CallNumbers DEF PaidUpTo, TypeInv, TypeOK
<1>3. /\ assets[a].quorum \in Nat /\ TotalWeight(assets[a]) > 0
      /\ Len(l.yes) >= assets[a].quorum /\ pools[a] # 0
  BY AdmittedFacts DEF Payable
<1>4. ParallelArrays(l.evidence) /\ assets[a] # None /\ ~AlreadyDistributed(a, l.cycle)
  BY DEF Payable, Admitted
<1> HIDE DEF votes, a
<1>5. ~(votes < assets[a].quorum)
  BY <1>1, <1>3
<1>6. ~(Paid(assets[a], pools[a]) > purse)
  BY <1>2
<1>7. TotalWeight(assets[a]) # 0
  BY <1>3
<1> QED BY <1>3, <1>4, <1>5, <1>6, <1>7 DEF DistributeError, a, votes

\* The commit is a Distribute step of ServicerVault.
LEMMA CommitStep ==
  ASSUME TypeInv, Commit, call \in Calls, AtScore(call, journal), Submittable(call)
  PROVE  Distribute(call.asset, call.cycle, call.evidence) /\ Follows
<1> DEFINE a == call.asset
           c == call.cycle
           e == call.evidence
           cfg == assets[a]
           n == Len(cfg.holders)
           k == Key(a, c)
           yes == YesVotes(cfg, a, c, e)
<1>1. /\ Payable(call) /\ PaidUpTo(call, n) /\ call.pc = "score" /\ call.unscored = <<>>
      /\ call.pool = pools[a]
  BY DEF AtScore, Commit, Running, Payable
<1>2. DistributeError(a, c, e) = "ok"
  BY <1>1, NoReason
<1>3. /\ call.paid = Paid(cfg, pools[a])
      /\ BalanceAt(call, n) = [h \in Holder |-> balance[h] + PaidTo(cfg, pools[a], h)]
  BY <1>1, PaidInFull
<1>4. Range(call.yes) = yes
  BY <1>1, VotesInFull
<1>5. Range(e.signatures) \subseteq signed \cup {Forged}
  BY <1>1 DEF Submittable
<1>6. /\ journal.pools = [pools EXCEPT ![a] = @ - call.paid]
      /\ journal.distributed = distributed \cup {k}
      /\ journal.registry = RegistryBut(call, call.unscored)
      /\ journal.purse = purse - call.paid
      /\ journal.balance = BalanceAt(call, n)
      /\ journal.receipts = receipts /\ journal.events = events
  BY DEF AtScore, Journal
<1>7. RegistryBut(call, call.unscored) =
        [v \in Verifier |-> IF v \in Range(cfg.verifiers)
                            THEN Scored(v, k, e, CountedVotes(cfg, a, c, e))
                            ELSE verifierRegistry[v]]
  <2>1. Range(call.unscored) = {}
    BY <1>1 DEF Range
  <2> QED BY <2>1 DEF RegistryBut, Counted
<1> DEFINE receipt ==
             [asset |-> a, cycle |-> c, total |-> call.paid,
              dust |-> call.pool - call.paid, holderCount |-> Len(Rules.holders),
              quorum |-> Rules.quorum,
              signers |-> {e.signers[i] : i \in Range(call.yes)},
              signatures |-> {e.signatures[i] : i \in Range(call.yes)},
              snapshot |-> [v \in Verifier |-> SnapshotOf(v)]]
<1>8. receipt = NewReceipt(a, c, e)
  <2>1. \A v \in Verifier :
          SnapshotOf(v) = IF v \in Range(cfg.verifiers) THEN ReputationOf(v).score ELSE None
    BY DEF AtScore, SnapshotOf, ScoreIn
  <2>2. [v \in Verifier |-> SnapshotOf(v)] =
          [v \in Verifier |-> IF v \in Range(cfg.verifiers)
                              THEN ReputationOf(v).score ELSE None]
    BY <2>1
  <2> DEFINE s == [v \in Verifier |-> SnapshotOf(v)]
             p == Paid(cfg, pools[a])
  <2>3. receipt = [asset |-> a, cycle |-> c, total |-> p,
                   dust |-> pools[a] - p, holderCount |-> Len(cfg.holders),
                   quorum |-> cfg.quorum,
                   signers |-> {e.signers[i] : i \in yes},
                   signatures |-> {e.signatures[i] : i \in yes}, snapshot |-> s]
    <3> HIDE DEF s, p, yes
    <3> QED BY <1>1, <1>3, <1>4 DEF Rules, s, p
  <2> QED BY <2>2, <2>3 DEF NewReceipt
<1>9. /\ receipts' = [receipts EXCEPT ![k] = receipt]
      /\ events' = Append(events, EventOf(receipt))
  BY <1>6 DEF Commit
<1> HIDE DEF receipt
<1>10. /\ purse' = purse - Paid(cfg, pools[a])
       /\ pools' = [pools EXCEPT ![a] = @ - Paid(cfg, pools[a])]
       /\ distributed' = distributed \cup {k}
       /\ balance' = [h \in Holder |-> balance[h] + PaidTo(cfg, pools[a], h)]
  <2>1. /\ purse' = journal.purse /\ pools' = journal.pools /\ balance' = journal.balance
        /\ distributed' = journal.distributed
    BY DEF Commit
  <2> HIDE DEF k, a, cfg, n
  <2> QED BY <1>3, <1>6, <2>1
<1>11. verifierRegistry' =
         [v \in Verifier |-> IF v \in Range(cfg.verifiers)
                             THEN Scored(v, k, e, CountedVotes(cfg, a, c, e))
                             ELSE verifierRegistry[v]]
  BY <1>6, <1>7 DEF Commit
<1>12. UNCHANGED <<assets, verifierKeys, briefs, servicerKey, signed, funded>>
  BY DEF Commit
<1>13. Distribute(a, c, e)
  BY <1>2, <1>5, <1>8, <1>9, <1>10, <1>11, <1>12, Zenon DEF Distribute
<1>14. Follows
  BY <1>2 DEF Commit, NoCall, Follows, CallOK
<1> QED BY <1>13, <1>14

-----------------------------------------------------------------------------
(* The claims. *)

ExecInv == TypeInv /\ CallInv

\* What is asked of the reason with which a call ends, in one step.
ReasonAgrees ==
  call.pc # "none" /\ call'.pc = "none" /\ call'.result # "TransferFailed"
    => call'.result = DistributeError(call.asset, call.cycle, call.evidence)

\* No call is under way at first.
LEMMA InitExecInv == ExecInit => ExecInv
BY InitTypeInv DEF ExecInit, ExecInv, CallInv, CallOK, Submittable, NoCall

\* What a call knows while nobody else writes survives the step.
LEMMA Kept ==
  ASSUME UNCHANGED vars, CallOK(call', journal'), Submittable(call')
  PROVE  CallInv'
<1>1. CallOK(call, journal)'
  BY Carry DEF vars, contractVars
<1>2. Submittable(call)'
  BY DEF Submittable, vars
<1> QED BY <1>1, <1>2 DEF CallInv

\* So does a step of the call itself.
LEMMA KeptFollows ==
  ASSUME CallInv, call.pc # "none", UNCHANGED vars, Follows
  PROVE  CallInv' /\ ReasonAgrees
<1>1. Submittable(call')
  BY DEF Follows, Submittable, CallInv
<1>2. CallInv'
  BY <1>1, Kept DEF Follows
<1> QED BY <1>2 DEF Follows, ReasonAgrees

\* Every step of the loops is a step of ServicerVault or none at all.
LEMMA StepExecInv ==
  ASSUME ExecInv, ExecNext
  PROVE  [Next]_vars /\ CallInv' /\ ReasonAgrees
<1>1. /\ TypeInv /\ CallOK(call, journal) /\ Submittable(call) /\ CallInv
  BY DEF ExecInv, CallInv
<1>2. ASSUME NEW a \in Asset, NEW c \in Cycle, NEW e \in Evidence, Enter(a, c, e)
      PROVE  [Next]_vars /\ CallInv' /\ ReasonAgrees
  <2>1. UNCHANGED vars /\ call.pc = "none"
    BY <1>2 DEF Enter, Running
  <2>2. CallOK(call', journal') /\ Submittable(call')
    BY <1>2, EnterStep
  <2> QED BY <2>1, <2>2, Kept DEF ReasonAgrees
<1>3. CASE Checks
  <2>1. UNCHANGED vars /\ call.pc = "checks"
    BY <1>3 DEF Checks, Revert, Goto, Running
  <2>2. call \in Calls /\ AtChecks(call, journal)
    BY <1>1, <2>1 DEF CallOK
  <2>3. Follows
    BY <1>3, <2>2, ChecksStep
  <2> QED BY <1>1, <2>1, <2>3, KeptFollows
<1>4. CASE CountVote
  <2>1. UNCHANGED vars /\ call.pc = "votes"
    BY <1>4 DEF CountVote, Running
  <2>2. call \in Calls /\ AtVotes(call, journal)
    BY <1>1, <2>1 DEF CallOK
  <2>3. Follows
    BY <1>4, <2>2, CountVoteStep
  <2> QED BY <1>1, <2>1, <2>3, KeptFollows
<1>5. CASE Tally
  <2>1. UNCHANGED vars /\ call.pc = "votes"
    BY <1>5 DEF Tally, Revert, Running
  <2>2. call \in Calls /\ AtVotes(call, journal)
    BY <1>1, <2>1 DEF CallOK
  <2>3. Follows
    BY <1>1, <1>5, <2>2, TallyStep
  <2> QED BY <1>1, <2>1, <2>3, KeptFollows
<1>6. CASE SkipHolder
  <2>1. UNCHANGED vars /\ call.pc = "pay"
    BY <1>6 DEF SkipHolder, Paying, Running
  <2>2. call \in Calls /\ AtPay(call, journal)
    BY <1>1, <2>1 DEF CallOK
  <2>3. Follows
    BY <1>1, <1>6, <2>2, SkipHolderStep
  <2> QED BY <1>1, <2>1, <2>3, KeptFollows
<1>7. CASE Transfer
  <2>1. UNCHANGED vars /\ call.pc = "pay"
    BY <1>7 DEF Transfer, Paying, Running
  <2>2. call \in Calls /\ AtPay(call, journal)
    BY <1>1, <2>1 DEF CallOK
  <2>3. Follows
    BY <1>1, <1>7, <2>2, TransferStep
  <2> QED BY <1>1, <2>1, <2>3, KeptFollows
<1>8. CASE TransferFails
  <2>1. UNCHANGED vars /\ call.pc = "pay"
    BY <1>8 DEF TransferFails, Paying, Running, Revert
  <2>2. Follows
    BY <1>8, TransferFailsStep
  <2> QED BY <1>1, <2>1, <2>2, KeptFollows
<1>9. CASE Settle
  <2>1. UNCHANGED vars /\ call.pc = "pay"
    BY <1>9 DEF Settle, Running
  <2>2. call \in Calls /\ AtPay(call, journal)
    BY <1>1, <2>1 DEF CallOK
  <2>3. Follows
    BY <1>1, <1>9, <2>2, SettleStep
  <2> QED BY <1>1, <2>1, <2>3, KeptFollows
<1>10. CASE Score
  <2>1. UNCHANGED vars /\ call.pc = "score"
    BY <1>10 DEF Score, Running
  <2>2. call \in Calls /\ AtScore(call, journal)
    BY <1>1, <2>1 DEF CallOK
  <2>3. Follows
    BY <1>1, <1>10, <2>2, ScoreStep
  <2> QED BY <1>1, <2>1, <2>3, KeptFollows
<1>11. CASE Commit
  <2>1. call.pc = "score" /\ call'.pc = "none"
    BY <1>11 DEF Commit, Running, NoCall
  <2>2. call \in Calls /\ AtScore(call, journal)
    BY <1>1, <2>1 DEF CallOK
  <2>3. Distribute(call.asset, call.cycle, call.evidence) /\ Follows
    BY <1>1, <1>11, <2>2, CommitStep
  <2>4. Next
    <3>1. call.asset \in Asset /\ call.cycle \in Cycle /\ call.evidence \in Evidence
      BY <2>2, CallNumbers
    <3> QED BY <2>3, <3>1 DEF Next
  <2>5. CallInv'
    BY <2>1 DEF CallInv, CallOK, Submittable
  <2> QED BY <2>3, <2>4, <2>5 DEF Follows, ReasonAgrees
<1>12. CASE Others /\ UNCHANGED <<call, journal>>
  <2>1. ReasonAgrees
    BY <1>12 DEF ReasonAgrees
  <2>2. ASSUME Running("none") PROVE CallInv'
    BY <1>12, <2>2 DEF Running, CallInv, CallOK, Submittable
  <2>3. ASSUME NEW s \in Signable, Sign(s) PROVE CallInv'
    <3>1. /\ assets' = assets /\ pools' = pools /\ distributed' = distributed
          /\ receipts' = receipts /\ verifierRegistry' = verifierRegistry
          /\ events' = events /\ purse' = purse /\ balance' = balance
          /\ signed \subseteq signed'
      BY <2>3 DEF Sign, contractVars
    <3>2. CallOK(call', journal')
      BY <1>1, <1>12
    <3>3. CallOK(call, journal)'
      BY <3>1, <3>2, Carry
    <3>4. Submittable(call)'
      BY <1>1, <1>12, <3>1 DEF Submittable
    <3> QED BY <3>3, <3>4 DEF CallInv
  <2>4. Next
    BY <1>12, Zenon DEF Others, Next
  <2>5. CallInv'
    BY <1>12, <2>2, <2>3 DEF Others
  <2> QED BY <2>1, <2>4, <2>5
<1> QED BY <1>2, <1>3, <1>4, <1>5, <1>6, <1>7, <1>8, <1>9, <1>10, <1>11, <1>12
        DEF ExecNext

\* The same with steps that change nothing, and with the contract's types.
LEMMA NextExecInv ==
  ExecInv /\ [ExecNext]_execVars => [Next]_vars /\ ExecInv' /\ [ReasonAgrees]_execVars
<1> SUFFICES ASSUME ExecInv, [ExecNext]_execVars
             PROVE  [Next]_vars /\ ExecInv' /\ [ReasonAgrees]_execVars
  OBVIOUS
<1>1. [Next]_vars /\ CallInv' /\ [ReasonAgrees]_execVars
  <2>1. CASE ExecNext
    BY <2>1, StepExecInv
  <2>2. CASE UNCHANGED execVars
    <3>1. UNCHANGED vars /\ call' = call /\ journal' = journal
      BY <2>2 DEF execVars
    <3>2. CallOK(call', journal') /\ Submittable(call')
      BY <3>1 DEF ExecInv, CallInv
    <3>3. CallInv'
      BY <3>1, <3>2, Kept
    <3> QED BY <2>2, <3>1, <3>3
  <2> QED BY <2>1, <2>2
<1>2. TypeInv'
  BY <1>1, NextIsVaultStep, NextTypeInv DEF ExecInv
<1> QED BY <1>1, <1>2 DEF ExecInv

\* Hence the invariant.
LEMMA ExecInvariant == ExecSpec => []ExecInv
<1>1. ExecInv /\ [ExecNext]_execVars => ExecInv'
  BY NextExecInv
<1> QED BY <1>1, InitExecInv, PTL DEF ExecSpec

\* distribute's loops, whatever the lists, weights, votes, repetitions and
\* signatures they are run on and wherever the host reverts them, do what
\* ServicerVault's one step says, all of it or nothing.
THEOREM ExecImplementsVault == ExecSpec => ImplementsVault
<1>1. ExecInit => Init
  BY DEF ExecInit
<1>2. ExecInv /\ [ExecNext]_execVars => [Next]_vars
  BY NextExecInv
<1> QED BY <1>1, <1>2, ExecInvariant, PTL DEF ExecSpec, ImplementsVault, Spec

\* A call of distribute ends with the reason that ServicerVault gives for it,
\* a failing host transfer aside: with "ok" exactly when there is none.
THEOREM ReasonsAreTrue == ExecSpec => ReasonsAgree
<1>1. ExecInv /\ [ExecNext]_execVars => [ReasonAgrees]_execVars
  BY NextExecInv
<1> QED BY <1>1, ExecInvariant, PTL DEF ExecSpec, ReasonsAgree, ReasonAgrees
=============================================================================
