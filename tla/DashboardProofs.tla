-------------------------- MODULE DashboardProofs --------------------------
(***************************************************************************)
(* Theorems about the dashboard next to the vault: that the registry and   *)
(* the receipt card, computed from a list that was written down, say what  *)
(* the contract says, for lists and histories of any length.               *)
(***************************************************************************)
EXTENDS Dashboard, ServicerVaultProofs

-----------------------------------------------------------------------------
(* The list. *)

Entries ==
  [cycle : Cycle, status : {"distributed", "halted"}, payouts : Seq(Nat),
   verdicts : Seq([source : Verifier, signer : Verifier, yes : BOOLEAN]),
   quorum : [yesCount : Nat, required : Nat, met : BOOLEAN]]

Appears(x, v) == \E i \in DOMAIN x.verdicts : x.verdicts[i].source = v

\* The positions of a list, and those of a list with one entry more.
LEMMA Appended ==
  ASSUME NEW l \in Seq(Entries), NEW x \in Entries
  PROVE  /\ Append(l, x) \in Seq(Entries)
         /\ DOMAIN l = 1 .. Len(l) /\ Len(l) \in Nat
         /\ DOMAIN Append(l, x) = DOMAIN l \cup {Len(l) + 1}
         /\ Len(l) + 1 \notin DOMAIN l
         /\ \A n \in DOMAIN l : Append(l, x)[n] = l[n]
         /\ Append(l, x)[Len(l) + 1] = x
<1> HIDE DEF Entries
<1> QED OBVIOUS

\* The sets that the pages count are finite.
LEMMA ScoredFinite ==
  ASSUME NEW l \in Seq(Entries), NEW v
  PROVE  /\ ScoredEntries(l) \in SUBSET (1 .. Len(l))
         /\ VotedIn(l, v) \in SUBSET ScoredEntries(l)
         /\ IsFiniteSet(ScoredEntries(l)) /\ Cardinality(ScoredEntries(l)) \in Nat
         /\ IsFiniteSet(VotedIn(l, v)) /\ Cardinality(VotedIn(l, v)) \in Nat
         /\ LET agreed == {n \in VotedIn(l, v) : VerdictIn(l[n], v)}
            IN  IsFiniteSet(agreed) /\ Cardinality(agreed) \in Nat
<1> DEFINE agreed == {n \in VotedIn(l, v) : VerdictIn(l[n], v)}
<1>1. ScoredEntries(l) \in SUBSET (1 .. Len(l)) /\ Len(l) \in Nat
  BY DEF ScoredEntries
<1>2. VotedIn(l, v) \in SUBSET ScoredEntries(l) /\ agreed \in SUBSET VotedIn(l, v)
  BY DEF VotedIn
<1>3. IsFiniteSet(1 .. Len(l))
  BY <1>1, FS_Interval
<1> HIDE DEF agreed
<1>4. IsFiniteSet(ScoredEntries(l))
  BY <1>1, <1>3, FS_Subset
<1>5. IsFiniteSet(VotedIn(l, v))
  BY <1>2, <1>4, FS_Subset
<1>6. IsFiniteSet(agreed)
  BY <1>2, <1>5, FS_Subset
<1>7. Cardinality(ScoredEntries(l)) \in Nat /\ Cardinality(VotedIn(l, v)) \in Nat
      /\ Cardinality(agreed) \in Nat
  BY <1>4, <1>5, <1>6, FS_CardinalityType
<1> QED BY <1>1, <1>2, <1>4, <1>5, <1>6, <1>7 DEF agreed

\* A run that halted is not scored.
LEMMA ScoredAfterHalt ==
  ASSUME NEW l \in Seq(Entries), NEW x \in Entries, NEW v, x.status = "halted"
  PROVE  /\ ScoredEntries(Append(l, x)) = ScoredEntries(l)
         /\ VotedIn(Append(l, x), v) = VotedIn(l, v)
         /\ ScoreFrom(Append(l, x), v) = ScoreFrom(l, v)
<1> DEFINE m == Append(l, x)
<1>1. /\ DOMAIN m = DOMAIN l \cup {Len(l) + 1}
      /\ \A n \in DOMAIN l : m[n] = l[n]
      /\ m[Len(l) + 1] = x
  BY Appended
<1> HIDE DEF m, Entries
<1>2. ScoredEntries(m) = ScoredEntries(l)
  BY <1>1 DEF ScoredEntries
<1>3. \A n \in ScoredEntries(l) : m[n] = l[n]
  BY <1>1 DEF ScoredEntries
<1>4. VotedIn(m, v) = VotedIn(l, v)
  BY <1>2, <1>3 DEF VotedIn
<1>5. {n \in VotedIn(m, v) : VerdictIn(m[n], v)} = {n \in VotedIn(l, v) : VerdictIn(l[n], v)}
  BY <1>3, <1>4 DEF VotedIn
<1>6. ScoreFrom(m, v) = ScoreFrom(l, v)
  BY <1>2, <1>4, <1>5 DEF ScoreFrom
<1> QED BY <1>2, <1>4, <1>6 DEF m

\* A settlement is scored for those who voted in it.
LEMMA ScoredAfterSettlement ==
  ASSUME NEW l \in Seq(Entries), NEW x \in Entries, NEW v, x.status = "distributed"
  PROVE  LET m == Append(l, x)
             last == Len(l) + 1
             s == ScoreFrom(l, v)
         IN  /\ ScoredEntries(m) = ScoredEntries(l) \cup {last}
             /\ VotedIn(m, v) = IF Appears(x, v) THEN VotedIn(l, v) \cup {last} ELSE VotedIn(l, v)
             /\ ScoreFrom(m, v) =
                  [seen   |-> s.seen + 1,
                   voted  |-> IF Appears(x, v) THEN s.voted + 1 ELSE s.voted,
                   agreed |-> IF Appears(x, v) /\ VerdictIn(x, v) THEN s.agreed + 1 ELSE s.agreed]
<1> DEFINE m == Append(l, x)
           last == Len(l) + 1
           agreed == {n \in VotedIn(l, v) : VerdictIn(l[n], v)}
           agreed2 == {n \in VotedIn(m, v) : VerdictIn(m[n], v)}
           s == ScoreFrom(l, v)
<1>1. /\ DOMAIN m = DOMAIN l \cup {last} /\ last \notin DOMAIN l
      /\ \A n \in DOMAIN l : m[n] = l[n]
      /\ m[last] = x
  BY Appended
<1>0. /\ IsFiniteSet(ScoredEntries(l)) /\ Cardinality(ScoredEntries(l)) \in Nat
      /\ IsFiniteSet(VotedIn(l, v)) /\ Cardinality(VotedIn(l, v)) \in Nat
      /\ IsFiniteSet(agreed) /\ Cardinality(agreed) \in Nat
  BY ScoredFinite
<1> HIDE DEF m, last, Entries
<1>2. ScoredEntries(m) = ScoredEntries(l) \cup {last}
  BY <1>1 DEF ScoredEntries
<1>3. \A n \in ScoredEntries(l) : m[n] = l[n] /\ n # last
  BY <1>1 DEF ScoredEntries
<1>4. VotedIn(m, v) = IF Appears(x, v) THEN VotedIn(l, v) \cup {last} ELSE VotedIn(l, v)
  BY <1>1, <1>2, <1>3 DEF VotedIn, Appears
<1>5. agreed2 = IF Appears(x, v) /\ VerdictIn(x, v) THEN agreed \cup {last} ELSE agreed
  BY <1>1, <1>3, <1>4 DEF VotedIn
<1>6. last \notin ScoredEntries(l) /\ last \notin VotedIn(l, v) /\ last \notin agreed
  BY <1>3 DEF VotedIn
<1>7. s = [seen |-> Cardinality(ScoredEntries(l)), voted |-> Cardinality(VotedIn(l, v)),
           agreed |-> Cardinality(agreed)]
  BY DEF ScoreFrom
<1>8. ScoreFrom(m, v) = [seen |-> Cardinality(ScoredEntries(m)), voted |-> Cardinality(VotedIn(m, v)),
                         agreed |-> Cardinality(agreed2)]
  BY DEF ScoreFrom
<1> HIDE DEF s, agreed, agreed2
<1>9. Cardinality(ScoredEntries(m)) = s.seen + 1
  BY <1>0, <1>2, <1>6, <1>7, FS_AddElement
<1>10. Cardinality(VotedIn(m, v)) = IF Appears(x, v) THEN s.voted + 1 ELSE s.voted
  BY <1>0, <1>4, <1>6, <1>7, FS_AddElement
<1>11. Cardinality(agreed2) =
         IF Appears(x, v) /\ VerdictIn(x, v) THEN s.agreed + 1 ELSE s.agreed
  BY <1>0, <1>5, <1>6, <1>7, FS_AddElement
<1>12. ScoreFrom(m, v) =
         [seen   |-> s.seen + 1,
          voted  |-> IF Appears(x, v) THEN s.voted + 1 ELSE s.voted,
          agreed |-> IF Appears(x, v) /\ VerdictIn(x, v) THEN s.agreed + 1 ELSE s.agreed]
  BY <1>8, <1>9, <1>10, <1>11
<1> QED BY <1>2, <1>4, <1>12 DEF m, last, s

\* A finite set of positions has a last one.
LEMMA LastElement ==
  ASSUME NEW n \in Nat, NEW T \in SUBSET (1 .. n), T # {}
  PROVE  \E x \in T : \A y \in T : y <= x
<1> DEFINE U == {n - x : x \in T}
<1>1. U \in SUBSET Nat /\ U # {}
  <2>1. \A x \in T : n - x \in Nat
    OBVIOUS
  <2>2. PICK x \in T : TRUE
    OBVIOUS
  <2>3. n - x \in U
    BY <2>2
  <2> QED BY <2>1, <2>3
<1>2. PICK u \in U : \A w \in U : u <= w
  BY <1>1, LeastElement
<1>3. PICK x \in T : u = n - x
  BY <1>2
<1>4. \A y \in T : n - x <= n - y
  BY <1>2, <1>3
<1> QED BY <1>4

\* What the contract's entry of v would be, from any list.
RowOf(l, v) ==
  LET voted == VotedIn(l, v)
      last  == l[CHOOSE n \in voted : \A m \in voted : m <= n]
  IN  [score |-> ScoreFrom(l, v),
       lastVerdict |-> IF voted = {} THEN None ELSE VerdictIn(last, v),
       lastCycle   |-> IF voted = {} THEN None ELSE Key(Shown, last.cycle)]

\* The rows that the pages show stand for these.
LEMMA Rows ==
  ASSUME ledger \in Seq(Entries), NEW v
  PROVE  EntryMeant(VerifierRegistryFromCommitted(v)) = RowOf(ledger, v)
<1> DEFINE voted == VotedIn(ledger, v)
           last == ledger[CHOOSE n \in voted : \A m \in voted : m <= n]
           row == VerifierRegistryFromCommitted(v)
<1>1. /\ row.score = ScoreFrom(ledger, v)
      /\ row.lastVerdict = IF voted = {} THEN None ELSE VerdictIn(last, v)
      /\ row.lastCycle = IF voted = {} THEN None ELSE last.cycle
  BY DEF VerifierRegistryFromCommitted
<1>2. row.score.voted = 0 <=> voted = {}
  <2>1. row.score.voted = Cardinality(voted)
    BY <1>1 DEF ScoreFrom
  <2>2. IsFiniteSet(voted)
    BY ScoredFinite
  <2> QED BY <2>1, <2>2, FS_EmptySet
<1>3. RowOf(ledger, v) =
        [score |-> ScoreFrom(ledger, v),
         lastVerdict |-> IF voted = {} THEN None ELSE VerdictIn(last, v),
         lastCycle   |-> IF voted = {} THEN None ELSE Key(Shown, last.cycle)]
  BY DEF RowOf
<1>4. EntryMeant(row) =
        [score |-> row.score, lastVerdict |-> row.lastVerdict,
         lastCycle |-> IF row.score.voted = 0 THEN None ELSE Key(Shown, row.lastCycle)]
  BY DEF EntryMeant
<1> HIDE DEF row, voted, last
<1>5. EntryMeant(row) = RowOf(ledger, v)
  BY <1>1, <1>2, <1>3, <1>4
<1> QED BY <1>5 DEF row

\* A run that halted changes no row.
LEMMA RowAfterHalt ==
  ASSUME NEW l \in Seq(Entries), NEW x \in Entries, NEW v, x.status = "halted"
  PROVE  RowOf(Append(l, x), v) = RowOf(l, v)
<1> DEFINE m == Append(l, x)
           voted == VotedIn(l, v)
           at == CHOOSE n \in voted : \A k \in voted : k <= n
<1>1. VotedIn(m, v) = voted /\ ScoreFrom(m, v) = ScoreFrom(l, v)
  BY ScoredAfterHalt
<1>2. voted \in SUBSET (1 .. Len(l)) /\ IsFiniteSet(voted) /\ voted \in SUBSET DOMAIN l
  BY ScoredFinite, Appended
<1>3. \A n \in DOMAIN l : m[n] = l[n]
  BY Appended
<1> SUFFICES RowOf(m, v) = RowOf(l, v)
  OBVIOUS
<1> HIDE DEF m, voted, Entries
<1>4. CASE voted = {}
  BY <1>1, <1>4 DEF RowOf, voted
<1>5. CASE voted # {}
  <2>1. \E n \in voted : \A k \in voted : k <= n
    BY <1>2, <1>5, LastElement, Appended
  <2>2. at \in voted
    BY <2>1
  <2>3. m[at] = l[at]
    BY <1>2, <1>3, <2>2
  <2> QED BY <1>1, <1>5, <2>3 DEF RowOf, voted
<1> QED BY <1>4, <1>5 DEF m

\* A settlement raises the scores of a row, and is the last one of those who
\* voted in it.
LEMMA RowAfterSettlement ==
  ASSUME NEW l \in Seq(Entries), NEW x \in Entries, NEW v, x.status = "distributed"
  PROVE  LET r == RowOf(l, v)
         IN  RowOf(Append(l, x), v) =
               IF Appears(x, v)
               THEN [score |-> [seen   |-> r.score.seen + 1,
                                voted  |-> r.score.voted + 1,
                                agreed |-> r.score.agreed + IF VerdictIn(x, v) THEN 1 ELSE 0],
                     lastVerdict |-> VerdictIn(x, v),
                     lastCycle   |-> Key(Shown, x.cycle)]
               ELSE [score |-> [seen   |-> r.score.seen + 1,
                                voted  |-> r.score.voted,
                                agreed |-> r.score.agreed],
                     lastVerdict |-> r.lastVerdict,
                     lastCycle   |-> r.lastCycle]
<1> DEFINE m == Append(l, x)
           last == Len(l) + 1
           voted == VotedIn(l, v)
           at == CHOOSE n \in voted : \A k \in voted : k <= n
           at2 == CHOOSE n \in VotedIn(m, v) : \A k \in VotedIn(m, v) : k <= n
           s == ScoreFrom(l, v)
           r == RowOf(l, v)
<1>1. /\ VotedIn(m, v) = IF Appears(x, v) THEN voted \cup {last} ELSE voted
      /\ ScoreFrom(m, v) =
           [seen   |-> s.seen + 1,
            voted  |-> IF Appears(x, v) THEN s.voted + 1 ELSE s.voted,
            agreed |-> IF Appears(x, v) /\ VerdictIn(x, v) THEN s.agreed + 1 ELSE s.agreed]
  BY ScoredAfterSettlement
<1>2. /\ voted \in SUBSET (1 .. Len(l)) /\ IsFiniteSet(voted) /\ voted \in SUBSET DOMAIN l
      /\ Len(l) \in Nat
  BY ScoredFinite, Appended
<1>3. /\ \A n \in DOMAIN l : m[n] = l[n]
      /\ m[last] = x
  BY Appended
<1>4. /\ r.score = s
      /\ r.lastVerdict = IF voted = {} THEN None ELSE VerdictIn(l[at], v)
      /\ r.lastCycle = IF voted = {} THEN None ELSE Key(Shown, l[at].cycle)
  BY DEF RowOf
<1>5. RowOf(m, v) =
        [score |-> ScoreFrom(m, v),
         lastVerdict |-> IF VotedIn(m, v) = {} THEN None ELSE VerdictIn(m[at2], v),
         lastCycle   |-> IF VotedIn(m, v) = {} THEN None ELSE Key(Shown, m[at2].cycle)]
  BY DEF RowOf
<1>6. s.agreed \in Nat
  BY ScoredFinite DEF ScoreFrom
<1> SUFFICES RowOf(m, v) =
               IF Appears(x, v)
               THEN [score |-> [seen   |-> r.score.seen + 1,
                                voted  |-> r.score.voted + 1,
                                agreed |-> r.score.agreed + IF VerdictIn(x, v) THEN 1 ELSE 0],
                     lastVerdict |-> VerdictIn(x, v),
                     lastCycle   |-> Key(Shown, x.cycle)]
               ELSE [score |-> [seen   |-> r.score.seen + 1,
                                voted  |-> r.score.voted,
                                agreed |-> r.score.agreed],
                     lastVerdict |-> r.lastVerdict,
                     lastCycle   |-> r.lastCycle]
  OBVIOUS
<1> HIDE DEF m, voted, r, s, Entries
<1>7. CASE Appears(x, v)
  <2>1. at2 = last
    <3>1. VotedIn(m, v) = voted \cup {last}
      BY <1>1, <1>7
    <3>2. \A k \in voted : k \in Nat /\ k < last
      BY <1>2
    <3> DEFINE T == VotedIn(m, v)
    <3> HIDE DEF T, last
    <3>3. last \in T /\ last \in Nat /\ \A k \in T : k \in Nat /\ k <= last
      BY <1>2, <3>1, <3>2 DEF T, last
    <3>4. \A n \in T : (\A k \in T : k <= n) => n = last
      BY <3>3
    <3> QED BY <3>3, <3>4 DEF T
  <2>2. VotedIn(m, v) # {}
    BY <1>1, <1>7
  <2>3. ScoreFrom(m, v) = [seen |-> s.seen + 1, voted |-> s.voted + 1,
                           agreed |-> s.agreed + IF VerdictIn(x, v) THEN 1 ELSE 0]
    BY <1>1, <1>6, <1>7
  <2> QED BY <1>3, <1>4, <1>5, <1>7, <2>1, <2>2, <2>3
<1>8. CASE ~Appears(x, v)
  <2>1. VotedIn(m, v) = voted /\ at2 = at
    BY <1>1, <1>8
  <2>2. ScoreFrom(m, v) = [seen |-> s.seen + 1, voted |-> s.voted, agreed |-> s.agreed]
    BY <1>1, <1>8
  <2>3. voted # {} => m[at] = l[at]
    <3> SUFFICES ASSUME voted # {} PROVE m[at] = l[at]
      OBVIOUS
    <3>1. \E n \in voted : \A k \in voted : k <= n
      BY <1>2, LastElement
    <3>2. at \in voted
      BY <3>1
    <3> QED BY <1>2, <1>3, <3>2
  <2> QED BY <1>4, <1>5, <1>8, <2>1, <2>2, <2>3
<1> QED BY <1>7, <1>8

-----------------------------------------------------------------------------
(* An entry of a run, next to the votes that the contract counts. *)

\* The votes of a registered verifier in a run whose verdicts were all
\* verified: the first is the one that is counted.
LEMMA CountedIsFirst ==
  ASSUME NEW cfg \in Configs, NEW c, NEW e \in EvidenceArrays, Genuine(Shown, c, e),
         NEW v \in Range(cfg.verifiers)
  PROVE  LET counted == CountedVotes(cfg, Shown, c, e)
         IN  /\ counted \in SUBSET DOMAIN e.signers
             /\ \A i \in counted : e.signers[i] = v =>
                  \A j \in DOMAIN e.signers : j < i => e.signers[j] # v
             /\ (\E i \in DOMAIN e.signers : e.signers[i] = v)
                  => \E i \in counted : e.signers[i] = v
<1> DEFINE signers == e.signers
           valid == ValidVotes(cfg, Shown, c, e)
           counted == CountedVotes(cfg, Shown, c, e)
           T == {i \in DOMAIN signers : signers[i] = v}
<1>1. T \in SUBSET Nat /\ DOMAIN signers \in SUBSET Nat
  BY DEF EvidenceArrays
<1>2. T \in SUBSET valid
  BY DEF ValidVotes, Genuine
<1>3. counted = {i \in valid : \A j \in valid : j < i => signers[j] # signers[i]}
  BY DEF CountedVotes
<1>4. valid \in SUBSET DOMAIN signers
  BY DEF ValidVotes
<1>5. counted \in SUBSET DOMAIN signers
  BY <1>3, <1>4
<1> SUFFICES /\ \A i \in counted : signers[i] = v =>
                  \A j \in DOMAIN signers : j < i => signers[j] # v
             /\ (\E i \in DOMAIN signers : signers[i] = v) => \E i \in counted : signers[i] = v
  BY <1>5
<1> HIDE DEF signers, valid, counted
<1>6. \A i \in counted : signers[i] = v => \A j \in DOMAIN signers : j < i => signers[j] # v
  <2> SUFFICES ASSUME NEW i \in counted, signers[i] = v,
                      NEW j \in DOMAIN signers, j < i, signers[j] = v
               PROVE  FALSE
    OBVIOUS
  <2>1. j \in valid
    BY <1>2
  <2> QED BY <1>3, <2>1
<1>7. ASSUME NEW k \in DOMAIN signers, signers[k] = v
      PROVE  \E i \in counted : signers[i] = v
  <2>1. k \in T
    BY <1>7
  <2>2. PICK i \in T : \A j \in T : i <= j
    BY <1>1, <2>1, LeastElement
  <2>3. signers[i] = v /\ i \in valid /\ i \in Nat
    BY <1>1, <1>2
  <2>4. \A j \in valid : j < i => signers[j] # v
    <3> SUFFICES ASSUME NEW j \in valid, j < i, signers[j] = v PROVE FALSE
      OBVIOUS
    <3>1. j \in T /\ j \in Nat
      BY <1>1, <1>4
    <3> QED BY <2>2, <2>3, <3>1
  <2> QED BY <1>3, <2>3, <2>4
<1> QED BY <1>6, <1>7

\* An entry says of every verifier of the asset what the contract counts.
CountsAs(x, c, e) ==
  LET cfg == assets[Shown]
      counted == CountedVotes(cfg, Shown, c, e)
  IN  /\ {x.verdicts[i].signer : i \in Yes(x)} =
           {e.signers[i] : i \in YesVotes(cfg, Shown, c, e)}
      /\ \A v \in Range(cfg.verifiers) :
           /\ Appears(x, v) <=> \E i \in counted : e.signers[i] = v
           /\ \A i \in counted : e.signers[i] = v => VerdictIn(x, v) = e.verdicts[i]

\* An entry that getCycles accepts does.
LEMMA EntryFacts ==
  ASSUME assets[Shown] \in Configs, NEW c \in Cycle, NEW e \in EvidenceArrays,
         NEW status \in {"distributed", "halted"}, NEW payouts, payouts \in Seq(Nat),
         NEW x, x = EntryOf(c, e, status, payouts), Genuine(Shown, c, e), Accepted(x)
  PROVE  /\ x \in Entries
         /\ x.cycle = c /\ x.status = status /\ x.payouts = payouts
         /\ x.quorum.required = assets[Shown].quorum
         /\ CountsAs(x, c, e)
<1> DEFINE cfg == assets[Shown]
           yes == YesVotes(cfg, Shown, c, e)
           counted == CountedVotes(cfg, Shown, c, e)
           n == Len(e.signers)
           verdicts == [i \in DOMAIN e.signers |-> [source |-> e.signers[i], signer |-> e.signers[i],
                                                  yes |-> e.verdicts[i]]]
<1>1. /\ e.signers \in Seq(Verifier) /\ e.verdicts \in Seq(BOOLEAN)
      /\ Len(e.verdicts) = n
  BY DEF EvidenceArrays, Genuine, ParallelArrays
<1>2. DOMAIN e.signers = 1 .. n /\ DOMAIN e.verdicts = 1 .. n /\ n \in Nat
  BY <1>1
<1>3. \A i \in 1 .. n : e.signers[i] \in Verifier /\ e.verdicts[i] \in BOOLEAN
  BY <1>1, <1>2
<1>4. /\ yes \in SUBSET counted /\ counted \in SUBSET DOMAIN e.signers
      /\ \A i \in counted : i \in yes <=> e.verdicts[i]
  BY DEF YesVotes, CountedVotes, ValidVotes
<1>5. IsFiniteSet(yes) /\ Cardinality(yes) \in Nat
  <2>1. IsFiniteSet(1 .. n)
    BY <1>2, FS_Interval
  <2> QED BY <1>2, <1>4, <2>1, FS_Subset, FS_CardinalityType
<1>6. x = [cycle |-> c, status |-> status, payouts |-> payouts, verdicts |-> verdicts,
           quorum |-> [yesCount |-> Cardinality(yes), required |-> cfg.quorum,
                       met |-> Cardinality(yes) >= cfg.quorum]]
  BY DEF EntryOf, Entry
<1>7. cfg.quorum \in Nat
  BY DEF Configs
<1>8. verdicts \in Seq([source : Verifier, signer : Verifier, yes : BOOLEAN]) /\ DOMAIN verdicts = 1 .. n
  BY <1>2, <1>3
<1>9. \A i \in 1 .. n : /\ verdicts[i].source = e.signers[i] /\ verdicts[i].signer = e.signers[i]
                        /\ verdicts[i].yes = e.verdicts[i]
  BY <1>2
<1>10. Accepted(x) /\ Genuine(Shown, c, e)
  OBVIOUS
<1> SUFFICES /\ x \in Entries
             /\ x.cycle = c /\ x.status = status /\ x.payouts = payouts
             /\ x.quorum.required = cfg.quorum
             /\ {x.verdicts[i].signer : i \in Yes(x)} = {e.signers[i] : i \in yes}
             /\ \A v \in Range(cfg.verifiers) :
                  /\ Appears(x, v) <=> \E i \in counted : e.signers[i] = v
                  /\ \A i \in counted : e.signers[i] = v => VerdictIn(x, v) = e.verdicts[i]
  BY DEF CountsAs
<1>11. cfg \in Configs
  OBVIOUS
<1> HIDE DEF yes, cfg, verdicts, n
<1>12. ASSUME NEW v \in Range(cfg.verifiers)
       PROVE  /\ \A i \in counted : e.signers[i] = v =>
                   \A j \in DOMAIN e.signers : j < i => e.signers[j] # v
              /\ (\E i \in DOMAIN e.signers : e.signers[i] = v) => \E i \in counted : e.signers[i] = v
  BY <1>10, <1>11, CountedIsFirst
<1> HIDE DEF counted
<1>13. x \in Entries
  BY <1>5, <1>6, <1>7, <1>8 DEF Entries
<1>14. /\ x.cycle = c /\ x.status = status /\ x.payouts = payouts /\ x.verdicts = verdicts
       /\ x.quorum.required = cfg.quorum /\ x.quorum.yesCount = Cardinality(yes)
  BY <1>6
<1>15. Yes(x) = {i \in 1 .. n : e.verdicts[i]}
  BY <1>8, <1>9, <1>14 DEF Yes
<1>16. yes \in SUBSET Yes(x) /\ IsFiniteSet(Yes(x))
  <2>1. yes \in SUBSET Yes(x)
    BY <1>2, <1>4, <1>15
  <2>2. Yes(x) \in SUBSET (1 .. n)
    BY <1>15
  <2>3. IsFiniteSet(1 .. n)
    BY <1>2, FS_Interval
  <2> QED BY <2>1, <2>2, <2>3, FS_Subset
<1>17. Yes(x) = yes
  BY <1>10, <1>14, <1>16, FS_Subset DEF Accepted
<1>18. {x.verdicts[i].signer : i \in Yes(x)} = {e.signers[i] : i \in yes}
  BY <1>9, <1>14, <1>15, <1>17
<1>19. ASSUME NEW v \in Range(cfg.verifiers)
       PROVE  /\ Appears(x, v) <=> \E i \in counted : e.signers[i] = v
              /\ \A i \in counted : e.signers[i] = v => VerdictIn(x, v) = e.verdicts[i]
  <2>1. Appears(x, v) <=> \E i \in DOMAIN e.signers : e.signers[i] = v
    <3>1. DOMAIN x.verdicts = 1 .. n /\ DOMAIN e.signers = 1 .. n
      BY <1>2, <1>8, <1>14
    <3>2. \A i \in 1 .. n : x.verdicts[i].source = e.signers[i]
      BY <1>9, <1>14
    <3> QED BY <3>1, <3>2 DEF Appears
  <2>2. Appears(x, v) <=> \E i \in counted : e.signers[i] = v
    BY <1>4, <1>12, <2>1
  <2>3. ASSUME NEW i \in counted, e.signers[i] = v
        PROVE  VerdictIn(x, v) = e.verdicts[i]
    <3>1. i \in 1 .. n
      BY <1>2, <1>4
    <3>2. \A j \in 1 .. n : j < i => e.signers[j] # v
      BY <1>2, <1>12, <2>3
    <3> DEFINE First(k) == /\ x.verdicts[k].source = v
                           /\ \A j \in 1 .. k - 1 : x.verdicts[j].source # v
    <3>3. First(i)
      <4>1. \A j \in 1 .. i - 1 : j \in 1 .. n /\ j < i
        BY <1>2, <3>1
      <4> QED BY <1>9, <1>14, <2>3, <3>1, <3>2, <4>1
    <3>4. ASSUME NEW k \in 1 .. n, First(k) PROVE k = i
      <4>1. ~(k < i)
        BY <1>9, <1>14, <3>2, <3>4
      <4>2. ~(i < k)
        <5> SUFFICES ASSUME i < k PROVE FALSE
          OBVIOUS
        <5>1. i \in 1 .. k - 1
          BY <1>2, <3>1
        <5> QED BY <1>9, <1>14, <2>3, <3>1, <3>4, <5>1
      <4> QED BY <1>2, <3>1, <4>1, <4>2
    <3>5. FirstOf(x, v) = CHOOSE k \in 1 .. n : First(k)
      BY <1>8, <1>14 DEF FirstOf
    <3> HIDE DEF First
    <3>6. FirstOf(x, v) = i
      BY <3>1, <3>3, <3>4, <3>5
    <3> QED BY <1>9, <1>14, <3>1, <3>6 DEF VerdictIn
  <2> QED BY <2>2, <2>3
<1> QED BY <1>13, <1>14, <1>18, <1>19

-----------------------------------------------------------------------------
(* The list and the log. *)

EventsOfShown == {n \in DOMAIN events : events[n].asset = Shown}

\* Only the verifiers of some asset have a record.
RegisteredBySome ==
  \A v \in Verifier : verifierRegistry[v] # None =>
    \E a \in Asset : assets[a] # None /\ v \in Range(assets[a].verifiers)

\* What an entry says of a settlement, its receipt says as well.
Agrees(r, x) ==
  /\ r # None /\ r.asset = Shown
  /\ r.total = Total(x.payouts) /\ r.holderCount = Len(x.payouts)
  /\ r.quorum = x.quorum.required
  /\ r.signers = {x.verdicts[i].signer : i \in Yes(x)}
ReceiptAgrees(x) == Agrees(receipts[Key(Shown, x.cycle)], x)

\* The rows of a complete list are those of the contract, and the rows as they
\* were before each settlement are the snapshots in its receipt.
RegistryMirrored ==
  assets[Shown] # None /\ ListIsComplete =>
    \A v \in Verifier : OnlyOfShown(v) => RowOf(ledger, v) = verifierRegistry[v]
SnapshotsMirrored ==
  assets[Shown] # None /\ ListIsComplete =>
    \A n \in ListedSettlements, v \in Verifier : OnlyOfShown(v) =>
      receipts[Key(Shown, ledger[n].cycle)].snapshot[v] = ScoreFrom(SubSeq(ledger, 1, n - 1), v)

\* While at most one cycle of the asset has settled, its deposits are in the
\* pool or were paid for that cycle.
FundedOnce ==
  /\ EventsOfShown = {} => funded[Shown] = pools[Shown]
  /\ \A n \in EventsOfShown : EventsOfShown = {n} =>
       funded[Shown] = pools[Shown] + events[n].total

ListInv ==
  /\ ledger \in Seq(Entries)
  /\ assets[Shown] = None => ledger = <<>>
  /\ Cardinality(ListedSettlements) <= Cardinality(EventsOfShown)
  /\ RegisteredBySome
  /\ \A n \in ListedSettlements : ReceiptAgrees(ledger[n])
  /\ RegistryMirrored
  /\ SnapshotsMirrored
  /\ FundedOnce

\* What SettlesListed and Halt need of a list: nothing before an entry changes
\* when another is appended.
LEMMA Prefixes ==
  ASSUME NEW l \in Seq(Entries), NEW x \in Entries
  PROVE  /\ \A n \in DOMAIN l : SubSeq(Append(l, x), 1, n - 1) = SubSeq(l, 1, n - 1)
         /\ SubSeq(Append(l, x), 1, Len(l)) = l
<1> DEFINE m == Append(l, x)
<1> HIDE DEF Entries
<1>1. /\ Len(l) \in Nat /\ Len(m) = Len(l) + 1
      /\ \A i \in 1 .. Len(l) : m[i] = l[i]
      /\ DOMAIN l = 1 .. Len(l) /\ m \in Seq(Entries)
  OBVIOUS
<1> SUFFICES /\ \A n \in DOMAIN l : SubSeq(m, 1, n - 1) = SubSeq(l, 1, n - 1)
             /\ SubSeq(m, 1, Len(l)) = l
  OBVIOUS
<1> HIDE DEF m
<1>2. ASSUME NEW n \in 1 .. Len(l)
      PROVE  SubSeq(m, 1, n - 1) = SubSeq(l, 1, n - 1)
  <2>1. /\ SubSeq(m, 1, n - 1) = [i \in 1 .. n - 1 |-> m[i]]
        /\ SubSeq(l, 1, n - 1) = [i \in 1 .. n - 1 |-> l[i]]
    BY <1>1
  <2>2. \A i \in 1 .. n - 1 : m[i] = l[i]
    BY <1>1
  <2> QED BY <2>1, <2>2
<1>3. SubSeq(m, 1, Len(l)) = l
  <2>1. SubSeq(m, 1, Len(l)) = [i \in 1 .. Len(l) |-> m[i]]
    BY <1>1
  <2>2. l = [i \in 1 .. Len(l) |-> l[i]]
    BY <1>1
  <2> QED BY <1>1, <2>1, <2>2
<1> QED BY <1>1, <1>2, <1>3

\* The settlements in the list and the events of the asset are finitely many.
LEMMA CountsFinite ==
  ASSUME TypeOK, ledger \in Seq(Entries)
  PROVE  /\ ListedSettlements = ScoredEntries(ledger)
         /\ ListedSettlements \in SUBSET DOMAIN ledger
         /\ IsFiniteSet(ListedSettlements) /\ Cardinality(ListedSettlements) \in Nat
         /\ DOMAIN events = 1 .. Len(events) /\ Len(events) \in Nat
         /\ EventsOfShown \in SUBSET DOMAIN events
         /\ IsFiniteSet(EventsOfShown) /\ Cardinality(EventsOfShown) \in Nat
<1>1. ListedSettlements = ScoredEntries(ledger)
  BY DEF ListedSettlements, ScoredEntries
<1>2. IsFiniteSet(ListedSettlements) /\ Cardinality(ListedSettlements) \in Nat
  BY <1>1, ScoredFinite
<1>3. DOMAIN events = 1 .. Len(events) /\ Len(events) \in Nat
  BY DEF TypeOK
<1>4. EventsOfShown \in SUBSET DOMAIN events
  BY DEF EventsOfShown
<1>5. IsFiniteSet(DOMAIN events)
  BY <1>3, FS_Interval
<1>6. IsFiniteSet(EventsOfShown) /\ Cardinality(EventsOfShown) \in Nat
  BY <1>4, <1>5, FS_Subset, FS_CardinalityType
<1> QED BY <1>1, <1>2, <1>3, <1>4, <1>6 DEF ListedSettlements

\* A dashboard with an empty list beside a fresh deployment.
LEMMA InitListInv == DashboardInit => ListInv
<1> SUFFICES ASSUME DashboardInit PROVE ListInv
  OBVIOUS
<1>1. ledger = <<>> /\ ledger \in Seq(Entries) /\ ListedSettlements = {}
  BY DEF DashboardInit, ListedSettlements
<1>2. EventsOfShown = {}
  BY DEF DashboardInit, Init, EventsOfShown
<1>3. assets[Shown] = None /\ pools[Shown] = 0 /\ funded[Shown] = 0
  BY ShownAssumption DEF DashboardInit, Init
<1>4. \A v \in Verifier : verifierRegistry[v] = None
  BY DEF DashboardInit, Init
<1>5. Cardinality(ListedSettlements) <= Cardinality(EventsOfShown)
  BY <1>1, <1>2, FS_EmptySet
<1> QED BY <1>1, <1>2, <1>3, <1>4, <1>5
        DEF ListInv, RegisteredBySome, RegistryMirrored, SnapshotsMirrored, FundedOnce

\* A halted run adds an entry that no page scores.
LEMMA HaltStep ==
  ASSUME LedgerInv, ListInv, NEW c \in Cycle, NEW e \in Evidence, Halt(c, e)
  PROVE  ListInv'
<1> DEFINE x == EntryOf(c, e, "halted", <<>>)
<1>1. /\ assets[Shown] # None /\ Genuine(Shown, c, e) /\ Accepted(x)
      /\ ledger' = Append(ledger, x)
      /\ UNCHANGED vars
  BY DEF Halt
<1>2. /\ TypeOK /\ ledger \in Seq(Entries) /\ e \in EvidenceArrays
      /\ assets[Shown] \in Configs
  BY <1>1, ShownAssumption, InputAssumption DEF LedgerInv, SafetyInv, TypeInv, TypeOK, ListInv
<1>3. x \in Entries /\ x.status = "halted"
  <2>1. <<>> \in Seq(Nat) /\ "halted" \in {"distributed", "halted"}
    OBVIOUS
  <2>2. x = EntryOf(c, e, "halted", <<>>)
    OBVIOUS
  <2>3. assets[Shown] \in Configs /\ Genuine(Shown, c, e) /\ Accepted(x)
    BY <1>1, <1>2
  <2> HIDE DEF x
  <2>4. \A payouts : payouts \in Seq(Nat) /\ x = EntryOf(c, e, "halted", payouts)
                      => x \in Entries /\ x.status = "halted"
    BY <1>2, <2>1, <2>3, EntryFacts
  <2> QED BY <2>1, <2>2, <2>4
<1>4. /\ UNCHANGED <<assets, pools, receipts, verifierRegistry, events, funded>>
  BY <1>1 DEF vars, contractVars
<1> HIDE DEF x, Entries
<1>5. /\ ledger' \in Seq(Entries)
      /\ \A n \in DOMAIN ledger : ledger'[n] = ledger[n]
      /\ \A n \in DOMAIN ledger : SubSeq(ledger', 1, n - 1) = SubSeq(ledger, 1, n - 1)
  BY <1>1, <1>2, <1>3, Appended, Prefixes
<1>6. ScoredEntries(ledger') = ScoredEntries(ledger)
  BY <1>1, <1>2, <1>3, ScoredAfterHalt
<1>7. /\ ListedSettlements = ScoredEntries(ledger)
      /\ ListedSettlements' = ScoredEntries(ledger')
      /\ ListedSettlements \in SUBSET DOMAIN ledger
  BY DEF ListedSettlements, ScoredEntries
<1>8. ListedSettlements' = ListedSettlements
  BY <1>6, <1>7
<1>9. EventsOfShown' = EventsOfShown /\ (ListIsComplete <=> ListIsComplete')
  BY <1>4, <1>8 DEF EventsOfShown, ListIsComplete
<1>10. \A v : OnlyOfShown(v) <=> OnlyOfShown(v)'
  BY <1>4 DEF OnlyOfShown
<1>11. Cardinality(ListedSettlements') <= Cardinality(EventsOfShown')
  BY <1>8, <1>9 DEF ListInv
<1>12. RegisteredBySome' /\ FundedOnce'
  BY <1>4, <1>9 DEF ListInv, RegisteredBySome, FundedOnce
<1>13. \A n \in ListedSettlements' : ReceiptAgrees(ledger[n])' 
  <2> SUFFICES ASSUME NEW n \in ListedSettlements' PROVE ReceiptAgrees(ledger[n])'
    OBVIOUS
  <2>1. n \in ListedSettlements /\ ledger'[n] = ledger[n]
    BY <1>5, <1>7, <1>8
  <2>2. ReceiptAgrees(ledger[n])
    BY <2>1 DEF ListInv
  <2> QED BY <1>4, <2>1, <2>2 DEF ReceiptAgrees
<1>14. RegistryMirrored'
  <2>1. \A v \in Verifier : RowOf(ledger', v) = RowOf(ledger, v)
    BY <1>1, <1>2, <1>3, RowAfterHalt
  <2> QED BY <1>4, <1>9, <1>10, <2>1 DEF ListInv, RegistryMirrored
<1>15. SnapshotsMirrored'
  <2> SUFFICES ASSUME assets'[Shown] # None, ListIsComplete',
                      NEW n \in ListedSettlements', NEW v \in Verifier, OnlyOfShown(v)'
               PROVE  receipts'[Key(Shown, ledger'[n].cycle)].snapshot[v]
                        = ScoreFrom(SubSeq(ledger', 1, n - 1), v)
    BY DEF SnapshotsMirrored
  <2>1. n \in ListedSettlements /\ n \in DOMAIN ledger
    BY <1>7, <1>8
  <2>2. receipts[Key(Shown, ledger[n].cycle)].snapshot[v] = ScoreFrom(SubSeq(ledger, 1, n - 1), v)
    BY <1>4, <1>9, <1>10, <2>1 DEF ListInv, SnapshotsMirrored
  <2> QED BY <1>4, <1>5, <2>1, <2>2
<1> QED BY <1>1, <1>4, <1>5, <1>11, <1>12, <1>13, <1>14, <1>15 DEF ListInv

\* The steps that neither settle nor register anything.
LEMMA QuietStep ==
  ASSUME ListInv, UNCHANGED <<ledger, assets, receipts, verifierRegistry, events>>,
         funded'[Shown] - pools'[Shown] = funded[Shown] - pools[Shown],
         pools[Shown] \in Nat, funded[Shown] \in Nat, pools'[Shown] \in Nat, funded'[Shown] \in Nat,
         \A n \in EventsOfShown : events[n].total \in Nat
  PROVE  ListInv'
<1>1. /\ EventsOfShown' = EventsOfShown /\ ListedSettlements' = ListedSettlements
      /\ ListIsComplete <=> ListIsComplete'
  BY DEF EventsOfShown, ListedSettlements, ListIsComplete
<1>2. \A v : OnlyOfShown(v) <=> OnlyOfShown(v)'
  BY DEF OnlyOfShown
<1>3. FundedOnce'
  <2>1. EventsOfShown = {} => funded'[Shown] = pools'[Shown]
    BY DEF ListInv, FundedOnce
  <2>2. ASSUME NEW n \in EventsOfShown, EventsOfShown = {n}
        PROVE  funded'[Shown] = pools'[Shown] + events[n].total
    <3>1. funded[Shown] = pools[Shown] + events[n].total
      BY <2>2 DEF ListInv, FundedOnce
    <3>2. events[n].total \in Nat
      BY <2>2
    <3> QED BY <3>1, <3>2
  <2> QED BY <1>1, <2>1, <2>2 DEF FundedOnce
<1>4. \A n \in ListedSettlements' : ReceiptAgrees(ledger[n])'
  BY <1>1 DEF ListInv, ReceiptAgrees
<1>5. RegistryMirrored' /\ SnapshotsMirrored'
  BY <1>1, <1>2 DEF ListInv, RegistryMirrored, SnapshotsMirrored
<1>6. RegisteredBySome'
  BY DEF ListInv, RegisteredBySome
<1> QED BY <1>1, <1>3, <1>4, <1>5, <1>6 DEF ListInv

\* A registration: of the asset shown, before anything was listed, or of
\* another, which may take verifiers from OnlyOfShown but adds none.
LEMMA RegisterStep ==
  ASSUME LedgerInv, ListInv, NEW caller \in Account, NEW a \in Asset, NEW cfg \in Registration,
         RegisterAsset(caller, a, cfg), ledger' = ledger
  PROVE  ListInv'
<1>1. /\ assets \in [Asset -> Configs \cup {None}] /\ cfg \in Configs /\ cfg # None
      /\ Range(cfg.verifiers) \subseteq Verifier
  <2>1. assets \in [Asset -> Configs \cup {None}]
    BY DEF LedgerInv, SafetyInv, TypeInv, TypeOK
  <2>2. cfg \in Configs /\ cfg # None
    BY InputAssumption, NoneAssumption
  <2>3. cfg.verifiers \in Seq(Verifier)
    BY <2>2 DEF Configs
  <2> QED BY <2>1, <2>2, <2>3 DEF Range
<1>2. /\ assets[a] = None /\ assets' = [assets EXCEPT ![a] = cfg]
      /\ \A v \in Verifier : verifierRegistry'[v] =
           IF v \in Range(cfg.verifiers) /\ verifierRegistry[v] = None
           THEN NewReputation ELSE verifierRegistry[v]
      /\ UNCHANGED <<pools, receipts, events, funded>>
  BY DEF RegisterAsset, RegisterError
<1>3. /\ assets'[a] = cfg
      /\ \A b \in Asset \ {a} : assets'[b] = assets[b]
      /\ \A b \in Asset : assets[b] # None => assets'[b] = assets[b]
  BY <1>1, <1>2
<1>4. /\ EventsOfShown' = EventsOfShown /\ ListedSettlements' = ListedSettlements
      /\ ListIsComplete <=> ListIsComplete'
  BY <1>2 DEF EventsOfShown, ListedSettlements, ListIsComplete
<1>5. RegisteredBySome'
  <2> SUFFICES ASSUME NEW v \in Verifier, verifierRegistry'[v] # None
               PROVE  \E b \in Asset : assets'[b] # None /\ v \in Range(assets'[b].verifiers)
    BY DEF RegisteredBySome
  <2>1. CASE v \in Range(cfg.verifiers)
    BY <1>1, <1>3, <2>1
  <2>2. CASE v \notin Range(cfg.verifiers)
    <3>1. verifierRegistry[v] # None
      BY <1>2, <2>2
    <3>2. PICK b \in Asset : assets[b] # None /\ v \in Range(assets[b].verifiers)
      BY <3>1 DEF ListInv, RegisteredBySome
    <3> QED BY <1>3, <3>2
  <2> QED BY <2>1, <2>2
<1>6. \A n \in ListedSettlements' : ReceiptAgrees(ledger[n])'
  <2> SUFFICES ASSUME NEW n \in ListedSettlements' PROVE ReceiptAgrees(ledger[n])'
    OBVIOUS
  <2>1. ReceiptAgrees(ledger[n])
    BY <1>4 DEF ListInv
  <2>2. ledger'[n] = ledger[n] /\ receipts' = receipts
    BY <1>2
  <2> QED BY <2>1, <2>2 DEF ReceiptAgrees
<1>7. FundedOnce'
  BY <1>2, <1>4 DEF ListInv, FundedOnce
<1>8. assets'[Shown] = None => ledger' = <<>>
  BY <1>1, <1>3, ShownAssumption DEF ListInv
<1>9. RegistryMirrored' /\ SnapshotsMirrored'
  <2>1. CASE a = Shown
    <3>1. ledger = <<>> /\ ledger' = <<>> /\ ListedSettlements' = {}
      BY <1>2, <1>4, <2>1 DEF ListInv, ListedSettlements
    <3>2. ASSUME NEW v \in Verifier, OnlyOfShown(v)'
          PROVE  RowOf(ledger', v) = verifierRegistry'[v]
      <4>1. /\ v \in Range(cfg.verifiers)
            /\ \A b \in Asset \ {a} : assets[b] = None \/ v \notin Range(assets[b].verifiers)
        BY <1>3, <2>1, <3>2 DEF OnlyOfShown
      <4>2. verifierRegistry[v] = None
        BY <1>2, <4>1 DEF ListInv, RegisteredBySome
      <4>3. verifierRegistry'[v] = NewReputation
        BY <1>2, <4>1, <4>2
      <4>4. /\ ScoredEntries(<<>>) = {} /\ VotedIn(<<>>, v) = {}
            /\ {n \in VotedIn(<<>>, v) : VerdictIn(<<>>[n], v)} = {}
        BY DEF ScoredEntries, VotedIn
      <4>5. ScoreFrom(<<>>, v) = [seen |-> 0, voted |-> 0, agreed |-> 0]
        BY <4>4, FS_EmptySet DEF ScoreFrom
      <4>6. RowOf(<<>>, v) = NewReputation
        BY <4>4, <4>5 DEF RowOf, NewReputation
      <4> QED BY <3>1, <4>3, <4>6
    <3> QED BY <3>1, <3>2 DEF RegistryMirrored, SnapshotsMirrored
  <2>2. CASE a # Shown
    <3>1. assets'[Shown] = assets[Shown]
      BY <1>3, <2>2, ShownAssumption
    <3>2. ASSUME NEW v \in Verifier, OnlyOfShown(v)'
          PROVE  OnlyOfShown(v) /\ verifierRegistry'[v] = verifierRegistry[v]
      <4>1. v \in Range(assets[Shown].verifiers)
        BY <3>1, <3>2 DEF OnlyOfShown
      <4>2. v \notin Range(cfg.verifiers)
        BY <1>1, <1>3, <2>2, <3>2 DEF OnlyOfShown
      <4>3. ASSUME NEW b \in Asset \ {Shown}
            PROVE  assets[b] = None \/ v \notin Range(assets[b].verifiers)
        BY <1>3, <3>2, <4>3 DEF OnlyOfShown
      <4> QED BY <1>2, <4>1, <4>2, <4>3 DEF OnlyOfShown
    <3>3. RegistryMirrored'
      BY <1>4, <3>1, <3>2 DEF ListInv, RegistryMirrored
    <3>4. SnapshotsMirrored'
      BY <1>2, <1>4, <3>1, <3>2 DEF ListInv, SnapshotsMirrored
    <3> QED BY <3>3, <3>4
  <2> QED BY <2>1, <2>2
<1> QED BY <1>4, <1>5, <1>6, <1>7, <1>8, <1>9 DEF ListInv

\* What a distribution does to the log, the money and the receipts, as far as
\* the asset shown is concerned.
LEMMA SettleFacts ==
  ASSUME LedgerInv, ledger \in Seq(Entries), NEW a \in Asset, NEW c \in Cycle, NEW e \in Evidence,
         Distribute(a, c, e)
  PROVE  LET last == Len(events) + 1
         IN  /\ last \notin EventsOfShown
             /\ EventsOfShown' = IF a = Shown THEN EventsOfShown \cup {last} ELSE EventsOfShown
             /\ Cardinality(EventsOfShown') =
                  IF a = Shown THEN Cardinality(EventsOfShown) + 1 ELSE Cardinality(EventsOfShown)
             /\ \A n \in EventsOfShown : events'[n] = events[n]
             /\ events'[last].total = Paid(assets[a], pools[a])
             /\ pools'[Shown] = IF a = Shown THEN pools[Shown] - Paid(assets[a], pools[a])
                                ELSE pools[Shown]
             /\ Paid(assets[a], pools[a]) \in Nat /\ pools[Shown] \in Nat
             /\ funded' = funded /\ assets' = assets
             /\ assets[a] \in Configs /\ assets[a] # None
             /\ \A k \in Settled : receipts'[k] = receipts[k]
             /\ receipts'[Key(a, c)] = NewReceipt(a, c, e)
<1> DEFINE last == Len(events) + 1
           receipt == NewReceipt(a, c, e)
           paid == Paid(assets[a], pools[a])
<1>1. SafetyInv /\ TypeOK /\ RulesValid /\ e \in EvidenceArrays
  BY InputAssumption DEF LedgerInv, SafetyInv, TypeInv
<1>2. /\ receipt \in Receipts
      /\ \A k \in Settled : receipts'[k] = receipts[k]
      /\ receipts'[Key(a, c)] = receipt
  BY <1>1, DistributeRecords
<1>3. /\ assets[a] \in Configs /\ assets[a] # None /\ paid \in Nat /\ pools[a] \in Nat
  BY <1>1, DistributeFacts
<1>4. /\ events' = Append(events, EventOf(receipt))
      /\ pools' = [pools EXCEPT ![a] = @ - paid]
      /\ funded' = funded /\ assets' = assets
  BY DEF Distribute
<1>5. receipt.asset = a /\ receipt.total = paid
  BY DEF NewReceipt
<1>6. EventOf(receipt).asset = a /\ EventOf(receipt).total = paid
  BY <1>5 DEF EventOf
<1>7. /\ EventsOfShown \in SUBSET DOMAIN events
      /\ IsFiniteSet(EventsOfShown) /\ Cardinality(EventsOfShown) \in Nat
      /\ DOMAIN events = 1 .. Len(events) /\ Len(events) \in Nat
  BY <1>1, CountsFinite
<1> HIDE DEF receipt, paid
<1>8. /\ DOMAIN events' = DOMAIN events \cup {last}
      /\ \A n \in DOMAIN events : events'[n] = events[n]
      /\ events'[last] = EventOf(receipt)
      /\ last \notin DOMAIN events
  <2>1. events \in Seq([asset : Asset, cycle : Cycle, total : Nat, signers : SUBSET Verifier])
    BY <1>1 DEF TypeOK
  <2> DEFINE x == EventOf(receipt)
  <2>2. events' = Append(events, x)
    BY <1>4
  <2> HIDE DEF x
  <2>3. /\ DOMAIN events' = 1 .. Len(events) + 1
        /\ \A n \in 1 .. Len(events) : events'[n] = events[n]
        /\ events'[Len(events) + 1] = x
    BY <2>1, <2>2
  <2> QED BY <1>7, <2>3 DEF x
<1>9. /\ pools[Shown] \in Nat
      /\ pools'[Shown] = IF a = Shown THEN pools[Shown] - paid ELSE pools[Shown]
  BY <1>1, <1>4, ShownAssumption DEF TypeOK
<1> HIDE DEF last
<1>10. /\ last \notin EventsOfShown
       /\ EventsOfShown' = IF a = Shown THEN EventsOfShown \cup {last} ELSE EventsOfShown
       /\ \A n \in EventsOfShown : events'[n] = events[n]
  BY <1>6, <1>8 DEF EventsOfShown
<1>11. Cardinality(EventsOfShown') =
         IF a = Shown THEN Cardinality(EventsOfShown) + 1 ELSE Cardinality(EventsOfShown)
  BY <1>7, <1>10, FS_AddElement
<1>12. events'[last].total = paid
  BY <1>6, <1>8
<1> QED BY <1>2, <1>3, <1>4, <1>9, <1>10, <1>11, <1>12 DEF last, receipt, paid

\* What every settlement keeps, listed or not.
LEMMA SettleKeeps ==
  ASSUME LedgerInv, ListInv, NEW a \in Asset, NEW c \in Cycle, NEW e \in Evidence,
         Distribute(a, c, e)
  PROVE  /\ RegisteredBySome' /\ FundedOnce'
         /\ \A n \in ListedSettlements :
              /\ Key(Shown, ledger[n].cycle) \in Settled
              /\ receipts'[Key(Shown, ledger[n].cycle)] = receipts[Key(Shown, ledger[n].cycle)]
         /\ \A v : OnlyOfShown(v)' <=> OnlyOfShown(v)
<1> DEFINE last == Len(events) + 1
           paid == Paid(assets[a], pools[a])
<1>1. /\ last \notin EventsOfShown
      /\ EventsOfShown' = IF a = Shown THEN EventsOfShown \cup {last} ELSE EventsOfShown
      /\ \A n \in EventsOfShown : events'[n] = events[n]
      /\ events'[last].total = paid
      /\ pools'[Shown] = IF a = Shown THEN pools[Shown] - paid ELSE pools[Shown]
      /\ paid \in Nat /\ pools[Shown] \in Nat
      /\ funded' = funded /\ assets' = assets
      /\ assets[a] # None
      /\ \A k \in Settled : receipts'[k] = receipts[k]
  BY SettleFacts DEF ListInv
<1> HIDE DEF last, paid
<1>2. FundedOnce'
  <2>1. CASE a # Shown
    BY <1>1, <2>1 DEF ListInv, FundedOnce
  <2>2. CASE a = Shown
    <3>1. EventsOfShown' = EventsOfShown \cup {last}
      BY <1>1, <2>2
    <3>2. ASSUME NEW n \in EventsOfShown', EventsOfShown' = {n}
          PROVE  funded'[Shown] = pools'[Shown] + events'[n].total
      <4>1. n = last /\ EventsOfShown = {}
        BY <1>1, <3>1, <3>2
      <4>2. funded[Shown] = pools[Shown]
        BY <4>1 DEF ListInv, FundedOnce
      <4> QED BY <1>1, <2>2, <4>1, <4>2
    <3> QED BY <3>1, <3>2 DEF FundedOnce
  <2> QED BY <2>1, <2>2
<1>3. RegisteredBySome'
  <2> SUFFICES ASSUME NEW v \in Verifier, verifierRegistry'[v] # None
               PROVE  \E b \in Asset : assets'[b] # None /\ v \in Range(assets'[b].verifiers)
    BY DEF RegisteredBySome
  <2>1. CASE v \in Range(assets[a].verifiers)
    BY <1>1, <2>1
  <2>2. CASE v \notin Range(assets[a].verifiers)
    <3>1. verifierRegistry[v] # None
      BY <2>2 DEF Distribute
    <3> QED BY <1>1, <3>1 DEF ListInv, RegisteredBySome
  <2> QED BY <2>1, <2>2
<1>4. ASSUME NEW n \in ListedSettlements
      PROVE  Key(Shown, ledger[n].cycle) \in Settled
  <2>1. ledger[n].cycle \in Cycle
    <3>1. ledger \in Seq(Entries) /\ n \in DOMAIN ledger
      BY DEF ListInv, ListedSettlements
    <3>2. ledger[n] \in Entries
      BY <3>1
    <3> QED BY <3>2 DEF Entries
  <2>2. Key(Shown, ledger[n].cycle) \in Keys
    BY <2>1, ShownAssumption DEF Keys
  <2>3. ReceiptAgrees(ledger[n])
    BY DEF ListInv
  <2> QED BY <2>2, <2>3 DEF ReceiptAgrees, Agrees, Settled
<1>5. \A v : OnlyOfShown(v)' <=> OnlyOfShown(v)
  BY <1>1 DEF OnlyOfShown
<1> QED BY <1>1, <1>2, <1>3, <1>4, <1>5

\* A settlement that is not listed: another asset's, or one that makes the
\* list incomplete for good.
LEMMA UnlistedSettle ==
  ASSUME LedgerInv, ListInv, NEW a \in Asset, NEW c \in Cycle, NEW e \in Evidence,
         Distribute(a, c, e), ledger' = ledger
  PROVE  ListInv'
<1>1. /\ RegisteredBySome' /\ FundedOnce'
      /\ \A n \in ListedSettlements :
           receipts'[Key(Shown, ledger[n].cycle)] = receipts[Key(Shown, ledger[n].cycle)]
      /\ \A v : OnlyOfShown(v)' <=> OnlyOfShown(v)
  BY SettleKeeps
<1>2. /\ Cardinality(EventsOfShown') =
           IF a = Shown THEN Cardinality(EventsOfShown) + 1 ELSE Cardinality(EventsOfShown)
      /\ assets' = assets /\ assets[a] # None
  BY SettleFacts DEF ListInv
<1>3. /\ Cardinality(ListedSettlements) \in Nat /\ Cardinality(EventsOfShown) \in Nat
      /\ ListedSettlements' = ListedSettlements
      /\ Cardinality(ListedSettlements) <= Cardinality(EventsOfShown)
  <2>1. TypeOK /\ ledger \in Seq(Entries)
    BY DEF LedgerInv, SafetyInv, TypeInv, ListInv
  <2> QED BY <2>1, CountsFinite DEF ListInv, ListedSettlements
<1>4. /\ ListIsComplete <=> Cardinality(ListedSettlements) = Cardinality(EventsOfShown)
      /\ ListIsComplete' <=> Cardinality(ListedSettlements') = Cardinality(EventsOfShown')
  BY DEF ListIsComplete, EventsOfShown
<1>5. ListIsComplete' => ListIsComplete /\ a # Shown
  BY <1>2, <1>3, <1>4
<1>6. Cardinality(ListedSettlements') <= Cardinality(EventsOfShown')
  BY <1>2, <1>3
<1>7. \A n \in ListedSettlements' : ReceiptAgrees(ledger[n])'
  <2> SUFFICES ASSUME NEW n \in ListedSettlements PROVE ReceiptAgrees(ledger[n])'
    BY <1>3
  <2>1. ReceiptAgrees(ledger[n])
    BY DEF ListInv
  <2>2. /\ ledger'[n] = ledger[n]
        /\ receipts'[Key(Shown, ledger[n].cycle)] = receipts[Key(Shown, ledger[n].cycle)]
    BY <1>1
  <2> QED BY <2>1, <2>2 DEF ReceiptAgrees
<1>8. ASSUME a # Shown, NEW v \in Verifier, OnlyOfShown(v)'
      PROVE  verifierRegistry'[v] = verifierRegistry[v]
  <2>1. OnlyOfShown(v)
    BY <1>1, <1>8
  <2>2. v \notin Range(assets[a].verifiers)
    BY <1>2, <1>8, <2>1 DEF OnlyOfShown
  <2> QED BY <2>2 DEF Distribute
<1>9. RegistryMirrored'
  BY <1>1, <1>2, <1>5, <1>8 DEF ListInv, RegistryMirrored
<1>10. SnapshotsMirrored'
  <2> SUFFICES ASSUME assets'[Shown] # None, ListIsComplete',
                      NEW n \in ListedSettlements', NEW v \in Verifier, OnlyOfShown(v)'
               PROVE  receipts'[Key(Shown, ledger'[n].cycle)].snapshot[v]
                        = ScoreFrom(SubSeq(ledger', 1, n - 1), v)
    BY DEF SnapshotsMirrored
  <2>1. n \in ListedSettlements
    BY <1>3
  <2>2. receipts[Key(Shown, ledger[n].cycle)].snapshot[v] = ScoreFrom(SubSeq(ledger, 1, n - 1), v)
    BY <1>1, <1>2, <1>5, <2>1 DEF ListInv, SnapshotsMirrored
  <2> QED BY <1>1, <2>1, <2>2
<1>11. ledger' \in Seq(Entries) /\ (assets'[Shown] = None => ledger' = <<>>)
  BY <1>2 DEF ListInv
<1> QED BY <1>1, <1>6, <1>7, <1>9, <1>10, <1>11 DEF ListInv

\* A settlement of the asset shown, with its entry.
LEMMA ListedSettle ==
  ASSUME LedgerInv, ListInv, NEW c \in Cycle, NEW e \in Evidence, Distribute(Shown, c, e),
         NEW x, x = EntryOf(c, e, "distributed", Shares(assets[Shown], pools[Shown])),
         Genuine(Shown, c, e), Accepted(x), ledger' = Append(ledger, x)
  PROVE  ListInv'
<1> DEFINE cfg == assets[Shown]
           pool == pools[Shown]
           k == Key(Shown, c)
           counted == CountedVotes(cfg, Shown, c, e)
           receipt == NewReceipt(Shown, c, e)
<1>1. /\ SafetyInv /\ TypeInv /\ TypeOK /\ RulesValid /\ RegistryIndexed
      /\ e \in EvidenceArrays /\ Shown \in Asset /\ ledger \in Seq(Entries)
  BY InputAssumption, ShownAssumption DEF LedgerInv, SafetyInv, TypeInv, ListInv
<1>2. /\ RegisteredBySome' /\ FundedOnce'
      /\ \A n \in ListedSettlements :
           receipts'[Key(Shown, ledger[n].cycle)] = receipts[Key(Shown, ledger[n].cycle)]
      /\ \A v : OnlyOfShown(v)' <=> OnlyOfShown(v)
  BY <1>1, SettleKeeps
<1>3. /\ Cardinality(EventsOfShown') = Cardinality(EventsOfShown) + 1
      /\ assets' = assets /\ cfg # None /\ cfg \in Configs
      /\ receipts'[k] = receipt
  BY <1>1, SettleFacts
<1>4. Shares(cfg, pool) \in Seq(Nat) /\ DOMAIN Shares(cfg, pool) = DOMAIN cfg.holders
  <2>1. TotalWeight(cfg) > 0 /\ pool \in Nat
    BY <1>1, DistributeFacts
  <2> QED BY <1>3, <2>1, PaidBounds
<1>5. /\ x \in Entries
      /\ x.cycle = c /\ x.status = "distributed" /\ x.payouts = Shares(cfg, pool)
      /\ x.quorum.required = cfg.quorum
      /\ CountsAs(x, c, e)
  <2>1. "distributed" \in {"distributed", "halted"}
    OBVIOUS
  <2> QED BY <1>1, <1>3, <1>4, <2>1, EntryFacts
<1>6. /\ \A v \in Range(cfg.verifiers) :
           v \in Verifier /\ verifierRegistry[v] \in Reputations /\ verifierRegistry[v] # None
  BY <1>1, DistributeIndex
<1>0. PICK last : last = Len(ledger) + 1
  OBVIOUS
<1>7. /\ ledger' \in Seq(Entries)
      /\ \A n \in DOMAIN ledger : ledger'[n] = ledger[n]
      /\ ledger'[last] = x /\ last \notin DOMAIN ledger
      /\ \A n \in DOMAIN ledger : SubSeq(ledger', 1, n - 1) = SubSeq(ledger, 1, n - 1)
      /\ SubSeq(ledger', 1, last - 1) = ledger
  <2>1. Len(ledger) \in Nat /\ last - 1 = Len(ledger)
    BY <1>0, <1>1
  <2> QED BY <1>0, <1>1, <1>5, <2>1, Appended, Prefixes
<1>8. /\ ListedSettlements = ScoredEntries(ledger)
      /\ ListedSettlements' = ScoredEntries(ledger')
      /\ ListedSettlements \in SUBSET DOMAIN ledger
  BY DEF ListedSettlements, ScoredEntries
<1>9. ListedSettlements' = ListedSettlements \cup {last}
  BY <1>0, <1>1, <1>5, <1>8, ScoredAfterSettlement
<1>10. /\ Cardinality(ListedSettlements') = Cardinality(ListedSettlements) + 1
       /\ Cardinality(ListedSettlements) \in Nat /\ Cardinality(EventsOfShown) \in Nat
  <2>1. /\ IsFiniteSet(ListedSettlements)
        /\ Cardinality(ListedSettlements) \in Nat /\ Cardinality(EventsOfShown) \in Nat
    BY <1>1, CountsFinite
  <2> QED BY <1>7, <1>8, <1>9, <2>1, FS_AddElement
<1>11. /\ ListIsComplete <=> Cardinality(ListedSettlements) = Cardinality(EventsOfShown)
       /\ ListIsComplete' <=> Cardinality(ListedSettlements') = Cardinality(EventsOfShown')
  BY DEF ListIsComplete, EventsOfShown
<1>12. ListIsComplete' => ListIsComplete
  BY <1>3, <1>10, <1>11
<1>13. Cardinality(ListedSettlements') <= Cardinality(EventsOfShown')
  BY <1>3, <1>10 DEF ListInv
<1>14. assets'[Shown] # None /\ assets[Shown] # None
  BY <1>3
<1>15. \A n \in ListedSettlements' : ReceiptAgrees(ledger[n])'
  <2>1. ASSUME NEW n \in ListedSettlements PROVE ReceiptAgrees(ledger[n])'
    <3>1. ReceiptAgrees(ledger[n])
      BY DEF ListInv
    <3>2. /\ ledger'[n] = ledger[n]
          /\ receipts'[Key(Shown, ledger[n].cycle)] = receipts[Key(Shown, ledger[n].cycle)]
      BY <1>2, <1>7, <1>8
    <3> QED BY <3>1, <3>2 DEF ReceiptAgrees
  <2>2. ReceiptAgrees(ledger[last])'
    <3>1. receipt # None
      BY <1>1, DistributeRecords
    <3>2. /\ receipt.asset = Shown /\ receipt.total = Paid(cfg, pool)
          /\ receipt.holderCount = Len(cfg.holders) /\ receipt.quorum = cfg.quorum
          /\ receipt.signers = {e.signers[i] : i \in YesVotes(cfg, Shown, c, e)}
      BY DEF NewReceipt
    <3>3. Paid(cfg, pool) = Total(x.payouts)
      BY <1>5 DEF Paid
    <3>4. Len(x.payouts) = Len(cfg.holders)
      <4>1. cfg.holders \in Seq([to : Holder, weight : Weights])
        BY <1>3 DEF Configs
      <4>2. x.payouts \in Seq(Nat) /\ DOMAIN x.payouts = DOMAIN cfg.holders
        BY <1>4, <1>5
      <4> QED BY <4>1, <4>2
    <3>5. receipt.signers = {x.verdicts[i].signer : i \in Yes(x)}
      BY <1>5, <3>2 DEF CountsAs
    <3>6. ledger'[last] = x /\ receipts'[Key(Shown, x.cycle)] = receipt
      BY <1>3, <1>5, <1>7
    <3> HIDE DEF receipt
    <3>7. Agrees(receipt, x)
      BY <1>5, <3>1, <3>2, <3>3, <3>4, <3>5 DEF Agrees
    <3>8. ledger[last]' = x /\ receipts'[Key(Shown, x.cycle)] = receipt
      BY <3>6
    <3> QED BY <3>7, <3>8 DEF ReceiptAgrees
  <2> SUFFICES ASSUME NEW n \in ListedSettlements' PROVE ReceiptAgrees(ledger[n])'
    OBVIOUS
  <2> QED BY <1>9, <2>1, <2>2
<1>16. RegistryMirrored'
  <2> SUFFICES ASSUME ListIsComplete', NEW v \in Verifier, OnlyOfShown(v)'
               PROVE  RowOf(ledger', v) = verifierRegistry'[v]
    BY DEF RegistryMirrored
  <2> DEFINE r == RowOf(ledger, v)
  <2>1. OnlyOfShown(v) /\ v \in Range(cfg.verifiers)
    BY <1>2 DEF OnlyOfShown
  <2>2. r = verifierRegistry[v] /\ r \in Reputations /\ r # None
    BY <1>6, <1>12, <1>14, <2>1 DEF ListInv, RegistryMirrored
  <2>3. RowOf(ledger', v) =
          IF Appears(x, v)
          THEN [score |-> [seen   |-> r.score.seen + 1,
                           voted  |-> r.score.voted + 1,
                           agreed |-> r.score.agreed + IF VerdictIn(x, v) THEN 1 ELSE 0],
                lastVerdict |-> VerdictIn(x, v),
                lastCycle   |-> Key(Shown, x.cycle)]
          ELSE [score |-> [seen   |-> r.score.seen + 1,
                           voted  |-> r.score.voted,
                           agreed |-> r.score.agreed],
                lastVerdict |-> r.lastVerdict,
                lastCycle   |-> r.lastCycle]
    BY <1>1, <1>5, RowAfterSettlement
  <2>4. verifierRegistry'[v] = Scored(v, k, e, counted)
    BY <2>1 DEF Distribute
  <2>5. ReputationOf(v) = r
    BY <2>2 DEF ReputationOf
  <2> DEFINE votes == {i \in counted : e.signers[i] = v}
             yes == e.verdicts[CHOOSE i \in votes : TRUE]
  <2>6. Scored(v, k, e, counted) =
          IF votes = {} THEN [r EXCEPT !.score.seen = @ + 1]
          ELSE [score |-> [seen   |-> r.score.seen + 1,
                           voted  |-> r.score.voted + 1,
                           agreed |-> r.score.agreed + IF yes THEN 1 ELSE 0],
                lastVerdict |-> yes,
                lastCycle   |-> k]
    BY <2>5 DEF Scored
  <2>7. /\ Appears(x, v) <=> votes # {}
        /\ votes # {} => VerdictIn(x, v) = yes
    BY <1>5, <2>1 DEF CountsAs
  <2>8. x.cycle = c
    BY <1>5
  <2> HIDE DEF r, votes, yes
  <2>9. CASE votes = {}
    <3>1. [r EXCEPT !.score.seen = @ + 1] =
            [score |-> [seen   |-> r.score.seen + 1,
                        voted  |-> r.score.voted,
                        agreed |-> r.score.agreed],
             lastVerdict |-> r.lastVerdict,
             lastCycle   |-> r.lastCycle]
      BY <2>2 DEF Reputations, Scores
    <3> QED BY <2>3, <2>4, <2>6, <2>7, <2>9, <3>1
  <2>10. CASE votes # {}
    BY <2>3, <2>4, <2>6, <2>7, <2>8, <2>10
  <2> QED BY <2>9, <2>10
<1>17. SnapshotsMirrored'
  <2> SUFFICES ASSUME ListIsComplete', NEW n \in ListedSettlements',
                      NEW v \in Verifier, OnlyOfShown(v)'
               PROVE  receipts'[Key(Shown, ledger'[n].cycle)].snapshot[v]
                        = ScoreFrom(SubSeq(ledger', 1, n - 1), v)
    BY DEF SnapshotsMirrored
  <2>1. OnlyOfShown(v) /\ v \in Range(cfg.verifiers) /\ ListIsComplete
    BY <1>2, <1>12 DEF OnlyOfShown
  <2>2. CASE n \in ListedSettlements
    <3>1. receipts[Key(Shown, ledger[n].cycle)].snapshot[v] = ScoreFrom(SubSeq(ledger, 1, n - 1), v)
      BY <1>14, <2>1, <2>2 DEF ListInv, SnapshotsMirrored
    <3> QED BY <1>2, <1>7, <1>8, <2>2, <3>1
  <2>3. CASE n = last
    <3>1. verifierRegistry[v] # None /\ RowOf(ledger, v) = verifierRegistry[v]
      BY <1>6, <1>14, <2>1 DEF ListInv, RegistryMirrored
    <3>2. ReputationOf(v).score = RowOf(ledger, v).score
      BY <3>1 DEF ReputationOf
    <3>3. RowOf(ledger, v).score = ScoreFrom(ledger, v)
      BY DEF RowOf
    <3>4. receipt.snapshot[v] = ReputationOf(v).score
      BY <1>1, <2>1, ReceiptSnapshot
    <3>5. ledger'[n] = x /\ x.cycle = c /\ SubSeq(ledger', 1, n - 1) = ledger
      BY <1>5, <1>7, <2>3
    <3>6. receipts'[Key(Shown, ledger'[n].cycle)] = receipt
      BY <1>3, <3>5
    <3> HIDE DEF receipt
    <3> QED BY <3>2, <3>3, <3>4, <3>5, <3>6
  <2> QED BY <1>9, <2>2, <2>3
<1> QED BY <1>2, <1>7, <1>13, <1>14, <1>15, <1>16, <1>17 DEF ListInv

-----------------------------------------------------------------------------
(* The invariant, and what the pages owe to it. *)

DashboardInv == LedgerInv /\ ListInv

\* A step that adds no event is none of distribute; the others move money, if
\* they do, into the pool.
LEMMA UnlistedStep ==
  ASSUME LedgerInv, ListInv, Unlisted
  PROVE  ListInv'
<1>1. /\ TypeOK /\ Shown \in Asset /\ events' = events /\ ledger' = ledger
      /\ [VaultStep]_vars
  BY NextIsVaultStep, ShownAssumption DEF Unlisted, LedgerInv, SafetyInv, TypeInv
<1>2. /\ pools[Shown] \in Nat /\ funded[Shown] \in Nat
      /\ \A n \in EventsOfShown : events[n].total \in Nat
  <2>1. pools[Shown] \in Nat /\ funded[Shown] \in Nat
    BY <1>1 DEF TypeOK
  <2> DEFINE E == [asset : Asset, cycle : Cycle, total : Nat, signers : SUBSET Verifier]
  <2>2. events \in Seq(E) /\ \A x \in E : x.total \in Nat
    BY <1>1 DEF TypeOK
  <2> HIDE DEF E
  <2>3. \A n \in DOMAIN events : events[n] \in E
    BY <2>2
  <2> QED BY <2>1, <2>2, <2>3 DEF EventsOfShown
<1>3. ASSUME UNCHANGED <<assets, receipts, verifierRegistry>>, UNCHANGED <<pools, funded>>
      PROVE  ListInv'
  <2>1. UNCHANGED <<ledger, assets, receipts, verifierRegistry, events>>
    BY <1>1, <1>3
  <2>2. pools'[Shown] = pools[Shown] /\ funded'[Shown] = funded[Shown]
    BY <1>3
  <2> QED BY <1>2, <2>1, <2>2, QuietStep
<1>4. ASSUME NEW s \in Signatures, Issue(s)
      PROVE  ListInv'
  BY <1>3, <1>4 DEF Issue, contractVars
<1>5. ASSUME NEW caller \in Account, NEW a \in Asset, NEW cfg \in Registration,
             RegisterAsset(caller, a, cfg)
      PROVE  ListInv'
  BY <1>1, <1>5, RegisterStep
<1>6. ASSUME NEW a \in Asset, NEW attached \in Attached, Fund(a, attached)
      PROVE  ListInv'
  <2>1. /\ pools' = [pools EXCEPT ![a] = @ + attached]
        /\ funded' = [funded EXCEPT ![a] = @ + attached]
        /\ UNCHANGED <<assets, receipts, verifierRegistry>>
    BY <1>6 DEF Fund
  <2>2. attached \in Nat /\ pools \in [Asset -> Nat] /\ funded \in [Asset -> Nat]
    BY <1>1, InputAssumption DEF TypeOK
  <2>3. \/ pools'[Shown] = pools[Shown] + attached /\ funded'[Shown] = funded[Shown] + attached
        \/ pools'[Shown] = pools[Shown] /\ funded'[Shown] = funded[Shown]
    BY <1>1, <2>1, <2>2
  <2>4. /\ pools'[Shown] \in Nat /\ funded'[Shown] \in Nat
        /\ funded'[Shown] - pools'[Shown] = funded[Shown] - pools[Shown]
    BY <1>2, <2>2, <2>3
  <2>5. UNCHANGED <<ledger, assets, receipts, verifierRegistry, events>>
    BY <1>1, <2>1
  <2> QED BY <1>2, <2>4, <2>5, QuietStep
<1>7. ASSUME NEW a \in Asset, NEW c \in Cycle, NEW e \in EvidenceArrays, Distribute(a, c, e)
      PROVE  FALSE
  <2>1. PICK x : events' = Append(events, x)
    BY <1>7 DEF Distribute
  <2>2. events \in Seq([asset : Asset, cycle : Cycle, total : Nat, signers : SUBSET Verifier])
    BY <1>1 DEF TypeOK
  <2>3. Len(events') = Len(events) + 1 /\ Len(events) \in Nat
    BY <2>1, <2>2
  <2> QED BY <1>1, <2>3
<1>8. ASSUME NEW caller \in Account, NEW a \in Asset, NEW c \in Cycle, NEW b \in Brief,
             RecordBrief(caller, a, c, b)
      PROVE  ListInv'
  BY <1>3, <1>8 DEF RecordBrief
<1>9. CASE UNCHANGED vars
  BY <1>3, <1>9 DEF vars, contractVars
<1> QED BY <1>1, <1>4, <1>5, <1>6, <1>7, <1>8, <1>9 DEF VaultStep

\* A settlement adds its entry if getCycles accepts it.
LEMMA SettleStep ==
  ASSUME LedgerInv, ListInv, NEW a \in Asset, NEW c \in Cycle, NEW e \in Evidence, Settle(a, c, e)
  PROVE  ListInv'
<1> DEFINE x == EntryOf(c, e, "distributed", Shares(assets[a], pools[a]))
<1>1. Distribute(a, c, e) /\ ledger' = Committed(a, c, e)
  BY DEF Settle
<1>2. \/ a = Shown /\ Genuine(a, c, e) /\ Accepted(x) /\ ledger' = Append(ledger, x)
      \/ ledger' = ledger
  BY <1>1 DEF Committed
<1>3. PICK y : y = x
  OBVIOUS
<1>4. CASE a = Shown /\ Genuine(a, c, e) /\ Accepted(x) /\ ledger' = Append(ledger, x)
  <2>1. /\ y = EntryOf(c, e, "distributed", Shares(assets[Shown], pools[Shown]))
        /\ Distribute(Shown, c, e) /\ Genuine(Shown, c, e) /\ Accepted(y)
        /\ ledger' = Append(ledger, y)
    BY <1>1, <1>3, <1>4
  <2> QED BY <2>1, ListedSettle
<1>5. CASE ledger' = ledger
  BY <1>1, <1>5, UnlistedSettle
<1> QED BY <1>2, <1>4, <1>5

\* Beside the dashboard the vault is the vault.
LEMMA DashboardStep == [DashboardNext]_<<vars, ledger>> => [VaultStep]_vars
<1>1. \A a \in Asset, c \in Cycle, e \in Evidence : Settle(a, c, e) => VaultStep
  BY InputAssumption DEF Settle, VaultStep
<1>2. \A c \in Cycle, e \in Evidence : Halt(c, e) => UNCHANGED vars
  BY DEF Halt
<1>3. Unlisted => [VaultStep]_vars
  BY NextIsVaultStep DEF Unlisted
<1> QED BY <1>1, <1>2, <1>3 DEF DashboardNext

\* DashboardInv is inductive.
LEMMA DashboardInvariant == DashboardSpec => []DashboardInv
<1>1. DashboardInit => DashboardInv
  BY InitLedgerInv, InitListInv DEF DashboardInit, DashboardInv
<1>2. DashboardInv /\ [DashboardNext]_<<vars, ledger>> => DashboardInv'
  <2> SUFFICES ASSUME LedgerInv, ListInv, [DashboardNext]_<<vars, ledger>>
               PROVE  LedgerInv' /\ ListInv'
    BY DEF DashboardInv
  <2>1. LedgerInv'
    BY DashboardStep, NextLedgerInv
  <2>2. CASE UNCHANGED <<vars, ledger>>
    <3>1. UNCHANGED <<ledger, assets, receipts, verifierRegistry, events, pools, funded>>
      BY <2>2 DEF vars, contractVars
    <3>2. (ListedSettlements' = ListedSettlements) /\ (EventsOfShown' = EventsOfShown)
          /\ (ListIsComplete' <=> ListIsComplete)
      BY <3>1 DEF ListedSettlements, EventsOfShown, ListIsComplete
    <3>3. \A v : OnlyOfShown(v)' <=> OnlyOfShown(v)
      BY <3>1 DEF OnlyOfShown
    <3>4. RegisteredBySome' /\ FundedOnce' /\ RegistryMirrored' /\ SnapshotsMirrored'
      BY <3>1, <3>2, <3>3
         DEF ListInv, RegisteredBySome, FundedOnce, RegistryMirrored, SnapshotsMirrored
    <3>5. \A n \in ListedSettlements' : ReceiptAgrees(ledger[n])'
      BY <3>1, <3>2 DEF ListInv, ReceiptAgrees
    <3> QED BY <2>1, <3>1, <3>2, <3>4, <3>5 DEF ListInv
  <2>3. CASE DashboardNext
    BY <2>1, <2>3, SettleStep, HaltStep, UnlistedStep DEF DashboardNext
  <2> QED BY <2>1, <2>2, <2>3
<1> QED BY <1>1, <1>2, PTL DEF DashboardSpec

\* The registry page shows the contract's registry, if every settlement of the
\* asset is listed and as far as its verifiers serve no other asset: for every
\* order of settlements, halted runs and registrations
\* (verifierRegistryFromCommitted).
THEOREM RegistryIsMirrored == DashboardSpec => []RegistryMirrorsChain
<1>1. DashboardInv => RegistryMirrorsChain
  BY Rows DEF DashboardInv, ListInv, RegistryMirrored, RegistryMirrorsChain
<1> QED BY <1>1, DashboardInvariant, PTL

\* The receipt card of a listed settlement says what get_receipt says
\* (distributionReceiptForCycle).
THEOREM ReceiptIsMirrored == DashboardSpec => []ReceiptMirrorsChain
<1>1. ASSUME DashboardInv, ListIsComplete, NEW n \in ListedSettlements
      PROVE  LET card     == DistributionReceiptForCycle(ledger[n])
                 receipt  == receipts[Key(Shown, ledger[n].cycle)]
                 once     == \A m \in DOMAIN ledger : ledger[m].cycle = ledger[n].cycle => m = n
                 untouched == pools[Shown] = receipt.dust /\ ListedSettlements = {n}
             IN  /\ receipt # None
                 /\ card.total = receipt.total
                 /\ card.holderCount = receipt.holderCount
                 /\ card.quorum = receipt.quorum
                 /\ card.signers = receipt.signers
                 /\ once => \A v \in {w \in Verifier : OnlyOfShown(w)} :
                              card.snapshot[v] = receipt.snapshot[v]
                 /\ untouched => card.dust = receipt.dust
  <2> DEFINE x == ledger[n]
             k == Key(Shown, x.cycle)
             receipt == receipts[k]
             card == DistributionReceiptForCycle(x)
             once == \A m \in DOMAIN ledger : ledger[m].cycle = x.cycle => m = n
  <2>1. /\ LedgerInv /\ ListInv /\ SafetyInv /\ TypeOK /\ RecordsAgree
        /\ ledger \in Seq(Entries) /\ Shown \in Asset
    BY <1>1, ShownAssumption DEF DashboardInv, LedgerInv, SafetyInv, TypeInv, ListInv
  <2>2. Agrees(receipt, x)
    BY <1>1, <2>1 DEF ListInv, ReceiptAgrees
  <2>3. n \in DOMAIN ledger /\ DOMAIN ledger = 1 .. Len(ledger) /\ Len(ledger) \in Nat
    BY <1>1, <2>1 DEF ListedSettlements
  <2>4. x \in Entries
    BY <2>1, <2>3
  <2>5. k \in Settled /\ k \in Keys
    <3>1. x.cycle \in Cycle
      BY <2>4 DEF Entries
    <3> QED BY <2>1, <2>2, <3>1 DEF Agrees, Settled, Keys
  <2>6. assets[Shown] # None
    BY <2>1, <2>3 DEF ListInv
  <2>7. /\ card.total = Total(x.payouts)
        /\ card.holderCount = Len(x.payouts)
        /\ card.quorum = x.quorum.required
        /\ card.signers = {x.verdicts[i].signer : i \in Yes(x)}
        /\ card.dust = IF funded[Shown] > Total(x.payouts)
                       THEN funded[Shown] - Total(x.payouts) ELSE 0
        /\ \A v \in Range(assets[Shown].verifiers) : card.snapshot[v] = ScoreFrom(Prior(x.cycle), v)
    BY DEF DistributionReceiptForCycle
  <2>8. ASSUME once, NEW v \in Verifier, OnlyOfShown(v)
        PROVE  card.snapshot[v] = receipt.snapshot[v]
    <3> DEFINE First(m) == /\ ledger[m].cycle = x.cycle
                           /\ \A j \in 1 .. m - 1 : ledger[j].cycle # x.cycle
    <3>1. First(n)
      <4>1. \A j \in 1 .. n - 1 : j \in DOMAIN ledger /\ j # n
        BY <2>3
      <4> QED BY <2>8, <4>1
    <3>2. \A m \in DOMAIN ledger : First(m) => m = n
      BY <2>8
    <3>3. IndexOf(x.cycle) = CHOOSE m \in DOMAIN ledger : First(m)
      BY DEF IndexOf
    <3> HIDE DEF First
    <3>4. IndexOf(x.cycle) = n
      BY <2>3, <3>1, <3>2, <3>3
    <3>5. Prior(x.cycle) = SubSeq(ledger, 1, n - 1)
      BY <3>4 DEF Prior
    <3>6. v \in Range(assets[Shown].verifiers)
      BY <2>8 DEF OnlyOfShown
    <3>7. receipt.snapshot[v] = ScoreFrom(SubSeq(ledger, 1, n - 1), v)
      BY <1>1, <2>1, <2>6, <2>8 DEF ListInv, SnapshotsMirrored
    <3> QED BY <2>7, <3>5, <3>6, <3>7
  <2>9. ASSUME pools[Shown] = receipt.dust, ListedSettlements = {n}
        PROVE  card.dust = receipt.dust
    <3>1. /\ IsFiniteSet(EventsOfShown)
          /\ Cardinality(ListedSettlements) = Cardinality(EventsOfShown)
      BY <1>1, <2>1, CountsFinite DEF ListIsComplete, EventsOfShown
    <3>2. Cardinality(EventsOfShown) = 1
      BY <2>9, <3>1, FS_Singleton
    <3>3. PICK m \in DOMAIN events : events[m] = EventOf(receipt)
      BY <2>1, <2>5 DEF RecordsAgree
    <3>4. receipt.asset = Shown /\ receipt.total = Total(x.payouts)
      BY <2>2 DEF Agrees
    <3>5. events[m].asset = Shown /\ events[m].total = receipt.total
      BY <3>3, <3>4 DEF EventOf
    <3>6. m \in EventsOfShown
      BY <3>5 DEF EventsOfShown
    <3>7. EventsOfShown = {m}
      BY <3>1, <3>2, <3>6, FS_Singleton
    <3>8. funded[Shown] = pools[Shown] + receipt.total
      BY <2>1, <3>5, <3>6, <3>7 DEF ListInv, FundedOnce
    <3>9. receipt \in Receipts
      BY <2>1, <2>5, NoneAssumption DEF TypeOK, Settled
    <3>10. receipt.total \in Nat /\ pools[Shown] \in Nat
      BY <2>1, <3>9 DEF Receipts, TypeOK
    <3> QED BY <2>7, <2>9, <3>4, <3>8, <3>10
  <2> HIDE DEF card
  <2> QED BY <2>2, <2>7, <2>8, <2>9 DEF Agrees, card
<1>2. DashboardInv => ReceiptMirrorsChain
  BY <1>1 DEF ReceiptMirrorsChain
<1> QED BY <1>2, DashboardInvariant, PTL
=============================================================================
