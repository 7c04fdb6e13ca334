----------------------------- MODULE AgentProofs -----------------------------
(***************************************************************************)
(* Theorems about the agent: what its pre-check counts (VerdictQuorum),    *)
(* and what its runs do to the vault and to the verifiers (Servicer).      *)
(***************************************************************************)
EXTENDS Servicer, VerdictQuorum, ServicerVaultProofs

-----------------------------------------------------------------------------
(* The loop of reachQuorum. *)

SignedVerdicts == [verdict   : Messages,
                   signature : Signatures \cup {Forged} \cup DOMAIN OddText,
                   signer    : DOMAIN KeyOf]

NothingCounted == [seen |-> {}, yes |-> <<>>]

\* g counts the first m of the verdicts, one by one.
Counts(g, svs, m) ==
  /\ g = [n \in 0 .. m |-> g[n]]
  /\ g[0] = NothingCounted
  /\ \A n \in 1 .. m : g[n] = CountVerdict(g[n - 1], svs[n])

\* Every prefix of the verdicts can be counted ...
LEMMA CountExists ==
  ASSUME NEW svs, Len(svs) \in Nat
  PROVE  \E g : Counts(g, svs, Len(svs))
<1> DEFINE S == {m \in Nat : \E g : Counts(g, svs, m)}
<1>1. Counts([n \in 0 .. 0 |-> NothingCounted], svs, 0)
  BY DEF Counts
<1>2. 0 \in S
  BY <1>1
<1>3. ASSUME NEW m \in S
      PROVE  \E h : Counts(h, svs, m + 1)
  <2>1. m \in Nat
    BY <1>3
  <2>2. PICK g : Counts(g, svs, m)
    BY <1>3
  <2> DEFINE last == CountVerdict(g[m], svs[m + 1])
             h == [n \in 0 .. (m + 1) |-> IF n = m + 1 THEN last ELSE g[n]]
  <2> HIDE DEF last
  <2>3. h[0] = NothingCounted
    BY <2>1, <2>2 DEF Counts
  <2>4. \A n \in 0 .. m : h[n] = g[n]
    BY <2>1
  <2>5. h[m + 1] = last
    BY <2>1
  <2>6. h = [n \in 0 .. (m + 1) |-> h[n]]
    OBVIOUS
  <2>7. \A n \in 1 .. (m + 1) : n - 1 \in 0 .. m /\ (n \in 1 .. m \/ n = m + 1)
    BY <2>1
  <2> HIDE DEF h
  <2>8. \A n \in 1 .. m : n \in 0 .. m /\ h[n] = CountVerdict(h[n - 1], svs[n])
    <3> TAKE n \in 1 .. m
    <3>1. n \in 0 .. m /\ n - 1 \in 0 .. m
      BY <2>1
    <3>2. g[n] = CountVerdict(g[n - 1], svs[n])
      BY <2>2 DEF Counts
    <3> QED BY <2>4, <3>1, <3>2
  <2>9. h[m + 1] = CountVerdict(h[(m + 1) - 1], svs[m + 1])
    <3>1. (m + 1) - 1 = m /\ m \in 0 .. m
      BY <2>1
    <3> QED BY <2>4, <2>5, <3>1 DEF last
  <2> QED BY <2>3, <2>6, <2>7, <2>8, <2>9 DEF Counts
<1>4. \A m \in S : m + 1 \in S
  BY <1>3
<1>5. S = Nat
  <2>1. S \in SUBSET Nat
    OBVIOUS
  <2> HIDE DEF S
  <2> QED BY <1>2, <1>4, <2>1, SetInduction
<1> QED BY <1>5

\* ... and Counted does so.
LEMMA CountedCounts ==
  ASSUME NEW svs, Len(svs) \in Nat
  PROVE  Counts(Counted(svs), svs, Len(svs))
<1> DEFINE Solves(g) == g = [n \in 0 .. Len(svs) |->
                               IF n = 0 THEN NothingCounted
                               ELSE CountVerdict(g[n - 1], svs[n])]
           h == Counted(svs)
<1>1. PICK g : Counts(g, svs, Len(svs))
  BY CountExists
<1>2. Solves(g)
  BY <1>1 DEF Counts
<1>3. h = CHOOSE f : Solves(f)
  BY DEF Counted, NothingCounted
<1>4. Solves(h)
  <2> HIDE DEF Solves, h
  <2> QED BY <1>2, <1>3, Zenon
<1> HIDE DEF h
<1>5. h = [n \in 0 .. Len(svs) |-> h[n]] /\ h[0] = NothingCounted
  BY <1>4
<1>6. \A n \in 1 .. Len(svs) : h[n] = CountVerdict(h[n - 1], svs[n])
  BY <1>4
<1> QED BY <1>5, <1>6 DEF Counts, h

\* A new element at the end of a list without repetitions.
LEMMA AppendNew ==
  ASSUME NEW X, NEW s \in Seq(X), NEW x \in X, IsInjective(s), x \notin Range(s)
  PROVE  /\ Append(s, x) \in Seq(X)
         /\ IsInjective(Append(s, x))
         /\ Range(Append(s, x)) = Range(s) \cup {x}
<1> DEFINE t == Append(s, x)
           m == Len(s)
<1>1. /\ m \in Nat /\ DOMAIN s = 1 .. m /\ DOMAIN t = 1 .. (m + 1) /\ t \in Seq(X)
      /\ t[m + 1] = x
      /\ \A i \in 1 .. m : t[i] = s[i]
  OBVIOUS
<1> HIDE DEF t, m
<1>2. \A i : i \in 1 .. (m + 1) <=> i \in 1 .. m \/ i = m + 1
  BY <1>1
<1>3. Range(t) = Range(s) \cup {x}
  BY <1>1, <1>2 DEF Range
<1>4. IsInjective(t)
  BY <1>1, <1>2 DEF IsInjective, Range
<1> QED BY <1>1, <1>3, <1>4 DEF t

\* The valid ones of the first n verdicts, those of them that are the first of
\* their signer, and the signers whose first one says "yes".
ValidUpTo(svs, n) == {i \in 1 .. n : VerifyVerdict(svs[i])}
FirstUpTo(svs, n) ==
  {i \in ValidUpTo(svs, n) :
     \A j \in ValidUpTo(svs, n) : svs[j].signer = svs[i].signer => i <= j}
YesUpTo(svs, n) == {svs[i].signer : i \in {j \in FirstUpTo(svs, n) : SaysYes(svs[j])}}

\* The state of the loop describes the verdicts it has passed.
Describes(acc, svs, n) ==
  /\ acc.seen = {svs[i].signer : i \in ValidUpTo(svs, n)}
  /\ acc.yes \in Seq(DOMAIN KeyOf)
  /\ IsInjective(acc.yes)
  /\ Range(acc.yes) = YesUpTo(svs, n)

\* One turn of the loop keeps the description up to date.
LEMMA CountDescribes ==
  ASSUME NEW svs \in Seq(SignedVerdicts), NEW n \in Nat, n + 1 <= Len(svs),
         NEW acc, Describes(acc, svs, n)
  PROVE  Describes(CountVerdict(acc, svs[n + 1]), svs, n + 1)
<1> DEFINE sv == svs[n + 1]
           new == CountVerdict(acc, sv)
           V == ValidUpTo(svs, n)
           W == ValidUpTo(svs, n + 1)
           F == FirstUpTo(svs, n)
           G == FirstUpTo(svs, n + 1)
           Goal == Describes(new, svs, n + 1)
<1>0. sv \in SignedVerdicts
  <2>1. n + 1 \in 1 .. Len(svs)
    OBVIOUS
  <2> HIDE DEF SignedVerdicts
  <2> QED BY <2>1
<1>1. sv.signer \in DOMAIN KeyOf /\ SaysYes(sv) \in BOOLEAN
  BY <1>0 DEF SignedVerdicts, Messages, SaysYes
<1>2. W = IF VerifyVerdict(sv) THEN V \cup {n + 1} ELSE V
  <2>1. \A i : i \in 1 .. (n + 1) <=> i \in 1 .. n \/ i = n + 1
    OBVIOUS
  <2> QED BY <2>1 DEF ValidUpTo
<1>3. \A i \in V : i \in Nat /\ i < n + 1
  BY DEF ValidUpTo
<1>4. /\ \A i : i \in F <=> i \in V /\ \A j \in V : svs[j].signer = svs[i].signer => i <= j
      /\ \A i : i \in G <=> i \in W /\ \A j \in W : svs[j].signer = svs[i].signer => i <= j
  BY DEF FirstUpTo
<1>5. /\ acc.seen = {svs[i].signer : i \in V}
      /\ acc.yes \in Seq(DOMAIN KeyOf) /\ IsInjective(acc.yes)
      /\ Range(acc.yes) = {svs[i].signer : i \in {j \in F : SaysYes(svs[j])}}
  BY DEF Describes, YesUpTo
<1>6. ASSUME new.seen = {svs[i].signer : i \in W}, new.yes \in Seq(DOMAIN KeyOf),
             IsInjective(new.yes),
             Range(new.yes) = {svs[i].signer : i \in {j \in G : SaysYes(svs[j])}}
      PROVE  Goal
  BY <1>6 DEF Describes, YesUpTo
<1> HIDE DEF V, W, F, G, SignedVerdicts, Goal
<1>7. ASSUME ~VerifyVerdict(sv) PROVE Goal
  <2>1. new = acc
    BY <1>7 DEF CountVerdict
  <2>2. W = V /\ G = F
    BY <1>2, <1>4, <1>7
  <2> HIDE DEF new
  <2> QED BY <1>5, <1>6, <2>1, <2>2
<1>8. ASSUME VerifyVerdict(sv), sv.signer \in acc.seen PROVE Goal
  <2>1. new = acc
    BY <1>8 DEF CountVerdict
  <2>2. PICK j \in V : svs[j].signer = sv.signer
    BY <1>5, <1>8
  <2>3. n + 1 \notin G
    BY <1>2, <1>3, <1>4, <1>8, <2>2
  <2>4. G = F
    <3>1. \A i \in V : (\A k \in V : svs[k].signer = svs[i].signer => i <= k) =>
                         (\A k \in W : svs[k].signer = svs[i].signer => i <= k)
      BY <1>2, <1>3
    <3>2. \A i \in G : i \in V /\ V \subseteq W
      BY <1>2, <1>4, <2>3
    <3> QED BY <1>2, <1>4, <3>1, <3>2
  <2>5. {svs[i].signer : i \in W} = {svs[i].signer : i \in V}
    BY <1>2, <2>2
  <2> HIDE DEF new
  <2> QED BY <1>5, <1>6, <2>1, <2>4, <2>5
<1>9. ASSUME VerifyVerdict(sv), sv.signer \notin acc.seen PROVE Goal
  <2>1. \A j \in V : svs[j].signer # sv.signer
    BY <1>5, <1>9
  <2>2. W = V \cup {n + 1}
    BY <1>2, <1>9
  <2>3. G = F \cup {n + 1}
    <3>1. n + 1 \in G
      BY <1>4, <2>1, <2>2
    <3>2. \A i \in V : i \in G <=> i \in F
      BY <1>3, <1>4, <2>1, <2>2
    <3>3. \A i \in G : i \in V \/ i = n + 1
      BY <1>4, <2>2
    <3>4. \A i \in F : i \in V
      BY <1>4
    <3> QED BY <3>1, <3>2, <3>3, <3>4
  <2>4. /\ new.seen = acc.seen \cup {sv.signer}
        /\ new.yes = IF SaysYes(sv) THEN Append(acc.yes, sv.signer) ELSE acc.yes
    BY <1>9 DEF CountVerdict
  <2>5. new.seen = {svs[i].signer : i \in W}
    BY <1>5, <2>2, <2>4
  <2>6. Range(acc.yes) \subseteq acc.seen
    BY <1>4, <1>5
  <2> HIDE DEF new
  <2>7. CASE SaysYes(sv)
    <3>1. {svs[i].signer : i \in {j \in G : SaysYes(svs[j])}}
            = {svs[i].signer : i \in {j \in F : SaysYes(svs[j])}} \cup {sv.signer}
      BY <2>3, <2>7
    <3> DEFINE ys == acc.yes
               X == DOMAIN KeyOf
    <3>2. ys \in Seq(X) /\ sv.signer \in X /\ IsInjective(ys) /\ sv.signer \notin Range(ys)
      BY <1>1, <1>5, <1>9, <2>6
    <3>3. /\ Append(ys, sv.signer) \in Seq(X)
          /\ IsInjective(Append(ys, sv.signer))
          /\ Range(Append(ys, sv.signer)) = Range(ys) \cup {sv.signer}
      <4> HIDE DEF ys, X
      <4> QED BY <3>2, AppendNew
    <3> QED BY <1>5, <1>6, <2>4, <2>5, <2>7, <3>1, <3>3
  <2>8. CASE ~SaysYes(sv)
    <3>1. {svs[i].signer : i \in {j \in G : SaysYes(svs[j])}}
            = {svs[i].signer : i \in {j \in F : SaysYes(svs[j])}}
      BY <2>3, <2>8
    <3> QED BY <1>5, <1>6, <2>4, <2>5, <2>8, <3>1
  <2> QED BY <2>7, <2>8
<1> QED BY <1>7, <1>8, <1>9 DEF Goal

\* The loop's last state describes all the verdicts.
LEMMA CountedDescribes ==
  ASSUME NEW svs \in Seq(SignedVerdicts)
  PROVE  Describes(Counted(svs)[Len(svs)], svs, Len(svs))
<1> DEFINE acc == Counted(svs)
           m == Len(svs)
           S == {n \in Nat : n <= m => Describes(acc[n], svs, n)}
<1>1. m \in Nat
  <2> HIDE DEF SignedVerdicts
  <2> QED OBVIOUS
<1>2. Counts(acc, svs, m)
  BY <1>1, CountedCounts
<1> HIDE DEF acc, m
<1>3. 0 \in S
  <2>1. acc[0] = NothingCounted
    BY <1>2 DEF Counts
  <2>2. ValidUpTo(svs, 0) = {} /\ FirstUpTo(svs, 0) = {} /\ YesUpTo(svs, 0) = {}
    BY DEF ValidUpTo, FirstUpTo, YesUpTo
  <2>3. <<>> \in Seq(DOMAIN KeyOf) /\ Range(<<>>) = {} /\ IsInjective(<<>>)
    BY DEF Range, IsInjective
  <2>4. Describes(NothingCounted, svs, 0)
    BY <2>2, <2>3 DEF Describes, NothingCounted
  <2> QED BY <2>1, <2>4
<1>4. ASSUME NEW n \in S
      PROVE  n + 1 \in S
  <2>1. n \in Nat
    BY <1>4
  <2> SUFFICES ASSUME n + 1 <= m PROVE Describes(acc[n + 1], svs, n + 1)
    BY <2>1
  <2>2. Describes(acc[n], svs, n)
    BY <1>1, <1>4, <2>1
  <2>3. n + 1 \in 1 .. m /\ (n + 1) - 1 = n
    BY <1>1, <2>1
  <2>4. acc[n + 1] = CountVerdict(acc[n], svs[n + 1])
    BY <1>2, <2>3 DEF Counts
  <2>5. n + 1 <= Len(svs)
    BY DEF m
  <2>6. Describes(CountVerdict(acc[n], svs[n + 1]), svs, n + 1)
    <3> HIDE DEF Describes, CountVerdict, SignedVerdicts, S
    <3> QED BY <2>1, <2>2, <2>5, CountDescribes
  <2> QED BY <2>4, <2>6
<1>5. S = Nat
  <2>1. S \in SUBSET Nat
    OBVIOUS
  <2> HIDE DEF S
  <2> QED BY <1>3, <1>4, <2>1, SetInduction
<1>6. m \in S /\ m <= m
  BY <1>1, <1>5
<1> QED BY <1>6 DEF acc, m

\* A list without repetitions is as long as it has elements.
LEMMA InjectiveLength ==
  ASSUME NEW X, NEW s \in Seq(X), IsInjective(s)
  PROVE  IsFiniteSet(Range(s)) /\ Cardinality(Range(s)) = Len(s)
<1>1. Len(s) \in Nat /\ DOMAIN s = 1 .. Len(s) /\ s = [i \in 1 .. Len(s) |-> s[i]]
  OBVIOUS
<1>2. s \in Bijection(1 .. Len(s), Range(s))
  BY <1>1 DEF Bijection, Injection, Surjection, IsInjective, Range
<1>3. ExistsBijection(1 .. Len(s), Range(s))
  BY <1>2 DEF ExistsBijection
<1>4. IsFiniteSet(1 .. Len(s))
  <2>1. 1 \in Int /\ Len(s) \in Int
    BY <1>1
  <2> QED BY <2>1, FS_Interval
<1> QED BY <1>1, <1>3, <1>4, FS_Bijection, FS_CountingElements

\* What the pre-check returns: the signers whose first valid verdict says
\* "yes", once each.
LEMMA YesSignersFacts ==
  ASSUME NEW svs \in Seq(SignedVerdicts)
  PROVE  /\ YesSigners(svs) \in Seq(DOMAIN KeyOf)
         /\ IsInjective(YesSigners(svs))
         /\ Range(YesSigners(svs)) = YesUpTo(svs, Len(svs))
         /\ IsFiniteSet(YesUpTo(svs, Len(svs)))
         /\ Cardinality(YesUpTo(svs, Len(svs))) = Len(YesSigners(svs))
<1> HIDE DEF SignedVerdicts
<1> DEFINE yes == YesSigners(svs)
           X == DOMAIN KeyOf
<1>1. /\ yes \in Seq(X)
      /\ IsInjective(yes)
      /\ Range(yes) = YesUpTo(svs, Len(svs))
  BY CountedDescribes DEF Describes, YesSigners
<1> HIDE DEF yes, X
<1>2. IsFiniteSet(Range(yes)) /\ Cardinality(Range(yes)) = Len(yes)
  BY <1>1, InjectiveLength
<1> QED BY <1>1, <1>2 DEF yes, X

-----------------------------------------------------------------------------
(* The pre-check and the contract count the same verdicts. *)

\* What the encoding takes spells a key, or is a signature that is no odd text.
LEMMA EncodableTexts ==
  ASSUME NEW sv \in SignedVerdicts, IsKeyHex(sv.signer), IsSignatureHex(sv.signature)
  PROVE  /\ KeyOf[sv.signer] \in Verifier
         /\ sv.signature \in Signatures \cup {Forged}
         /\ VerifyVerdict(sv) <=> VerifySignature(sv.verdict, sv.signature, KeyOf[sv.signer])
<1> DEFINE g == sv.signature
           k == sv.signer
<1>1. k \in DOMAIN KeyOf /\ g \in Signatures \cup {Forged} \cup DOMAIN OddText
  BY DEF SignedVerdicts
<1>2. Form(k, 64) = [digits |-> 64, rest |-> 0] /\ Form(g, 128) = [digits |-> 128, rest |-> 0]
  BY DEF IsKeyHex, IsSignatureHex
<1> HIDE DEF g, k
<1>3. k \notin DOMAIN OddText
  <2>1. k \in DOMAIN OddText => OddText[k].digits = 64 /\ OddText[k].rest = 0
    BY <1>2 DEF Form
  <2> QED BY <2>1, KeyAssumption
<1>4. g \notin DOMAIN OddText
  <2>1. g \in DOMAIN OddText => OddText[g].digits = 128 /\ OddText[g].rest = 0
    BY <1>2 DEF Form
  <2> QED BY <2>1, KeyAssumption
<1>5. KeyOf[k] \in Verifier /\ g \in Signatures \cup {Forged} /\ SignatureOf(g) = g
  BY <1>1, <1>3, <1>4, KeyAssumption DEF SignatureOf
<1>6. HexToBytes(Form(g, 128)) = 64 /\ HexToBytes(Form(k, 64)) = 32
  BY <1>2 DEF HexToBytes
<1> QED BY <1>5, <1>6 DEF VerifyVerdict, g, k

\* What hexToBytes makes the right number of bytes of, the encoding takes.
LEMMA DecodedIsEncodable ==
  ASSUME NEW sv \in SignedVerdicts, VerifyVerdict(sv)
  PROVE  IsKeyHex(sv.signer) /\ IsSignatureHex(sv.signature)
<1>1. ASSUME NEW text, NEW n \in {64, 128}, HexToBytes(Form(text, n)) = n \div 2
      PROVE  Form(text, n) = [digits |-> n, rest |-> 0]
  <2> DEFINE f == Form(text, n)
  <2>1. f = [digits |-> f.digits, rest |-> f.rest] /\ f.digits \in Nat
    BY KeyAssumption DEF Form, OddForms
  <2> HIDE DEF f
  <2>2. f.rest = 0 /\ f.digits % 2 = 0 /\ f.digits \div 2 = n \div 2
    BY <1>1 DEF HexToBytes, NoBytes, f
  <2>3. f.digits = n
    BY <2>1, <2>2
  <2> QED BY <2>1, <2>2, <2>3 DEF f
<1>2. HexToBytes(Form(sv.signature, 128)) = 128 \div 2 /\ HexToBytes(Form(sv.signer, 64)) = 64 \div 2
  BY DEF VerifyVerdict
<1> QED BY <1>1, <1>2 DEF IsKeyHex, IsSignatureHex

\* The same of every entry of evidence that can be encoded.
LEMMA EncodableEntries ==
  ASSUME NEW svs \in Seq(SignedVerdicts), Encodable(EvidenceOf(svs)), NEW i \in DOMAIN svs
  PROVE  /\ KeyOf[svs[i].signer] \in Verifier
         /\ svs[i].signature \in Signatures \cup {Forged}
         /\ VerifyVerdict(svs[i]) <=>
              VerifySignature(svs[i].verdict, svs[i].signature, KeyOf[svs[i].signer])
<1>1. svs[i] \in SignedVerdicts
  <2> HIDE DEF SignedVerdicts
  <2> QED OBVIOUS
<1>2. IsKeyHex(svs[i].signer) /\ IsSignatureHex(svs[i].signature)
  BY DEF Encodable, EvidenceOf
<1> QED BY <1>1, <1>2, EncodableTexts

\* The arguments of the call, entry by entry.
LEMMA EvidenceFields ==
  ASSUME NEW svs, NEW m, DOMAIN svs = 1 .. m
  PROVE  DistributeArgs(EvidenceOf(svs))
           = [signers    |-> [i \in 1 .. m |-> KeyOf[svs[i].signer]],
              verdicts   |-> [i \in 1 .. m |-> SaysYes(svs[i])],
              signatures |-> [i \in 1 .. m |-> svs[i].signature],
              details    |-> [i \in 1 .. m |-> svs[i].verdict[4]]]
<1> DEFINE D == 1 .. m
           hs == [i \in D |-> svs[i].signer]
           vs == [i \in D |-> SaysYes(svs[i])]
           gs == [i \in D |-> svs[i].signature]
           ds == [i \in D |-> svs[i].verdict[4]]
<1> HIDE DEF D
<1>1. EvidenceOf(svs) = [signers |-> hs, verdicts |-> vs, signatures |-> gs, details |-> ds]
  BY DEF EvidenceOf, D
<1>2. DOMAIN hs = D /\ \A i \in D : hs[i] = svs[i].signer
  OBVIOUS
<1> HIDE DEF hs, vs, gs, ds
<1>3. DistributeArgs(EvidenceOf(svs))
        = [signers |-> [i \in DOMAIN hs |-> KeyOf[hs[i]]],
           verdicts |-> vs, signatures |-> gs, details |-> ds]
  BY <1>1 DEF DistributeArgs
<1>4. [i \in DOMAIN hs |-> KeyOf[hs[i]]] = [i \in D |-> KeyOf[svs[i].signer]]
  BY <1>2
<1> QED BY <1>3, <1>4 DEF vs, gs, ds, D

\* What can be encoded is evidence of the contract's types.
LEMMA EvidenceType ==
  ASSUME NEW svs \in Seq(SignedVerdicts), Encodable(EvidenceOf(svs))
  PROVE  /\ DistributeArgs(EvidenceOf(svs)) \in EvidenceArrays
         /\ ParallelArrays(DistributeArgs(EvidenceOf(svs)))
<1> DEFINE e == DistributeArgs(EvidenceOf(svs))
           m == Len(svs)
<1>1. m \in Nat /\ DOMAIN svs = 1 .. m /\ \A i \in 1 .. m : svs[i] \in SignedVerdicts
  <2> HIDE DEF SignedVerdicts
  <2> QED OBVIOUS
<1>2. e = [signers    |-> [i \in 1 .. m |-> KeyOf[svs[i].signer]],
           verdicts   |-> [i \in 1 .. m |-> SaysYes(svs[i])],
           signatures |-> [i \in 1 .. m |-> svs[i].signature],
           details    |-> [i \in 1 .. m |-> svs[i].verdict[4]]]
  BY <1>1, EvidenceFields
<1>3. \A i \in 1 .. m : /\ KeyOf[svs[i].signer] \in Verifier
                        /\ svs[i].signature \in Signatures \cup {Forged}
  BY <1>1, EncodableEntries
<1> HIDE DEF e, m
<1>4. \A i \in 1 .. m : /\ KeyOf[svs[i].signer] \in Verifier
                        /\ SaysYes(svs[i]) \in BOOLEAN
                        /\ svs[i].signature \in Signatures \cup {Forged}
                        /\ svs[i].verdict[4] \in Detail
  BY <1>1, <1>3 DEF SignedVerdicts, Messages, SaysYes
<1> DEFINE ss == [i \in 1 .. m |-> KeyOf[svs[i].signer]]
           vs == [i \in 1 .. m |-> SaysYes(svs[i])]
           gs == [i \in 1 .. m |-> svs[i].signature]
           ds == [i \in 1 .. m |-> svs[i].verdict[4]]
<1>5. ss \in Seq(Verifier) /\ Len(ss) = m
  BY <1>1, <1>4
<1>6. vs \in Seq(BOOLEAN) /\ Len(vs) = m
  BY <1>1, <1>4
<1>7. gs \in Seq(Signatures \cup {Forged}) /\ Len(gs) = m
  BY <1>1, <1>4
<1>8. ds \in Seq(Detail) /\ Len(ds) = m
  BY <1>1, <1>4
<1>9. e = [signers |-> ss, verdicts |-> vs, signatures |-> gs, details |-> ds]
  BY <1>2
<1> HIDE DEF ss, vs, gs, ds
<1> QED BY <1>5, <1>6, <1>7, <1>8, <1>9 DEF EvidenceArrays, ParallelArrays, e

\* The verdicts under way when cycle c of asset a is decided under the rules
\* cfg: all of them on it, and from registered verifiers.
OnTheCycle(svs, cfg, a, c) ==
  \A i \in DOMAIN svs :
    /\ svs[i].verdict[1] = a /\ svs[i].verdict[2] = c
    /\ KeyOf[svs[i].signer] \in Range(cfg.verifiers)

OneSpelling(svs) ==
  \A i, j \in DOMAIN svs :
    KeyOf[svs[i].signer] = KeyOf[svs[j].signer] => svs[i].signer = svs[j].signer

\* The contract's "yes" votes among the agent's verdicts.
LEMMA VotesOfVerdicts ==
  ASSUME NEW svs \in Seq(SignedVerdicts), NEW cfg, NEW a, NEW c,
         Encodable(EvidenceOf(svs)), OnTheCycle(svs, cfg, a, c)
  PROVE  LET e == DistributeArgs(EvidenceOf(svs))
             V == ValidUpTo(svs, Len(svs))
         IN  /\ \A i \in 1 .. Len(svs) : e.signers[i] = KeyOf[svs[i].signer]
             /\ YesVotes(cfg, a, c, e)
                  = {i \in V : /\ SaysYes(svs[i])
                               /\ \A j \in V : j < i =>
                                    KeyOf[svs[j].signer] # KeyOf[svs[i].signer]}
<1> DEFINE e == DistributeArgs(EvidenceOf(svs))
           m == Len(svs)
           V == ValidUpTo(svs, m)
<1>1. m \in Nat /\ DOMAIN svs = 1 .. m /\ \A i \in 1 .. m : svs[i] \in SignedVerdicts
  <2> HIDE DEF SignedVerdicts
  <2> QED OBVIOUS
<1>2. e = [signers    |-> [i \in 1 .. m |-> KeyOf[svs[i].signer]],
           verdicts   |-> [i \in 1 .. m |-> SaysYes(svs[i])],
           signatures |-> [i \in 1 .. m |-> svs[i].signature],
           details    |-> [i \in 1 .. m |-> svs[i].verdict[4]]]
  BY <1>1, EvidenceFields
<1>3. \A i \in 1 .. m :
        VerifyVerdict(svs[i]) <=> VerifySignature(svs[i].verdict, svs[i].signature, KeyOf[svs[i].signer])
  BY <1>1, EncodableEntries
<1>4. ASSUME NEW i \in 1 .. m
      PROVE  Message(a, c, SaysYes(svs[i]), svs[i].verdict[4]) = svs[i].verdict
  <2>1. svs[i].verdict \in Asset \X Cycle \X BOOLEAN \X Detail
    BY <1>1 DEF SignedVerdicts, Messages
  <2>2. svs[i].verdict = <<svs[i].verdict[1], svs[i].verdict[2], svs[i].verdict[3], svs[i].verdict[4]>>
    BY <2>1
  <2>3. svs[i].verdict[1] = a /\ svs[i].verdict[2] = c
    BY <1>1 DEF OnTheCycle
  <2> QED BY <2>2, <2>3 DEF Message, SaysYes
<1>5. /\ DOMAIN e.signers = 1 .. m
      /\ \A i \in 1 .. m : /\ e.signers[i] = KeyOf[svs[i].signer]
                           /\ e.verdicts[i] = SaysYes(svs[i])
                           /\ e.signatures[i] = svs[i].signature
                           /\ e.details[i] = svs[i].verdict[4]
  BY <1>2
<1>6. ValidVotes(cfg, a, c, e) = V
  <2>1. \A i \in 1 .. m : KeyOf[svs[i].signer] \in Range(cfg.verifiers)
    BY <1>1 DEF OnTheCycle
  <2>2. ASSUME NEW i \in 1 .. m
        PROVE  i \in ValidVotes(cfg, a, c, e) <=> VerifyVerdict(svs[i])
    <3> HIDE DEF e, m
    <3>1. Message(a, c, e.verdicts[i], e.details[i]) = svs[i].verdict
      BY <1>4, <1>5
    <3>2. i \in ValidVotes(cfg, a, c, e) <=>
            VerifySignature(svs[i].verdict, svs[i].signature, KeyOf[svs[i].signer])
      BY <1>5, <2>1, <3>1 DEF ValidVotes
    <3>3. i \in 1 .. Len(svs)
      BY <2>2 DEF m
    <3> QED BY <1>3, <3>2, <3>3
  <2>3. ValidVotes(cfg, a, c, e) \subseteq 1 .. m
    <3> HIDE DEF e, m
    <3> QED BY <1>5 DEF ValidVotes
  <2> HIDE DEF e, m
  <2> QED BY <2>2, <2>3 DEF ValidUpTo
<1>7. V \subseteq 1 .. m
  BY DEF ValidUpTo
<1> HIDE DEF e, V
<1>8. YesVotes(cfg, a, c, e)
        = {i \in V : /\ SaysYes(svs[i])
                     /\ \A j \in V : j < i => KeyOf[svs[j].signer] # KeyOf[svs[i].signer]}
  <2> HIDE DEF m
  <2>1. \A i \in V : e.signers[i] = KeyOf[svs[i].signer] /\ e.verdicts[i] = SaysYes(svs[i])
    BY <1>5, <1>7
  <2> QED BY <1>6, <2>1 DEF YesVotes, CountedVotes
<1> QED BY <1>5, <1>8 DEF e, V

\* The signers of the votes that the contract counts as "yes".
Voters(cfg, a, c, e) == {e.signers[i] : i \in YesVotes(cfg, a, c, e)}

\* The signers that the contract counts are among those that the agent has
\* counted, and all of them where each key is spelled in one way.
LEMMA PrecheckCounts ==
  ASSUME NEW svs \in Seq(SignedVerdicts), NEW cfg, NEW a, NEW c, NEW e,
         e = DistributeArgs(EvidenceOf(svs)),
         Encodable(EvidenceOf(svs)), OnTheCycle(svs, cfg, a, c)
  PROVE  /\ Voters(cfg, a, c, e) \subseteq KeysOf(Range(YesSigners(svs)))
         /\ OneSpelling(svs) =>
              /\ Voters(cfg, a, c, e) = KeysOf(Range(YesSigners(svs)))
              /\ Cardinality(Voters(cfg, a, c, e)) = Len(YesSigners(svs))
<1> DEFINE m == Len(svs)
           V == ValidUpTo(svs, m)
           F == FirstUpTo(svs, m)
           Y == YesVotes(cfg, a, c, e)
           K == {e.signers[i] : i \in Y}
           H == YesUpTo(svs, m)
<1>1. m \in Nat /\ DOMAIN svs = 1 .. m
  <2> HIDE DEF SignedVerdicts
  <2> QED OBVIOUS
<1>2. /\ \A i \in 1 .. m : e.signers[i] = KeyOf[svs[i].signer]
      /\ Y = {i \in V : /\ SaysYes(svs[i])
                        /\ \A j \in V : j < i => KeyOf[svs[j].signer] # KeyOf[svs[i].signer]}
  <2> HIDE DEF SignedVerdicts, Encodable, EvidenceOf, DistributeArgs, YesVotes, ValidUpTo
  <2> QED BY VotesOfVerdicts
<1>3. V \subseteq 1 .. m
  BY DEF ValidUpTo
<1>4. F = {i \in V : \A j \in V : svs[j].signer = svs[i].signer => i <= j}
  BY DEF FirstUpTo
<1>5. H = {svs[i].signer : i \in {j \in F : SaysYes(svs[j])}}
  BY DEF YesUpTo
<1>6. Range(YesSigners(svs)) = H /\ IsFiniteSet(H) /\ Cardinality(H) = Len(YesSigners(svs))
  <2> HIDE DEF SignedVerdicts, YesUpTo
  <2> QED BY YesSignersFacts
<1> HIDE DEF m, V, F, Y, H, SignedVerdicts
<1>7. \A i \in Y : i \in F /\ SaysYes(svs[i])
  <2> TAKE i \in Y
  <2>1. i \in V /\ SaysYes(svs[i])
    BY <1>2
  <2>2. \A j \in V : svs[j].signer = svs[i].signer => i <= j
    <3> TAKE j \in V
    <3> HAVE svs[j].signer = svs[i].signer
    <3>1. ~(j < i)
      BY <1>2
    <3>2. i \in Nat /\ j \in Nat
      BY <1>3, <2>1
    <3> QED BY <3>1, <3>2
  <2> QED BY <1>4, <2>1, <2>2
<1>8. K \subseteq {KeyOf[hex] : hex \in H}
  <2>1. \A i \in Y : e.signers[i] = KeyOf[svs[i].signer] /\ svs[i].signer \in H
    BY <1>2, <1>3, <1>4, <1>5, <1>7
  <2> QED BY <2>1
<1>9. ASSUME OneSpelling(svs)
      PROVE  K = {KeyOf[hex] : hex \in H} /\ Cardinality(K) = Cardinality(H)
  <2>1. \A i, j \in V : KeyOf[svs[i].signer] = KeyOf[svs[j].signer] => svs[i].signer = svs[j].signer
    BY <1>1, <1>3, <1>9 DEF OneSpelling
  <2>2. \A i \in F : SaysYes(svs[i]) => i \in Y
    <3> TAKE i \in F
    <3> HAVE SaysYes(svs[i])
    <3>1. i \in V /\ \A j \in V : svs[j].signer = svs[i].signer => i <= j
      BY <1>4
    <3>2. \A j \in V : j < i => KeyOf[svs[j].signer] # KeyOf[svs[i].signer]
      <4> TAKE j \in V
      <4> HAVE j < i
      <4>1. i \in Nat /\ j \in Nat
        BY <1>3, <3>1
      <4>2. svs[j].signer # svs[i].signer
        BY <3>1, <4>1
      <4> QED BY <2>1, <3>1, <4>2
    <3> QED BY <1>2, <3>1, <3>2
  <2>3. {KeyOf[hex] : hex \in H} \subseteq K
    <3> SUFFICES ASSUME NEW hex \in H PROVE KeyOf[hex] \in K
      OBVIOUS
    <3>1. PICK i \in F : SaysYes(svs[i]) /\ hex = svs[i].signer
      BY <1>5
    <3>2. i \in Y /\ e.signers[i] = KeyOf[hex]
      BY <1>2, <1>3, <1>4, <2>2, <3>1
    <3> QED BY <3>2
  <2>4. K = {KeyOf[hex] : hex \in H}
    BY <1>8, <2>3
  <2> DEFINE f == [hex \in H |-> KeyOf[hex]]
  <2>5. \A x, y \in H : KeyOf[x] = KeyOf[y] => x = y
    <3> TAKE x, y \in H
    <3>1. PICK i \in V : x = svs[i].signer
      BY <1>4, <1>5
    <3>2. PICK j \in V : y = svs[j].signer
      BY <1>4, <1>5
    <3> QED BY <2>1, <3>1, <3>2
  <2>6. f \in Bijection(H, K)
    <3> HIDE DEF K
    <3> QED BY <2>4, <2>5 DEF Bijection, Injection, Surjection, IsInjective
  <2>7. ExistsBijection(H, K)
    BY <2>6 DEF ExistsBijection
  <2> HIDE DEF K
  <2> QED BY <1>6, <2>4, <2>7, FS_Bijection
<1>10. Voters(cfg, a, c, e) = K /\ KeysOf(H) = {KeyOf[hex] : hex \in H}
  BY DEF Voters, KeysOf, Y
<1> HIDE DEF K
<1> QED BY <1>6, <1>8, <1>9, <1>10

-----------------------------------------------------------------------------
(* The pre-check as it stands (VerdictQuorum). *)

\* Only signed verdicts arrive.
LEMMA VerdictsType == QuorumSpec => [](verdicts \in Seq(SignedVerdicts))
<1>1. SignedVerdict \subseteq SignedVerdicts
  BY VerdictAssumption DEF SignedVerdicts
<1> HIDE DEF SignedVerdicts
<1>2. QuorumInit => verdicts \in Seq(SignedVerdicts)
  BY DEF QuorumInit
<1>3. verdicts \in Seq(SignedVerdicts) /\ [QuorumNext]_verdicts => (verdicts \in Seq(SignedVerdicts))'
  BY <1>1 DEF QuorumNext, Receive
<1> QED BY <1>2, <1>3, PTL DEF QuorumSpec

\* YesCountsUnlessContradicted: reachQuorum counts each spelling of a key at most
\* once, only for a valid "yes", and always if it never validly says "no", in
\* whatever order verdicts, repeats and forgeries arrive.
THEOREM PrecheckCountsYes == QuorumSpec => []YesCountsUnlessContradicted
<1>1. ASSUME verdicts \in Seq(SignedVerdicts)
      PROVE  YesCountsUnlessContradicted
  <2> HIDE DEF SignedVerdicts
  <2> DEFINE yes == YesSigners(verdicts)
             V == ValidUpTo(verdicts, Len(verdicts))
             F == FirstUpTo(verdicts, Len(verdicts))
  <2>1. DOMAIN verdicts = 1 .. Len(verdicts) /\ Len(verdicts) \in Nat
    BY <1>1
  <2>2. Range(yes) = YesUpTo(verdicts, Len(verdicts)) /\ Cardinality(Range(yes)) = Len(yes)
    BY <1>1, YesSignersFacts
  <2>3. Range(yes) = {verdicts[i].signer : i \in {j \in F : SaysYes(verdicts[j])}}
    BY <2>2 DEF YesUpTo
  <2>4. /\ V \subseteq 1 .. Len(verdicts)
        /\ \A i \in DOMAIN verdicts : i \in V <=> VerifyVerdict(verdicts[i])
    BY <2>1 DEF ValidUpTo
  <2>5. F = {i \in V : \A j \in V : verdicts[j].signer = verdicts[i].signer => i <= j}
    BY DEF FirstUpTo
  <2> HIDE DEF yes, V, F
  <2>6. Range(yes) \subseteq SaidYes
    BY <2>1, <2>3, <2>4, <2>5 DEF SaidYes
  <2>7. ASSUME NEW hex \in SaidYes, hex \notin SaidNo
        PROVE  hex \in Range(yes)
    <3>1. PICK i \in V : verdicts[i].signer = hex
      BY <2>1, <2>4, <2>7 DEF SaidYes
    <3> DEFINE S == {k \in V : verdicts[k].signer = hex}
    <3>2. S \in SUBSET Nat /\ S # {}
      <4>1. \A k \in S : k \in V
        OBVIOUS
      <4>2. i \in S
        BY <3>1
      <4>3. \A k \in V : k \in Nat
        BY <2>1, <2>4
      <4> HIDE DEF S
      <4> QED BY <4>1, <4>2, <4>3
    <3> HIDE DEF S
    <3>3. PICK k \in S : \A j \in S : k <= j
      BY <3>2, LeastElement
    <3>4. k \in F /\ verdicts[k].signer = hex
      BY <2>5, <3>3 DEF S
    <3>5. SaysYes(verdicts[k])
      BY <2>1, <2>4, <2>5, <2>7, <3>4 DEF SaidNo
    <3> QED BY <2>3, <3>4, <3>5
  <2> QED BY <2>2, <2>6, <2>7 DEF YesCountsUnlessContradicted, yes
<1> QED BY <1>1, VerdictsType, PTL

\* VerifiedIsEncodable: a text that hexToBytes decodes to the length of a key or
\* a signature is one that the expressions of buildEntrypointArgs match, so that
\* no verifier can spoil the call.
THEOREM VerifiedAlwaysEncodable == QuorumSpec => []VerifiedIsEncodable
<1>1. ASSUME verdicts \in Seq(SignedVerdicts), \A i \in DOMAIN verdicts : VerifyVerdict(verdicts[i])
      PROVE  Encodable(EvidenceOf(verdicts))
  <2>1. \A i \in DOMAIN verdicts : IsKeyHex(verdicts[i].signer) /\ IsSignatureHex(verdicts[i].signature)
    <3> TAKE i \in DOMAIN verdicts
    <3>1. verdicts[i] \in SignedVerdicts
      <4> HIDE DEF SignedVerdicts
      <4> QED BY <1>1
    <3> QED BY <1>1, <3>1, DecodedIsEncodable
  <2> QED BY <2>1 DEF Encodable, EvidenceOf
<1>2. verdicts \in Seq(SignedVerdicts) => VerifiedIsEncodable
  BY <1>1 DEF VerifiedIsEncodable
<1> QED BY <1>2, VerdictsType, PTL

\* Where no key has two spellings among the verdicts, equal keys are equal hex.
LEMMA SpelledOnce ==
  ASSUME verdicts \in Seq(SignedVerdicts),
         \A i \in DOMAIN verdicts : KeyOf[verdicts[i].signer] \in Verifier,
         \A v \in Verifier : Cardinality(Spellings(v)) <= 1
  PROVE  OneSpelling(verdicts)
<1> HIDE DEF SignedVerdicts
<1> SUFFICES ASSUME NEW i \in DOMAIN verdicts, NEW j \in DOMAIN verdicts,
                    KeyOf[verdicts[i].signer] = KeyOf[verdicts[j].signer],
                    verdicts[i].signer # verdicts[j].signer
             PROVE  FALSE
  BY DEF OneSpelling
<1> DEFINE S == Spellings(KeyOf[verdicts[i].signer])
           T == {verdicts[i].signer, verdicts[j].signer}
           f == [k \in DOMAIN verdicts |->
                   IF k \in {n \in DOMAIN verdicts :
                               KeyOf[verdicts[n].signer] = KeyOf[verdicts[i].signer]}
                   THEN verdicts[k].signer ELSE verdicts[i].signer]
<1>1. DOMAIN verdicts = 1 .. Len(verdicts) /\ Len(verdicts) \in Nat
  OBVIOUS
<1>2. S = {verdicts[k].signer : k \in {n \in DOMAIN verdicts :
                                        KeyOf[verdicts[n].signer] = KeyOf[verdicts[i].signer]}}
  BY DEF Spellings
<1>3. f \in Surjection(1 .. Len(verdicts), S)
  BY <1>1, <1>2 DEF Surjection
<1>4. IsFiniteSet(1 .. Len(verdicts))
  <2>1. 1 \in Int /\ Len(verdicts) \in Int
    BY <1>1
  <2> QED BY <2>1, FS_Interval
<1>5. T \subseteq S
  BY <1>2
<1>6. Cardinality(S) <= 1
  OBVIOUS
<1> HIDE DEF S, f
<1>7. IsFiniteSet(S)
  BY <1>3, <1>4, FS_Surjection
<1>8. Cardinality(S) = 0 \/ Cardinality(S) = 1
  BY <1>6, <1>7, FS_CardinalityType
<1>9. S # {}
  BY <1>5
<1>10. Cardinality(S) = 1
  BY <1>7, <1>8, <1>9, FS_EmptySet
<1>11. PICK x : S = {x}
  BY <1>7, <1>10, FS_Singleton
<1> QED BY <1>5, <1>11

\* PrecheckAgrees: for verdicts on one asset and cycle, from registered
\* verifiers, the contract counts no signer that the agent's pre-check has not,
\* and both count the same if each key is spelled in one way.
THEOREM PrecheckAgreesWithContract == QuorumSpec => []PrecheckAgrees
<1>1. ASSUME verdicts \in Seq(SignedVerdicts), NEW a \in Asset, NEW c \in Cycle,
             Encodable(EvidenceOf(verdicts)), OnTheCycle(verdicts, Rules, a, c)
      PROVE  /\ OnChainYes(a, c) \subseteq KeysOf(Range(YesSigners(verdicts)))
             /\ (\A v \in Verifier : Cardinality(Spellings(v)) <= 1)
                  => /\ OnChainYes(a, c) = KeysOf(Range(YesSigners(verdicts)))
                     /\ Cardinality(OnChainYes(a, c)) = Len(YesSigners(verdicts))
  <2> HIDE DEF SignedVerdicts
  <2>1. Range(Rules.verifiers) \subseteq Verifier
    BY VerdictAssumption DEF Range
  <2>2. \A i \in DOMAIN verdicts : KeyOf[verdicts[i].signer] \in Verifier
    BY <1>1, <2>1 DEF OnTheCycle
  <2>3. (\A v \in Verifier : Cardinality(Spellings(v)) <= 1) => OneSpelling(verdicts)
    BY <1>1, <2>2, SpelledOnce
  <2>4. Call = DistributeArgs(EvidenceOf(verdicts))
    BY DEF Call
  <2>5. OnChainYes(a, c) = Voters(Rules, a, c, Call)
    BY DEF OnChainYes, Voters
  <2> HIDE DEF Call, OnChainYes, KeysOf, YesSigners
  <2>6. /\ Voters(Rules, a, c, Call) \subseteq KeysOf(Range(YesSigners(verdicts)))
        /\ OneSpelling(verdicts) =>
             /\ Voters(Rules, a, c, Call) = KeysOf(Range(YesSigners(verdicts)))
             /\ Cardinality(Voters(Rules, a, c, Call)) = Len(YesSigners(verdicts))
    BY <1>1, <2>4, PrecheckCounts
  <2> QED BY <2>3, <2>5, <2>6
<1>2. verdicts \in Seq(SignedVerdicts) => PrecheckAgrees
  <2> HIDE DEF SignedVerdicts
  <2> QED BY <1>1 DEF PrecheckAgrees, OnTheCycle
<1> QED BY <1>2, VerdictsType, PTL

-----------------------------------------------------------------------------
(* The runs of the agent (Servicer).  The answers and the decision of a run *)
(* depend on nothing but the state q of its requests.                       *)

AnsweringOf(q) == {i \in EndpointIds : q[i].phase = "answered"}
AnswersOf(q) ==
  LET nth(n) == CHOOSE i \in AnsweringOf(q) : Cardinality({j \in AnsweringOf(q) : j <= i}) = n
  IN  [n \in 1 .. Cardinality(AnsweringOf(q)) |->
         LET s == q[nth(n)].verdict
         IN  [verdict |-> s.message, signature |-> s, signer |-> s.signer]]
DecisionOf(q) ==
  IF AnswersOf(q) = <<>> THEN "payment_failed"
  ELSE IF Len(AnswersOf(q)) < QuorumRequired THEN "insufficient_responses"
  ELSE IF ~ReachQuorum(AnswersOf(q), QuorumRequired) THEN "quorum_not_met"
  ELSE "go"

-----------------------------------------------------------------------------
(* The inductive invariant, first of each run on its own. *)

Pcs == {"idle", "query", "submit", "brief", "record", "done"}
Phases == {"asking", "settled", "answered", "failed"}
QueryStates == [phase : Phases, attempt : Nat, charged : Nat, verdict : Signatures \cup {None}]
Outcomes == {"none", "already_distributed", "payment_failed", "insufficient_responses",
             "quorum_not_met", "distributed", "threw"}
RunStates == [pc : Pcs, cycle : Cycle \cup {None}, outcome : Outcomes,
              brief : Brief \cup {None}, query : [EndpointIds -> QueryStates]]
Reverts == {"EvidenceArityMismatch", "AssetNotFound", "AlreadyDistributed", "QuorumNotMet",
            "InsufficientPool", "ZeroTotalWeight", "TransferFailed"}
BriefReverts == {"NotServicer", "CycleNotSettled", "BriefAlreadyRecorded", "BriefTooLong"}
TxStates == [distribute : {"none", "pending", "expired", "ok"} \cup Reverts,
             brief : {"none", "pending", "expired", "ok"} \cup BriefReverts,
             text : Brief \cup {None}]

\* s answers the run's question, cycle c, from endpoint i.
Answering1(c, i, s) ==
  /\ c \in Cycle /\ s \in Signatures
  /\ s.signer = Endpoints[i] /\ s.message[1] = AssetId /\ s.message[2] = c

\* A run in state p with transactions t: it has asked for its own cycle only,
\* it submits only what it has decided on, and the decision stands from then on.
RunOK(p, t) ==
  /\ p \in RunStates /\ t \in TxStates
  /\ p.pc = "idle" => \A i \in EndpointIds : p.query[i].phase = "asking"
  /\ p.pc \in {"query", "submit", "brief", "record"} => p.cycle \in Cycle
  /\ \A i \in EndpointIds : p.query[i].phase \in {"settled", "answered"} =>
       Answering1(p.cycle, i, p.query[i].verdict)
  /\ p.pc \in {"idle", "query", "submit"} => t.distribute = "none"
  /\ p.pc # "done" => t.brief = "none"
  /\ p.pc = "record" => p.brief \in Brief
  /\ t.brief = "pending" => t.text \in Brief
  /\ (t.distribute # "none" \/ t.brief # "none" \/ p.pc \in {"submit", "brief", "record"})
       => p.cycle \in Cycle /\ DecisionOf(p.query) = "go"

RunsOK ==
  /\ run \in [Run -> RunStates] /\ tx \in [Run -> TxStates]
  /\ \A r \in Run : RunOK(run[r], tx[r])

\* An honest verifier has signed "yes" for cycles only whose cashflow it found.
HonestSigned ==
  \A s \in signed : s.signer \in Honest /\ s.message[3] => s.message[2] \in paidIn

\* The contract holds the money of the one asset it has.
OnePool == purse = pools[AssetId]

\* What is settled is what one run's transaction has settled.
SettledByOneRun ==
  /\ \A k \in distributed : \E r \in Run : tx[r].distribute = "ok" /\ RunKey(r) = k
  /\ \A r \in Run : tx[r].distribute = "ok" => RunKey(r) \in distributed
  /\ \A r, s \in Run : tx[r].distribute = "ok" /\ tx[s].distribute = "ok"
                         /\ run[r].cycle = run[s].cycle => r = s

\* Before the asset is registered, and after.
Accepted ==
  \A r \in Run : tx[r].distribute \notin {"none", "pending"} =>
    /\ assets[AssetId] = None => tx[r].distribute \in {"AssetNotFound", "expired"}
    /\ /\ assets[AssetId] # None
       /\ Range(Endpoints) \subseteq Range(assets[AssetId].verifiers)
       /\ QuorumRequired >= assets[AssetId].quorum
       => tx[r].distribute \in
            {"ok", "AlreadyDistributed", "InsufficientPool", "AssetNotFound", "expired"}

AgentInv ==
  SafetyInv /\ RunsOK /\ HonestSigned /\ OnePool /\ SettledByOneRun /\ Accepted

\* The definitions of Servicer in terms of q.
LEMMA DecisionIs ==
  ASSUME NEW r \in Run
  PROVE  /\ Answers(r) = AnswersOf(run[r].query)
         /\ Decision(r) = DecisionOf(run[r].query)
<1>1. Answers(r) = AnswersOf(run[r].query)
  BY DEF Answers, Answering, AnswersOf, AnsweringOf
<1>2. Decision(r) = DecisionOf(run[r].query)
  BY <1>1 DEF Decision, DecisionOf
<1> QED BY <1>1, <1>2

\* The answers of a run are signed verdicts on its cycle from its endpoints,
\* which the encoding takes, with one spelling of each key.
LEMMA AnswersType ==
  ASSUME NEW c, NEW q \in [EndpointIds -> QueryStates],
         \A i \in EndpointIds : q[i].phase \in {"settled", "answered"} =>
           Answering1(c, i, q[i].verdict)
  PROVE  /\ AnswersOf(q) \in Seq(SignedVerdicts)
         /\ \A n \in DOMAIN AnswersOf(q) :
              /\ AnswersOf(q)[n].verdict[1] = AssetId
              /\ AnswersOf(q)[n].verdict[2] = c
              /\ KeyOf[AnswersOf(q)[n].signer] \in Range(Endpoints)
         /\ Encodable(EvidenceOf(AnswersOf(q)))
         /\ OneSpelling(AnswersOf(q))
<1> DEFINE A == AnsweringOf(q)
           nth(n) == CHOOSE i \in A : Cardinality({j \in A : j <= i}) = n
           m == Cardinality(A)
           entry(n) == [verdict |-> q[nth(n)].verdict.message,
                        signature |-> q[nth(n)].verdict, signer |-> q[nth(n)].verdict.signer]
           svs == AnswersOf(q)
<1>1. EndpointIds = 1 .. Len(Endpoints) /\ Len(Endpoints) \in Nat
  BY AgentAssumption DEF EndpointIds
<1>2. IsFiniteSet(EndpointIds)
  <2>1. 1 \in Int /\ Len(Endpoints) \in Int
    BY <1>1
  <2> QED BY <1>1, <2>1, FS_Interval
<1>3. A \in SUBSET EndpointIds /\ \A i \in A : q[i].phase = "answered"
  BY DEF AnsweringOf
<1> HIDE DEF A
<1>4. IsFiniteSet(A) /\ m \in Nat /\ A \subseteq Nat
  <2>1. IsFiniteSet(A)
    BY <1>2, <1>3, FS_Subset
  <2> QED BY <1>1, <1>3, <2>1, FS_CardinalityType
<1>5. ASSUME NEW n \in 1 .. m
      PROVE  nth(n) \in A
  <2>1. \E i \in A : Cardinality({j \in A : j <= i}) = n
    BY <1>4, RankSurjective
  <2> QED BY <2>1
<1>6. svs = [n \in 1 .. m |-> entry(n)]
  BY DEF AnswersOf, A
<1> HIDE DEF nth, svs
<1>7. ASSUME NEW n \in 1 .. m
      PROVE  /\ entry(n) \in SignedVerdicts
             /\ entry(n).verdict[1] = AssetId /\ entry(n).verdict[2] = c
             /\ entry(n).signer \in Range(Endpoints)
             /\ entry(n).signature \in Signatures
             /\ entry(n).signer \in Verifier
  <2> DEFINE i == nth(n)
             s == q[i].verdict
  <2>1. i \in EndpointIds /\ Answering1(c, i, s)
    BY <1>3, <1>5
  <2> HIDE DEF i
  <2>2. s \in Signatures /\ s.signer = Endpoints[i] /\ s.message[1] = AssetId /\ s.message[2] = c
    BY <2>1 DEF Answering1
  <2>3. Endpoints[i] \in Range(Endpoints)
    BY <2>1 DEF Range, EndpointIds
  <2>4. s.signer \in Verifier /\ s.message \in Messages
    BY <2>2 DEF Signatures
  <2>5. s.signer \in DOMAIN KeyOf
    BY <2>4, AgentAssumption
  <2>6. entry(n) = [verdict |-> s.message, signature |-> s, signer |-> s.signer]
    BY DEF i
  <2> HIDE DEF s
  <2> QED BY <2>2, <2>3, <2>4, <2>5, <2>6 DEF SignedVerdicts
<1> HIDE DEF entry
<1>8. svs \in Seq(SignedVerdicts) /\ Len(svs) = m /\ DOMAIN svs = 1 .. m
      /\ \A n \in 1 .. m : svs[n] = entry(n)
  <2> HIDE DEF SignedVerdicts
  <2> QED BY <1>4, <1>6, <1>7
<1>9. \A v \in Verifier : KeyOf[v] = v
  BY AgentAssumption
<1>10. \A n \in DOMAIN svs : /\ svs[n].verdict[1] = AssetId /\ svs[n].verdict[2] = c
                             /\ KeyOf[svs[n].signer] \in Range(Endpoints)
  BY <1>7, <1>8, <1>9
<1>11. OneSpelling(svs)
  <2> SUFFICES ASSUME NEW i \in 1 .. m, NEW j \in 1 .. m,
                      KeyOf[svs[i].signer] = KeyOf[svs[j].signer]
               PROVE  svs[i].signer = svs[j].signer
    BY <1>8 DEF OneSpelling
  <2>1. svs[i].signer \in Verifier /\ svs[j].signer \in Verifier
    BY <1>7, <1>8
  <2> QED BY <1>9, <2>1
<1>12. Encodable(EvidenceOf(svs))
  <2>1. \A n \in 1 .. m : svs[n].signer \notin DOMAIN OddText /\ svs[n].signature \notin DOMAIN OddText
    <3> TAKE n \in 1 .. m
    <3>1. svs[n].signer \in Verifier /\ svs[n].signature \in Signatures
      BY <1>7, <1>8
    <3> QED BY <3>1, KeyAssumption
  <2> QED BY <1>8, <2>1 DEF Encodable, EvidenceOf, IsKeyHex, IsSignatureHex, Form
<1> QED BY <1>8, <1>10, <1>11, <1>12 DEF svs

-----------------------------------------------------------------------------
(* The runs, step by step. *)

\* A step changes one run and its transactions.
LEMMA OneRunChanges ==
  ASSUME NEW r \in Run, NEW p, NEW t, RunsOK, RunOK(p, t),
         run' = [run EXCEPT ![r] = p], tx' = [tx EXCEPT ![r] = t]
  PROVE  /\ RunsOK'
         /\ run'[r] = p /\ tx'[r] = t
         /\ \A x \in Run : x # r => run'[x] = run[x] /\ tx'[x] = tx[x]
<1>1. p \in RunStates /\ t \in TxStates
  BY DEF RunOK
<1>2. run \in [Run -> RunStates] /\ tx \in [Run -> TxStates] /\ \A x \in Run : RunOK(run[x], tx[x])
  BY DEF RunsOK
<1> HIDE DEF RunStates, TxStates, RunOK
<1>3. run' \in [Run -> RunStates] /\ tx' \in [Run -> TxStates]
  BY <1>1, <1>2
<1>4. /\ run'[r] = p /\ tx'[r] = t
      /\ \A x \in Run : x # r => run'[x] = run[x] /\ tx'[x] = tx[x]
  BY <1>2
<1>5. \A x \in Run : RunOK(run'[x], tx'[x])
  BY <1>2, <1>4
<1> QED BY <1>3, <1>4, <1>5 DEF RunsOK

\* What RunsOK says of one run.
LEMMA RunIsOK ==
  ASSUME RunsOK, NEW r \in Run
  PROVE  /\ RunOK(run[r], tx[r])
         /\ run[r] \in RunStates /\ tx[r] \in TxStates
         /\ run[r].query \in [EndpointIds -> QueryStates]
         /\ tx = [tx EXCEPT ![r] = tx[r]]
         /\ run = [run EXCEPT ![r] = run[r]]
<1>1. RunOK(run[r], tx[r]) /\ run[r] \in RunStates /\ tx[r] \in TxStates
  BY DEF RunsOK
<1>2. run[r].query \in [EndpointIds -> QueryStates]
  BY <1>1 DEF RunStates
<1> HIDE DEF RunStates, TxStates
<1> QED BY <1>1, <1>2 DEF RunsOK

\* A run that starts has asked nobody yet, and has no transactions.
LEMMA GuardRuns ==
  ASSUME RunsOK, NEW r \in Run, NEW c \in Cycle, run[r].pc = "idle", UNCHANGED tx,
         \/ PassGuard(r, c)
         \/ \E o \in {"already_distributed", "threw"} : run' = [run EXCEPT ![r].cycle = c, ![r].pc = "done",
                                                 ![r].outcome = o]
  PROVE  /\ RunsOK'
         /\ run'[r].cycle = c
         /\ \A x \in Run : x # r => run'[x] = run[x]
<1> DEFINE p == run[r]
           t == tx[r]
<1>1. RunOK(p, t) /\ tx = [tx EXCEPT ![r] = t]
  BY RunIsOK
<1>2. PICK s \in RunStates : /\ run' = [run EXCEPT ![r] = s]
                             /\ s.pc \in {"query", "done"} /\ s.cycle = c /\ s.query = p.query
  <2>1. p \in RunStates
    BY <1>1 DEF RunOK
  <2>2. CASE PassGuard(r, c)
    <3> DEFINE s == [p EXCEPT !.cycle = c, !.pc = "query"]
    <3>1. run' = [run EXCEPT ![r] = s]
      BY <2>2 DEF PassGuard
    <3> HIDE DEF p
    <3>2. s \in RunStates /\ s.pc = "query" /\ s.cycle = c /\ s.query = p.query
      BY <2>1 DEF RunStates, Pcs, Outcomes
    <3> QED BY <3>1, <3>2
  <2>3. CASE \E o \in {"already_distributed", "threw"} : run' = [run EXCEPT ![r].cycle = c, ![r].pc = "done",
                                                  ![r].outcome = o]
    <3>1. PICK o \in {"already_distributed", "threw"} : run' = [run EXCEPT ![r].cycle = c, ![r].pc = "done",
                                                 ![r].outcome = o]
      BY <2>3
    <3> DEFINE s == [p EXCEPT !.cycle = c, !.pc = "done", !.outcome = o]
    <3>2. run' = [run EXCEPT ![r] = s]
      BY <3>1
    <3> HIDE DEF p
    <3>3. s \in RunStates /\ s.pc = "done" /\ s.cycle = c /\ s.query = p.query
      BY <2>1 DEF RunStates, Pcs, Outcomes
    <3> QED BY <3>2, <3>3
  <2> QED BY <2>2, <2>3
<1>3. t.distribute = "none" /\ t.brief = "none" /\ \A i \in EndpointIds : p.query[i].phase = "asking"
  BY <1>1 DEF RunOK
<1> HIDE DEF p, t
<1>4. RunOK(s, t)
  BY <1>1, <1>2, <1>3 DEF RunOK
<1>5. tx' = [tx EXCEPT ![r] = t] /\ run' = [run EXCEPT ![r] = s]
  BY <1>1, <1>2
<1>6. /\ RunsOK' /\ run'[r] = s
      /\ \A x \in Run : x # r => run'[x] = run[x]
  BY <1>4, <1>5, OneRunChanges
<1> QED BY <1>2, <1>6

\* A request of a run that asks moves on, with no answer but to its question.
LEMMA QueryRuns ==
  ASSUME RunsOK, NEW r \in Run, NEW i \in EndpointIds, NEW x \in QueryStates,
         run[r].pc = "query", UNCHANGED tx,
         run' = [run EXCEPT ![r].query[i] = x],
         x.phase \in {"settled", "answered"} => Answering1(run[r].cycle, i, x.verdict)
  PROVE  /\ RunsOK'
         /\ run'[r].pc = "query" /\ run'[r].cycle = run[r].cycle
         /\ \A y \in Run : y # r => run'[y] = run[y]
<1> DEFINE p == run[r]
           t == tx[r]
           s == [p EXCEPT !.query[i] = x]
<1>1. RunOK(p, t) /\ p \in RunStates /\ p.query \in [EndpointIds -> QueryStates]
      /\ tx = [tx EXCEPT ![r] = t]
  BY RunIsOK
<1>2. run' = [run EXCEPT ![r] = s]
  OBVIOUS
<1>3. p.pc = "query" /\ (x.phase \in {"settled", "answered"} => Answering1(p.cycle, i, x.verdict))
  OBVIOUS
<1> HIDE DEF p, t, QueryStates
<1>4. /\ s \in RunStates /\ s.pc = "query" /\ s.cycle = p.cycle
      /\ s.query[i] = x /\ \A j \in EndpointIds : j # i => s.query[j] = p.query[j]
  BY <1>1, <1>3 DEF RunStates
<1> HIDE DEF s
<1>5. RunOK(s, t)
  BY <1>1, <1>3, <1>4 DEF RunOK
<1>6. tx' = [tx EXCEPT ![r] = t]
  BY <1>1
<1>7. /\ RunsOK' /\ run'[r] = s
      /\ \A y \in Run : y # r => run'[y] = run[y]
  BY <1>2, <1>5, <1>6, OneRunChanges
<1> QED BY <1>4, <1>7 DEF p

\* What becomes of a request: an attempt fails, is served, or is answered.
LEMMA RequestSteps ==
  ASSUME RunsOK, NEW r \in Run, Query(r)
  PROVE  /\ RunsOK'
         /\ run[r].pc = "query" /\ run'[r].pc = "query" /\ run'[r].cycle = run[r].cycle
         /\ \A y \in Run : y # r => run'[y] = run[y]
         /\ UNCHANGED <<tx, paidIn>>
         /\ [\E s \in Signatures : Issue(s)]_vars
         /\ \A s \in signed' \ signed :
              s.signer \in Honest /\ s.message[3] => s.message[2] \in paidIn
<1>1. PICK i \in EndpointIds :
        \/ Refused(r, i) \/ Answered(r, i) \/ AnswerLost(r, i)
        \/ \E yes \in BOOLEAN, d \in Detail : Unsettled(r, i, yes, d) \/ Served(r, i, yes, d)
  BY DEF Query
<1> DEFINE p == run[r]
           q == p.query[i]
<1>2. RunOK(p, tx[r]) /\ p \in RunStates /\ p.query \in [EndpointIds -> QueryStates]
  BY RunIsOK
<1>3. q \in QueryStates
  BY <1>2
<1>4. p.pc = "query" /\ UNCHANGED <<tx, paidIn>>
  BY <1>1 DEF Refused, Answered, AnswerLost, Unsettled, Served, InPhase
<1>5. p.cycle \in Cycle
  <2> HIDE DEF p
  <2> QED BY <1>2, <1>4 DEF RunOK
<1>6. ASSUME NEW x \in QueryStates
      PROVE  AfterFailure(x) \in QueryStates /\ AfterFailure(x).phase \in {"asking", "failed"}
  <2>1. x.attempt + 1 \in Nat
    BY DEF QueryStates
  <2> DEFINE again == [x EXCEPT !.phase = "asking", !.attempt = x.attempt + 1]
             failed == [x EXCEPT !.phase = "failed"]
  <2>2. again \in QueryStates /\ again.phase = "asking"
    BY <2>1 DEF QueryStates, Phases
  <2>3. failed \in QueryStates /\ failed.phase = "failed"
    BY DEF QueryStates, Phases
  <2>4. AfterFailure(x) = IF x.attempt < 2 THEN again ELSE failed
    BY DEF AfterFailure, MaxAttempts, QueryStates
  <2> HIDE DEF again, failed
  <2> QED BY <2>2, <2>3, <2>4
<1> DEFINE Asks == /\ RunsOK'
                   /\ p.pc = "query" /\ run'[r].pc = "query" /\ run'[r].cycle = run[r].cycle
                   /\ \A y \in Run : y # r => run'[y] = run[y]
<1>7. ASSUME NEW x \in QueryStates, run' = [run EXCEPT ![r].query[i] = x],
             x.phase \in {"settled", "answered"} => Answering1(p.cycle, i, x.verdict)
      PROVE  Asks
  <2> HIDE DEF QueryStates, RunsOK
  <2> QED BY <1>4, <1>7, QueryRuns
<1>8. ASSUME NEW yes \in BOOLEAN, NEW d \in Detail, MayAttest(Endpoints[i], yes, p.cycle)
      PROVE  /\ Attestation(r, i, yes, d) \in Signatures
             /\ Answering1(p.cycle, i, Attestation(r, i, yes, d))
             /\ Attestation(r, i, yes, d).signer \in Honest /\ Attestation(r, i, yes, d).message[3]
                  => Attestation(r, i, yes, d).message[2] \in paidIn
  <2> DEFINE s == Attestation(r, i, yes, d)
  <2>1. Endpoints[i] \in Verifier /\ AssetId \in Asset
    BY AgentAssumption DEF EndpointIds
  <2>2. s = [signer |-> Endpoints[i], message |-> <<AssetId, p.cycle, yes, d>>]
    BY DEF Attestation, Message
  <2> HIDE DEF s, p
  <2>3. s \in Signatures
    BY <1>5, <2>1, <2>2 DEF Signatures, Messages
  <2>4. s.signer = Endpoints[i] /\ s.message[1] = AssetId /\ s.message[2] = p.cycle
        /\ s.message[3] = yes
    BY <2>2
  <2>5. Answering1(p.cycle, i, s)
    BY <1>5, <2>3, <2>4 DEF Answering1
  <2> QED BY <1>8, <2>3, <2>4, <2>5 DEF MayAttest, s
<1>9. CASE Refused(r, i)
  <2>1. run' = [run EXCEPT ![r].query[i] = AfterFailure(q)] /\ UNCHANGED vars
    BY <1>9 DEF Refused
  <2>2. Asks
    <3> HIDE DEF q, p, Asks
    <3> QED BY <1>3, <1>6, <1>7, <2>1
  <2>3. signed' = signed
    BY <2>1 DEF vars
  <2> QED BY <1>4, <2>1, <2>2, <2>3
<1>10. CASE Answered(r, i)
  <2> DEFINE x == [q EXCEPT !.phase = "answered"]
  <2>1. run' = [run EXCEPT ![r].query[i] = x] /\ UNCHANGED vars /\ q.phase = "settled"
    BY <1>10 DEF Answered, InPhase
  <2>2. Answering1(p.cycle, i, q.verdict)
    <3> HIDE DEF p
    <3> QED BY <1>2, <2>1 DEF RunOK
  <2>3. Asks
    <3> HIDE DEF q, p, Asks
    <3>1. x \in QueryStates /\ x.verdict = q.verdict
      BY <1>3 DEF QueryStates, Phases
    <3> HIDE DEF x
    <3> QED BY <1>7, <2>1, <2>2, <3>1
  <2>4. signed' = signed
    BY <2>1 DEF vars
  <2> QED BY <1>4, <2>1, <2>3, <2>4
<1>11. CASE AnswerLost(r, i)
  <2> DEFINE x == [q EXCEPT !.verdict = None]
  <2>1. run' = [run EXCEPT ![r].query[i] = AfterFailure(x)] /\ UNCHANGED vars
    BY <1>11 DEF AnswerLost
  <2>2. Asks
    <3> HIDE DEF q, p, Asks
    <3>1. x \in QueryStates
      BY <1>3 DEF QueryStates
    <3> HIDE DEF x
    <3> QED BY <1>6, <1>7, <2>1, <3>1
  <2>3. signed' = signed
    BY <2>1 DEF vars
  <2> QED BY <1>4, <2>1, <2>2, <2>3
<1>12. ASSUME NEW yes \in BOOLEAN, NEW d \in Detail, Unsettled(r, i, yes, d)
       PROVE  Asks /\ \E s \in Signatures : /\ Issue(s)
                                            /\ s.signer \in Honest /\ s.message[3]
                                                 => s.message[2] \in paidIn
  <2> DEFINE s == Attestation(r, i, yes, d)
  <2>1. /\ run' = [run EXCEPT ![r].query[i] = AfterFailure(q)]
        /\ Issue(s)
        /\ MayAttest(Endpoints[i], yes, p.cycle)
    BY <1>12 DEF Unsettled, Issue
  <2>2. Asks
    <3> HIDE DEF q, p, Asks
    <3> QED BY <1>3, <1>6, <1>7, <2>1
  <2>3. s \in Signatures /\ (s.signer \in Honest /\ s.message[3] => s.message[2] \in paidIn)
    BY <1>8, <2>1
  <2> HIDE DEF Asks, s
  <2> QED BY <2>1, <2>2, <2>3
<1>13. ASSUME NEW yes \in BOOLEAN, NEW d \in Detail, Served(r, i, yes, d)
       PROVE  Asks /\ \E s \in Signatures : /\ Issue(s)
                                            /\ s.signer \in Honest /\ s.message[3]
                                                 => s.message[2] \in paidIn
  <2> DEFINE s == Attestation(r, i, yes, d)
             x == AfterCharge(q, s)
  <2>1. /\ run' = [run EXCEPT ![r].query[i] = x]
        /\ Issue(s)
        /\ MayAttest(Endpoints[i], yes, p.cycle)
    BY <1>13 DEF Served, Issue
  <2>2. s \in Signatures /\ Answering1(p.cycle, i, s)
        /\ (s.signer \in Honest /\ s.message[3] => s.message[2] \in paidIn)
    BY <1>8, <2>1
  <2> HIDE DEF s
  <2>4. Asks
    <3> HIDE DEF q, p, Asks
    <3>1. x \in QueryStates /\ x.verdict = s
      <4>1. q.charged + 1 \in Nat
        BY <1>3 DEF QueryStates
      <4> QED BY <1>3, <2>2, <4>1 DEF AfterCharge, QueryStates, Phases
    <3> HIDE DEF x
    <3> QED BY <1>7, <2>1, <2>2, <3>1
  <2> HIDE DEF Asks
  <2> QED BY <2>1, <2>2, <2>4
<1>14. ASSUME NEW s \in Signatures, Issue(s),
              s.signer \in Honest /\ s.message[3] => s.message[2] \in paidIn
       PROVE  /\ [\E x \in Signatures : Issue(x)]_vars
              /\ \A x \in signed' \ signed :
                   x.signer \in Honest /\ x.message[3] => x.message[2] \in paidIn
  BY <1>14 DEF Issue
<1> QED BY <1>1, <1>4, <1>9, <1>10, <1>11, <1>12, <1>13, <1>14

\* The status of a run's distribution is kept, or is one that settles nothing.
StatusKept(r) ==
  \/ /\ tx'[r].distribute = tx[r].distribute
     /\ tx[r].distribute = "none" \/ run'[r].cycle = run[r].cycle
  \/ tx[r].distribute # "ok" /\ tx'[r].distribute \in {"none", "pending", "expired"}

\* A run that moves on within what it has decided.
LEMMA RunMoves ==
  ASSUME RunsOK, NEW r \in Run, NEW p, NEW t,
         run' = [run EXCEPT ![r] = p], tx' = [tx EXCEPT ![r] = t],
         p \in RunStates, t \in TxStates,
         p.query = run[r].query, p.cycle = run[r].cycle,
         run[r].pc # "idle", p.pc \notin {"idle", "query"},
         p.pc = "done" \/ DecisionOf(run[r].query) = "go",
         p.pc = "submit" => t.distribute = "none",
         p.pc # "done" => t.brief = "none",
         p.pc = "record" => p.brief \in Brief,
         t.brief = "pending" => t.text \in Brief,
         t.distribute # "none" \/ t.brief # "none" => DecisionOf(run[r].query) = "go",
         \/ t.distribute = tx[r].distribute
         \/ tx[r].distribute # "ok" /\ t.distribute \in {"none", "pending", "expired"},
         run[r].pc = "done" => run[r].cycle \in Cycle
  PROVE  RunsOK' /\ \A x \in Run : StatusKept(x)
<1>1. RunOK(run[r], tx[r]) /\ run[r] \in RunStates
  BY RunIsOK
<1>2. run[r].cycle \in Cycle
  BY <1>1 DEF RunOK, RunStates, Pcs
<1>3. RunOK(p, t)
  <2>1. /\ p \in RunStates /\ t \in TxStates
        /\ p.pc # "idle"
        /\ p.cycle \in Cycle
        /\ p.pc \notin {"idle", "query"}
    BY <1>2
  <2>2. \A i \in EndpointIds : p.query[i].phase \in {"settled", "answered"} =>
          Answering1(p.cycle, i, p.query[i].verdict)
    BY <1>1 DEF RunOK
  <2>3. (t.distribute # "none" \/ t.brief # "none" \/ p.pc \in {"submit", "brief", "record"})
          => DecisionOf(p.query) = "go"
    OBVIOUS
  <2> HIDE DEF RunStates, TxStates
  <2> QED BY <2>1, <2>2, <2>3 DEF RunOK
<1> HIDE DEF RunStates, TxStates
<1>4. /\ RunsOK'
      /\ run'[r] = p /\ tx'[r] = t
      /\ \A x \in Run : x # r => run'[x] = run[x] /\ tx'[x] = tx[x]
  BY <1>3, OneRunChanges
<1>5. \A x \in Run : StatusKept(x)
  BY <1>4 DEF StatusKept
<1> QED BY <1>4, <1>5

\* Decide: a run goes on to submit exactly if its answers reach the quorum.
LEMMA DecideRuns ==
  ASSUME RunsOK, NEW r \in Run, Decide(r)
  PROVE  RunsOK' /\ \A x \in Run : StatusKept(x)
<1> DEFINE p == run[r]
           t == tx[r]
<1>1. /\ RunOK(p, t) /\ p \in RunStates /\ t \in TxStates /\ tx = [tx EXCEPT ![r] = t]
  BY RunIsOK
<1>2. /\ p.pc = "query" /\ tx' = tx
      /\ IF DecisionOf(p.query) = "go" THEN run' = [run EXCEPT ![r].pc = "submit"]
         ELSE run' = [run EXCEPT ![r].pc = "done", ![r].outcome = DecisionOf(p.query)]
  BY DecisionIs DEF Decide, Goto, Return
<1>3. DecisionOf(p.query) \in Outcomes \cup {"go"}
  BY DEF DecisionOf, Outcomes
<1> DEFINE d == DecisionOf(p.query)
           goes == [p EXCEPT !.pc = "submit"]
           ends == [p EXCEPT !.pc = "done", !.outcome = d]
           s == IF d = "go" THEN goes ELSE ends
<1>4. run' = [run EXCEPT ![r] = s]
  BY <1>2
<1>5. t.distribute = "none" /\ t.brief = "none"
  <2> HIDE DEF p, t
  <2> QED BY <1>1, <1>2 DEF RunOK
<1>6. /\ s \in RunStates /\ s.query = p.query /\ s.cycle = p.cycle
      /\ s.pc = IF d = "go" THEN "submit" ELSE "done"
  <2>1. d \in Outcomes \cup {"go"} /\ p \in RunStates
    BY <1>1, <1>3
  <2> HIDE DEF p, d
  <2> QED BY <2>1 DEF RunStates, Pcs, Outcomes
<1>7. tx' = [tx EXCEPT ![r] = t]
  BY <1>1, <1>2
<1> HIDE DEF s, RunStates, TxStates
<1> QED BY <1>1, <1>2, <1>4, <1>5, <1>6, <1>7, RunMoves

\* Submit and SubmitFault: the distribution is pending, or never was submitted.
LEMMA SubmitRuns ==
  ASSUME RunsOK, NEW r \in Run, Submit(r) \/ SubmitFault(r)
  PROVE  RunsOK' /\ \A x \in Run : StatusKept(x)
<1> DEFINE p == run[r]
           t == tx[r]
<1>1. /\ RunOK(p, t) /\ p \in RunStates /\ t \in TxStates
  BY RunIsOK
<1>2. p.pc = "submit"
  BY DEF Submit, SubmitFault
<1>3. t.distribute = "none" /\ t.brief = "none" /\ DecisionOf(p.query) = "go"
  <2> HIDE DEF p, t
  <2> QED BY <1>1, <1>2 DEF RunOK
<1>4. PICK status \in {"none", "pending"} : tx' = [tx EXCEPT ![r].distribute = status]
  BY DEF Submit, SubmitFault
<1> DEFINE u == [t EXCEPT !.distribute = status]
           goes == [p EXCEPT !.pc = "brief"]
           ends == [p EXCEPT !.pc = "done", !.outcome = "threw"]
<1>5. /\ goes \in RunStates /\ goes.query = p.query /\ goes.cycle = p.cycle /\ goes.pc = "brief"
      /\ ends \in RunStates /\ ends.query = p.query /\ ends.cycle = p.cycle /\ ends.pc = "done"
  <2> HIDE DEF p
  <2> QED BY <1>1 DEF RunStates, Pcs, Outcomes
<1>6. PICK s \in RunStates : /\ run' = [run EXCEPT ![r] = s]
                             /\ s.query = p.query /\ s.cycle = p.cycle
                             /\ s.pc \in {"brief", "done"}
  <2>1. run' = [run EXCEPT ![r] = goes] \/ run' = [run EXCEPT ![r] = ends]
    BY DEF Submit, SubmitFault, Goto, Return
  <2> HIDE DEF goes, ends, RunStates
  <2> QED BY <1>5, <2>1
<1>7. tx' = [tx EXCEPT ![r] = u]
  BY <1>4
<1>8. u \in TxStates /\ u.distribute = status /\ u.brief = t.brief
  <2> HIDE DEF t
  <2> QED BY <1>1 DEF TxStates, Reverts, BriefReverts
<1> HIDE DEF u, RunStates, TxStates
<1> QED BY <1>2, <1>3, <1>6, <1>7, <1>8, RunMoves

\* WriteBrief, RecordSubmit and BriefFault: the distribution stays as it is.
LEMMA BriefRuns ==
  ASSUME RunsOK, NEW r \in Run,
         (\E b \in Brief : WriteBrief(r, b)) \/ RecordSubmit(r) \/ BriefFault(r)
  PROVE  RunsOK' /\ \A x \in Run : StatusKept(x)
<1> DEFINE p == run[r]
           t == tx[r]
<1>1. /\ RunOK(p, t) /\ p \in RunStates /\ t \in TxStates /\ tx = [tx EXCEPT ![r] = t]
  BY RunIsOK
<1>2. p.pc \in {"brief", "record"}
  BY DEF WriteBrief, RecordSubmit, BriefFault
<1>3. t.brief = "none" /\ DecisionOf(p.query) = "go" /\ (p.pc = "record" => p.brief \in Brief)
  <2> HIDE DEF p, t
  <2> QED BY <1>1, <1>2 DEF RunOK
<1>4. PICK s \in RunStates : /\ run' = [run EXCEPT ![r] = s]
                             /\ s.query = p.query /\ s.cycle = p.cycle
                             /\ s.pc \in {"record", "done"}
                             /\ s.pc = "record" => s.brief \in Brief /\ tx' = tx
  <2>1. CASE \E b \in Brief : WriteBrief(r, b)
    <3>1. PICK b \in Brief : WriteBrief(r, b)
      BY <2>1
    <3> DEFINE s == [p EXCEPT !.pc = "record", !.brief = b]
    <3>2. run' = [run EXCEPT ![r] = s] /\ tx' = tx
      BY <3>1 DEF WriteBrief
    <3>3. s \in RunStates /\ s.query = p.query /\ s.cycle = p.cycle /\ s.pc = "record" /\ s.brief = b
      <4> HIDE DEF p
      <4> QED BY <1>1 DEF RunStates, Pcs, Outcomes
    <3> HIDE DEF s, RunStates
    <3> QED BY <3>2, <3>3
  <2>2. CASE RecordSubmit(r)
    <3> DEFINE s == [p EXCEPT !.pc = "done", !.outcome = "distributed"]
    <3>1. run' = [run EXCEPT ![r] = s]
      BY <2>2 DEF RecordSubmit, Return
    <3>2. s \in RunStates /\ s.query = p.query /\ s.cycle = p.cycle /\ s.pc = "done"
      <4> HIDE DEF p
      <4> QED BY <1>1 DEF RunStates, Pcs, Outcomes
    <3> HIDE DEF s, RunStates
    <3> QED BY <3>1, <3>2
  <2>3. CASE BriefFault(r)
    <3> DEFINE s == [p EXCEPT !.pc = "done", !.outcome = "distributed", !.brief = None]
    <3>1. run' = [run EXCEPT ![r] = s]
      BY <2>3 DEF BriefFault
    <3>2. s \in RunStates /\ s.query = p.query /\ s.cycle = p.cycle /\ s.pc = "done"
      <4> HIDE DEF p
      <4> QED BY <1>1 DEF RunStates, Pcs, Outcomes
    <3> HIDE DEF s, RunStates
    <3> QED BY <3>1, <3>2
  <2> QED BY <2>1, <2>2, <2>3
<1>5. PICK u \in TxStates : /\ tx' = [tx EXCEPT ![r] = u]
                            /\ u.distribute = t.distribute
                            /\ u.brief \in {"none", "pending"}
                            /\ tx' # tx => u.text \in Brief
                            /\ tx' = tx => u = t
  <2>1. CASE tx' = tx
    BY <1>1, <1>3, <2>1
  <2>2. CASE tx' # tx
    <3> DEFINE u == [t EXCEPT !.brief = "pending", !.text = p.brief]
    <3>1. tx' = [tx EXCEPT ![r] = u] /\ p.pc = "record"
      BY <2>2 DEF WriteBrief, RecordSubmit, BriefFault
    <3>2. p.brief \in Brief
      BY <1>3, <3>1
    <3>3. u \in TxStates /\ u.distribute = t.distribute /\ u.brief = "pending" /\ u.text = p.brief
      <4> HIDE DEF t, p
      <4> QED BY <1>1, <3>2 DEF TxStates, Reverts, BriefReverts
    <3> HIDE DEF u, TxStates
    <3> QED BY <2>2, <3>1, <3>2, <3>3
  <2> QED BY <2>1, <2>2
<1>6. s.pc # "done" => u.brief = "none"
  BY <1>3, <1>4, <1>5
<1>7. u.brief = "pending" => u.text \in Brief
  BY <1>3, <1>5
<1> HIDE DEF RunStates, TxStates
<1> QED BY <1>2, <1>3, <1>4, <1>5, <1>6, <1>7, RunMoves

-----------------------------------------------------------------------------
(* The chain, step by step. *)

\* One of two transactions t, a pending one, is executed or expires.
TxMoves(t, u) ==
  /\ u \in TxStates /\ u.text = t.text
  /\ \/ t.distribute = "pending" /\ u.brief = t.brief
     \/ t.brief = "pending" /\ u.distribute = t.distribute

\* A pending transaction of a run is executed or expires.
LEMMA ChainRuns ==
  ASSUME NEW r \in Run, NEW u, RunsOK, TxMoves(tx[r], u),
         UNCHANGED run, tx' = [tx EXCEPT ![r] = u]
  PROVE  /\ RunsOK' /\ tx'[r] = u
         /\ \A x \in Run : x # r => tx'[x] = tx[x]
<1> DEFINE p == run[r]
           t == tx[r]
<1>1. RunOK(p, t) /\ p \in RunStates /\ run = [run EXCEPT ![r] = p]
  BY RunIsOK
<1>2. /\ u \in TxStates /\ u.text = t.text
      /\ \/ t.distribute = "pending" /\ u.brief = t.brief
         \/ t.brief = "pending" /\ u.distribute = t.distribute
  BY DEF TxMoves
<1>3. RunOK(p, u)
  <2>1. \/ p.pc = "done"
        \/ p.pc \in {"brief", "record"} /\ u.brief = t.brief
    <3> HIDE DEF p, t
    <3> QED BY <1>1, <1>2 DEF RunOK, RunStates, Pcs
  <2>2. p.cycle \in Cycle /\ DecisionOf(p.query) = "go"
    <3> HIDE DEF p, t
    <3> QED BY <1>1, <1>2 DEF RunOK
  <2>3. u.brief = "pending" => t.brief = "pending"
    BY <1>2
  <2> HIDE DEF p, t, RunStates, TxStates
  <2> QED BY <1>1, <1>2, <2>1, <2>2, <2>3 DEF RunOK
<1>4. run' = [run EXCEPT ![r] = p] /\ tx' = [tx EXCEPT ![r] = u]
  BY <1>1
<1> HIDE DEF p, t, TxStates, RunStates
<1>5. /\ RunsOK' /\ run'[r] = p /\ tx'[r] = u
      /\ \A x \in Run : x # r => run'[x] = run[x] /\ tx'[x] = tx[x]
  BY <1>3, <1>4, OneRunChanges
<1> QED BY <1>5

\* What a run has submitted is well-formed evidence on its cycle, and if its
\* endpoints are registered, the contract counts the quorum it has counted.
LEMMA PendingEvidence ==
  ASSUME RunsOK, NEW r \in Run, tx[r].distribute = "pending", NEW c, NEW e,
         c = run[r].cycle, e = DistributeArgs(EvidenceOf(Answers(r)))
  PROVE  /\ c \in Cycle /\ e \in EvidenceArrays /\ ParallelArrays(e)
         /\ \A cfg : Range(Endpoints) \subseteq Range(cfg.verifiers) =>
              Cardinality(YesVotes(cfg, AssetId, c, e)) >= QuorumRequired
<1> DEFINE q == run[r].query
           svs == AnswersOf(q)
<1>1. RunOK(run[r], tx[r]) /\ q \in [EndpointIds -> QueryStates]
  BY RunIsOK
<1>2. c \in Cycle /\ DecisionOf(q) = "go"
  BY <1>1 DEF RunOK
<1>3. \A i \in EndpointIds : q[i].phase \in {"settled", "answered"} =>
        Answering1(run[r].cycle, i, q[i].verdict)
  BY <1>1 DEF RunOK
<1>4. Answers(r) = svs
  BY DecisionIs
<1>5. e = DistributeArgs(EvidenceOf(svs))
  BY <1>4
<1> HIDE DEF q
<1>6. /\ svs \in Seq(SignedVerdicts)
      /\ \A n \in DOMAIN svs : /\ svs[n].verdict[1] = AssetId /\ svs[n].verdict[2] = c
                               /\ KeyOf[svs[n].signer] \in Range(Endpoints)
      /\ Encodable(EvidenceOf(svs)) /\ OneSpelling(svs)
  <2> DEFINE b == run[r].cycle
  <2>1. c = b /\ \A i \in EndpointIds : q[i].phase \in {"settled", "answered"} =>
                  Answering1(b, i, q[i].verdict)
    BY <1>3
  <2> HIDE DEF SignedVerdicts, QueryStates, b
  <2>2. /\ AnswersOf(q) \in Seq(SignedVerdicts)
        /\ \A n \in DOMAIN AnswersOf(q) : /\ AnswersOf(q)[n].verdict[1] = AssetId
                                          /\ AnswersOf(q)[n].verdict[2] = b
                                          /\ KeyOf[AnswersOf(q)[n].signer] \in Range(Endpoints)
        /\ Encodable(EvidenceOf(AnswersOf(q))) /\ OneSpelling(AnswersOf(q))
    BY <1>1, <2>1, AnswersType
  <2> QED BY <2>1, <2>2
<1>7. ReachQuorum(svs, QuorumRequired)
  BY <1>2 DEF DecisionOf
<1> HIDE DEF svs, SignedVerdicts
<1>8. e \in EvidenceArrays /\ ParallelArrays(e)
  BY <1>5, <1>6, EvidenceType
<1>9. ASSUME NEW cfg, Range(Endpoints) \subseteq Range(cfg.verifiers)
      PROVE  Cardinality(YesVotes(cfg, AssetId, c, e)) >= QuorumRequired
  <2>1. OnTheCycle(svs, cfg, AssetId, c)
    BY <1>6, <1>9 DEF OnTheCycle
  <2>2. Cardinality(Voters(cfg, AssetId, c, e)) = Len(YesSigners(svs))
    BY <1>5, <1>6, <2>1, PrecheckCounts
  <2>3. Cardinality(Voters(cfg, AssetId, c, e)) = Cardinality(YesVotes(cfg, AssetId, c, e))
    BY <1>8, DistinctSigners DEF Voters
  <2> QED BY <1>7, <2>2, <2>3 DEF ReachQuorum
<1> QED BY <1>2, <1>8, <1>9

\* Why the contract rejects what a run has submitted.
LEMMA RejectedFor ==
  ASSUME AgentInv, NEW r \in Run, tx[r].distribute = "pending", NEW c, NEW e,
         c = run[r].cycle, e = DistributeArgs(EvidenceOf(Answers(r)))
  PROVE  /\ DistributeError(AssetId, c, e) \in Reverts \cup {"ok"}
         /\ assets[AssetId] = None => DistributeError(AssetId, c, e) = "AssetNotFound"
         /\ /\ assets[AssetId] # None
            /\ Range(Endpoints) \subseteq Range(assets[AssetId].verifiers)
            /\ QuorumRequired >= assets[AssetId].quorum
            => DistributeError(AssetId, c, e) \in {"ok", "AlreadyDistributed", "InsufficientPool"}
<1> DEFINE cfg == assets[AssetId]
           pool == pools[AssetId]
<1>0. AssetId \in Asset /\ QuorumRequired \in Nat
  BY AgentAssumption
<1>1. /\ ParallelArrays(e)
      /\ Range(Endpoints) \subseteq Range(cfg.verifiers) =>
           Cardinality(YesVotes(cfg, AssetId, c, e)) >= QuorumRequired
  BY PendingEvidence DEF AgentInv
<1>2. e \in EvidenceArrays
  BY PendingEvidence DEF AgentInv
<1>3. TypeOK /\ RulesValid /\ purse = pool
  BY DEF AgentInv, SafetyInv, TypeInv, OnePool
<1>4. ASSUME cfg # None
      PROVE  /\ TotalWeight(cfg) # 0 /\ ~(Paid(cfg, pool) > purse)
             /\ cfg.quorum \in Nat
  <2>1. cfg \in Configs /\ pool \in Nat
    BY <1>0, <1>3, <1>4 DEF TypeOK
  <2>2. TotalWeight(cfg) > 0
    BY <1>0, <1>3, <1>4 DEF RulesValid
  <2>3. Paid(cfg, pool) \in Nat /\ Paid(cfg, pool) <= pool
    <3> HIDE DEF cfg, pool
    <3> QED BY <2>1, <2>2, PaidBounds
  <2>4. cfg.quorum \in Nat
    <3> HIDE DEF cfg
    <3> QED BY <2>1 DEF Configs
  <2>5. TotalWeight(cfg) \in Nat
    <3> HIDE DEF cfg
    <3> QED BY <2>1, WeightsType
  <2> HIDE DEF cfg, pool
  <2> QED BY <1>3, <2>1, <2>2, <2>3, <2>4, <2>5
<1>5. Cardinality(YesVotes(cfg, AssetId, c, e)) \in Nat
  BY <1>2, CountedVotesFacts, FS_CardinalityType
<1>6. DistributeError(AssetId, c, e) \in Reverts \cup {"ok"}
  BY DEF DistributeError, Reverts
<1>7. assets[AssetId] = None => DistributeError(AssetId, c, e) = "AssetNotFound"
  BY <1>1 DEF DistributeError
<1>8. ASSUME cfg # None, Range(Endpoints) \subseteq Range(cfg.verifiers),
             QuorumRequired >= cfg.quorum
      PROVE  DistributeError(AssetId, c, e) \in {"ok", "AlreadyDistributed", "InsufficientPool"}
  <2>1. ~(Cardinality(YesVotes(cfg, AssetId, c, e)) < cfg.quorum)
    <3> HIDE DEF cfg
    <3> QED BY <1>0, <1>1, <1>4, <1>5, <1>8
  <2> QED BY <1>1, <1>4, <1>8, <2>1 DEF DistributeError
<1> QED BY <1>6, <1>7, <1>8

-----------------------------------------------------------------------------
(* Every step preserves the invariant. *)

\* A step that settles nothing and registers nothing keeps what has been
\* settled, and why the rest has not.
LEMMA QuietStep ==
  ASSUME SettledByOneRun, Accepted, UNCHANGED <<distributed, assets>>,
         \A x \in Run : StatusKept(x)
  PROVE  SettledByOneRun' /\ Accepted'
<1>1. \A x \in Run : tx[x].distribute = "ok" =>
        tx'[x].distribute = "ok" /\ run'[x].cycle = run[x].cycle
  BY DEF StatusKept
<1>2. \A x \in Run : tx'[x].distribute = "ok" =>
        tx[x].distribute = "ok" /\ run'[x].cycle = run[x].cycle
  BY DEF StatusKept
<1>3. SettledByOneRun'
  BY <1>1, <1>2 DEF SettledByOneRun, RunKey
<1>4. \A x \in Run : tx'[x].distribute \notin {"none", "pending"} =>
        \/ tx'[x].distribute = "expired"
        \/ tx[x].distribute \notin {"none", "pending"} /\ tx'[x].distribute = tx[x].distribute
  BY DEF StatusKept
<1>5. Accepted'
  BY <1>4 DEF Accepted
<1> QED BY <1>3, <1>5

\* ExecuteDistribute: the contract settles what one run has submitted, or
\* reverts it for a reason that is not its evidence.
LEMMA ExecuteDistributeStep ==
  ASSUME NEW r \in Run, AgentInv, ExecuteDistribute(r)
  PROVE  /\ [VaultStep]_vars
         /\ RunsOK' /\ OnePool' /\ SettledByOneRun' /\ Accepted'
         /\ UNCHANGED <<signed, paidIn>>
<1> DEFINE c == run[r].cycle
           e == DistributeArgs(EvidenceOf(Answers(r)))
           error == DistributeError(AssetId, c, e)
           t == tx[r]
           u == [t EXCEPT !.distribute = error]
<1>1. /\ t.distribute = "pending" /\ UNCHANGED <<run, paidIn>>
      /\ \/ Distribute(AssetId, c, e)
         \/ error # "ok" /\ UNCHANGED vars
      /\ tx' = [tx EXCEPT ![r].distribute = error]
  BY DEF ExecuteDistribute
<1>2. RunsOK /\ SafetyInv /\ OnePool /\ SettledByOneRun /\ Accepted /\ TypeOK /\ RulesValid
  BY DEF AgentInv, SafetyInv, TypeInv
<1>3. c \in Cycle /\ e \in EvidenceArrays /\ AssetId \in Asset
  BY <1>1, <1>2, PendingEvidence, AgentAssumption
<1>4. /\ error \in Reverts \cup {"ok"}
      /\ assets[AssetId] = None => error = "AssetNotFound"
      /\ /\ assets[AssetId] # None
         /\ Range(Endpoints) \subseteq Range(assets[AssetId].verifiers)
         /\ QuorumRequired >= assets[AssetId].quorum
         => error \in {"ok", "AlreadyDistributed", "InsufficientPool"}
  BY <1>1, RejectedFor
<1>5. t \in TxStates
  BY <1>2, RunIsOK
<1> HIDE DEF e, error
<1>6. tx' = [tx EXCEPT ![r] = u]
  BY <1>1
<1>7. u \in TxStates /\ u.distribute = error /\ u.text = t.text /\ u.brief = t.brief
  <2> HIDE DEF t
  <2> QED BY <1>4, <1>5 DEF TxStates
<1>8. TxMoves(t, u)
  <2> HIDE DEF t, u, TxStates
  <2> QED BY <1>1, <1>7 DEF TxMoves
<1>9. /\ RunsOK' /\ tx'[r].distribute = error
      /\ \A x \in Run : x # r => tx'[x] = tx[x]
  <2>1. /\ RunsOK' /\ tx'[r] = u
        /\ \A x \in Run : x # r => tx'[x] = tx[x]
    <3> HIDE DEF u
    <3> QED BY <1>1, <1>2, <1>6, <1>8, ChainRuns
  <2> HIDE DEF u
  <2> QED BY <1>7, <2>1
<1> HIDE DEF u, t
<1>10. CASE Distribute(AssetId, c, e)
  <2>1. error = "ok"
    BY <1>10 DEF Distribute, error
  <2>2. /\ RunKey(r) \notin distributed /\ distributed' = distributed \cup {RunKey(r)}
        /\ assets' = assets /\ signed' = signed
        /\ assets[AssetId] # None
        /\ purse' = purse - Paid(assets[AssetId], pools[AssetId])
        /\ pools' = [pools EXCEPT ![AssetId] = @ - Paid(assets[AssetId], pools[AssetId])]
    BY <1>2, <1>3, <1>10, DistributeFacts DEF Distribute, RunKey
  <2>3. OnePool'
    BY <1>2, <1>3, <2>2 DEF OnePool, TypeOK
  <2>4. \A x \in Run : tx'[x].distribute = "ok" => x = r \/ tx[x].distribute = "ok"
    BY <1>9
  <2>5. \A x \in Run : tx[x].distribute = "ok" => tx'[x].distribute = "ok"
    BY <1>9, <2>1
  <2>6. \A x \in Run : run'[x] = run[x]
    BY <1>1
  <2>7. SettledByOneRun'
    <3>1. \A x \in Run : RunKey(x)' = RunKey(x)
      BY <2>6 DEF RunKey
    <3>2. \A k \in distributed' : \E x \in Run : tx'[x].distribute = "ok" /\ RunKey(x)' = k
      BY <1>2, <1>9, <2>1, <2>2, <2>5, <3>1 DEF SettledByOneRun
    <3>3. \A x \in Run : tx'[x].distribute = "ok" => RunKey(x)' \in distributed'
      BY <1>2, <2>2, <2>4, <3>1 DEF SettledByOneRun
    <3>4. \A x \in Run : tx[x].distribute = "ok" => run[x].cycle # run[r].cycle
      BY <1>2, <2>2 DEF SettledByOneRun, RunKey
    <3>5. \A x, y \in Run : tx'[x].distribute = "ok" /\ tx'[y].distribute = "ok"
                              /\ run'[x].cycle = run'[y].cycle => x = y
      BY <1>2, <2>4, <2>6, <3>4 DEF SettledByOneRun
    <3> QED BY <3>2, <3>3, <3>5 DEF SettledByOneRun
  <2>8. Accepted'
    BY <1>2, <1>9, <2>1, <2>2 DEF Accepted
  <2>9. VaultStep
    BY <1>3, <1>10 DEF VaultStep
  <2> QED BY <1>1, <1>9, <2>2, <2>3, <2>7, <2>8, <2>9
<1>11. CASE error # "ok" /\ UNCHANGED vars
  <2>1. UNCHANGED <<purse, pools, distributed, assets, signed>>
    BY <1>11 DEF vars, contractVars
  <2>2. OnePool'
    BY <1>2, <2>1 DEF OnePool
  <2>3. \A x \in Run : tx'[x].distribute = "ok" <=> tx[x].distribute = "ok"
    BY <1>1, <1>9, <1>11 DEF t
  <2>4. \A x \in Run : run'[x] = run[x]
    BY <1>1
  <2>5. SettledByOneRun'
    BY <1>2, <2>1, <2>3, <2>4 DEF SettledByOneRun, RunKey
  <2>6. Accepted'
    BY <1>2, <1>4, <1>9, <1>11, <2>1 DEF Accepted
  <2> QED BY <1>1, <1>9, <1>11, <2>1, <2>2, <2>5, <2>6
<1> QED BY <1>1, <1>10, <1>11

\* ExecuteRecordBrief and Expire: nothing is settled.
LEMMA OtherChainStep ==
  ASSUME NEW r \in Run, AgentInv, ExecuteRecordBrief(r) \/ Expire(r)
  PROVE  /\ [VaultStep]_vars
         /\ RunsOK' /\ \A x \in Run : StatusKept(x)
         /\ UNCHANGED <<signed, paidIn, purse, pools, distributed, assets>>
<1> DEFINE t == tx[r]
<1>1. RunsOK /\ RunOK(run[r], t) /\ t \in TxStates /\ tx = [tx EXCEPT ![r] = t]
  BY RunIsOK DEF AgentInv
<1>2. PICK u : /\ TxMoves(t, u) /\ tx' = [tx EXCEPT ![r] = u]
               /\ \/ u.distribute = t.distribute
                  \/ t.distribute = "pending" /\ u.distribute = "expired"
  <2>1. CASE ExecuteRecordBrief(r)
    <3> DEFINE error == BriefError(Agent, AssetId, run[r].cycle, t.text)
               u == [t EXCEPT !.brief = error]
    <3>1. tx' = [tx EXCEPT ![r] = u] /\ t.brief = "pending"
      BY <2>1 DEF ExecuteRecordBrief
    <3>2. error \in BriefReverts \cup {"ok"}
      BY DEF BriefError, BriefReverts
    <3> HIDE DEF error
    <3>3. u \in TxStates /\ u.distribute = t.distribute /\ u.text = t.text
      <4> HIDE DEF t
      <4> QED BY <1>1, <3>2 DEF TxStates
    <3> HIDE DEF u, t, TxStates
    <3>4. TxMoves(t, u)
      BY <3>1, <3>3 DEF TxMoves
    <3> QED BY <3>1, <3>3, <3>4
  <2>2. CASE Expire(r) /\ t.distribute = "pending" /\ tx' = [tx EXCEPT ![r].distribute = "expired"]
    <3> DEFINE u == [t EXCEPT !.distribute = "expired"]
    <3>1. tx' = [tx EXCEPT ![r] = u]
      BY <2>2
    <3>2. /\ u \in TxStates /\ u.distribute = "expired" /\ u.brief = t.brief /\ u.text = t.text
      <4> HIDE DEF t
      <4> QED BY <1>1 DEF TxStates
    <3> HIDE DEF u, t, TxStates
    <3>4. TxMoves(t, u)
      BY <2>2, <3>1, <3>2 DEF TxMoves
    <3> QED BY <2>2, <3>1, <3>2, <3>4
  <2>3. CASE Expire(r) /\ t.brief = "pending" /\ tx' = [tx EXCEPT ![r].brief = "expired"]
    <3> DEFINE u == [t EXCEPT !.brief = "expired"]
    <3>1. tx' = [tx EXCEPT ![r] = u]
      BY <2>3
    <3>2. /\ u \in TxStates /\ u.distribute = t.distribute /\ u.text = t.text
      <4> HIDE DEF t
      <4> QED BY <1>1 DEF TxStates
    <3> HIDE DEF u, t, TxStates
    <3>4. TxMoves(t, u)
      BY <2>3, <3>1, <3>2 DEF TxMoves
    <3> QED BY <2>3, <3>1, <3>2, <3>4
  <2> QED BY <2>1, <2>2, <2>3 DEF Expire
<1>3. UNCHANGED <<run, paidIn>>
  BY DEF ExecuteRecordBrief, Expire
<1>4. /\ RunsOK' /\ tx'[r] = u
      /\ \A x \in Run : x # r => tx'[x] = tx[x]
  <2> HIDE DEF TxStates
  <2> QED BY <1>1, <1>2, <1>3, ChainRuns
<1>5. \A x \in Run : StatusKept(x)
  <2>1. \A x \in Run : run'[x] = run[x]
    BY <1>3
  <2> QED BY <1>2, <1>4, <2>1 DEF StatusKept
<1>6. [VaultStep]_vars /\ UNCHANGED <<signed, purse, pools, distributed, assets>>
  <2>1. CASE UNCHANGED vars
    BY <2>1 DEF vars, contractVars
  <2>2. CASE t.brief = "pending" /\ RecordBrief(Agent, AssetId, run[r].cycle, t.text)
    <3>1. t.text \in Brief /\ run[r].cycle \in Cycle
      <4> DEFINE p == run[r]
      <4> HIDE DEF t, p
      <4>1. t.text \in Brief /\ p.cycle \in Cycle
        BY <1>1, <2>2 DEF RunOK, p
      <4> QED BY <4>1 DEF p
    <3>2. Agent \in Account /\ AssetId \in Asset
      BY AgentAssumption
    <3>3. VaultStep
      BY <2>2, <3>1, <3>2 DEF VaultStep
    <3> QED BY <2>2, <3>3 DEF RecordBrief
  <2>3. \/ UNCHANGED vars
        \/ t.brief = "pending" /\ RecordBrief(Agent, AssetId, run[r].cycle, t.text)
    BY DEF ExecuteRecordBrief, Expire
  <2> QED BY <2>1, <2>2, <2>3
<1> QED BY <1>3, <1>4, <1>5, <1>6

\* Operate: the asset is registered at most once, and funded afterwards.
LEMMA OperateStep ==
  ASSUME AgentInv, Operate
  PROVE  /\ [VaultStep]_vars
         /\ RunsOK' /\ OnePool' /\ SettledByOneRun' /\ Accepted'
         /\ UNCHANGED <<signed, paidIn>>
<1>1. RunsOK /\ SafetyInv /\ OnePool /\ SettledByOneRun /\ Accepted /\ TypeOK
  BY DEF AgentInv, SafetyInv, TypeInv
<1>2. UNCHANGED <<run, tx, paidIn>>
  BY DEF Operate, agentVars
<1>3. RunsOK'
  BY <1>1, <1>2 DEF RunsOK
<1>4. ASSUME distributed' = distributed
      PROVE  SettledByOneRun'
  BY <1>1, <1>2, <1>4 DEF SettledByOneRun, RunKey
<1>5. AssetId \in Asset
  BY AgentAssumption
<1>6. ASSUME NEW caller \in Account, NEW cfg \in Registration, RegisterAsset(caller, AssetId, cfg)
      PROVE  [VaultStep]_vars /\ OnePool' /\ SettledByOneRun' /\ Accepted' /\ signed' = signed
  <2>1. /\ assets[AssetId] = None
        /\ UNCHANGED <<pools, purse, distributed, signed>>
    BY <1>6 DEF RegisterAsset, RegisterError
  <2>2. OnePool'
    BY <1>1, <2>1 DEF OnePool
  <2>3. Accepted'
    <3>1. \A r \in Run : tx[r].distribute \notin {"none", "pending"} =>
            tx[r].distribute \in {"AssetNotFound", "expired"}
      BY <1>1, <2>1 DEF Accepted
    <3> QED BY <1>2, <3>1 DEF Accepted
  <2>4. VaultStep
    BY <1>5, <1>6 DEF VaultStep
  <2> QED BY <1>4, <2>1, <2>2, <2>3, <2>4
<1>7. ASSUME NEW attached \in Attached, Fund(AssetId, attached)
      PROVE  [VaultStep]_vars /\ OnePool' /\ SettledByOneRun' /\ Accepted' /\ signed' = signed
  <2>1. /\ pools' = [pools EXCEPT ![AssetId] = @ + attached]
        /\ purse' = purse + attached
        /\ UNCHANGED <<assets, distributed, signed>>
    BY <1>7 DEF Fund
  <2>2. OnePool'
    BY <1>1, <1>5, <2>1 DEF OnePool, TypeOK
  <2>3. Accepted'
    BY <1>1, <1>2, <2>1 DEF Accepted
  <2>4. VaultStep
    BY <1>5, <1>7 DEF VaultStep
  <2> QED BY <1>4, <2>1, <2>2, <2>3, <2>4
<1> QED BY <1>2, <1>3, <1>6, <1>7 DEF Operate

\* Steps of a run that make no transaction and no signature.
LEMMA RunStep ==
  ASSUME NEW r \in Run, RunsOK,
         \/ \E c \in Cycle : Guard(r, c) \/ GuardMasked(r, c) \/ GuardFault(r, c)
         \/ Decide(r) \/ Submit(r) \/ SubmitFault(r)
         \/ (\E b \in Brief : WriteBrief(r, b)) \/ RecordSubmit(r) \/ BriefFault(r)
  PROVE  /\ RunsOK' /\ \A x \in Run : StatusKept(x)
         /\ UNCHANGED <<vars, paidIn>>
<1>1. ASSUME NEW c \in Cycle, Guard(r, c) \/ GuardMasked(r, c) \/ GuardFault(r, c)
      PROVE  /\ RunsOK' /\ \A x \in Run : StatusKept(x)
             /\ UNCHANGED <<vars, paidIn>>
  <2>1. /\ run[r].pc = "idle" /\ UNCHANGED <<vars, tx, paidIn>>
        /\ \/ PassGuard(r, c)
           \/ \E o \in {"already_distributed", "threw"} :
                run' = [run EXCEPT ![r].cycle = c, ![r].pc = "done", ![r].outcome = o]
    BY <1>1 DEF Guard, GuardMasked, GuardFault
  <2>2. RunsOK' /\ \A x \in Run : x # r => run'[x] = run[x]
    BY <2>1, GuardRuns
  <2>3. tx[r].distribute = "none"
    <3>1. RunOK(run[r], tx[r])
      BY RunIsOK
    <3> DEFINE p == run[r]
               t == tx[r]
    <3>2. p.pc = "idle" /\ RunOK(p, t)
      BY <2>1, <3>1
    <3> HIDE DEF p, t
    <3>3. t.distribute = "none"
      BY <3>2 DEF RunOK
    <3> QED BY <3>3 DEF t
  <2>4. \A x \in Run : StatusKept(x)
    BY <2>1, <2>2, <2>3 DEF StatusKept
  <2> QED BY <2>1, <2>2, <2>4
<1>2. ASSUME \/ Decide(r) \/ Submit(r) \/ SubmitFault(r)
             \/ (\E b \in Brief : WriteBrief(r, b)) \/ RecordSubmit(r) \/ BriefFault(r)
      PROVE  /\ RunsOK' /\ \A x \in Run : StatusKept(x)
             /\ UNCHANGED <<vars, paidIn>>
  <2>1. UNCHANGED <<vars, paidIn>>
    BY <1>2 DEF Decide, Submit, SubmitFault, WriteBrief, RecordSubmit, BriefFault
  <2>2. RunsOK' /\ \A x \in Run : StatusKept(x)
    BY <1>2, DecideRuns, SubmitRuns, BriefRuns
  <2> QED BY <2>1, <2>2
<1> QED BY <1>1, <1>2

\* Query: verifiers sign, and nothing else on the chain changes.
LEMMA QueryStep ==
  ASSUME NEW r \in Run, AgentInv, Query(r)
  PROVE  /\ [VaultStep]_vars
         /\ RunsOK' /\ \A x \in Run : StatusKept(x)
         /\ HonestSigned'
         /\ UNCHANGED <<paidIn, purse, pools, distributed, assets>>
<1>1. /\ RunsOK'
      /\ run'[r].cycle = run[r].cycle
      /\ \A y \in Run : y # r => run'[y] = run[y]
      /\ UNCHANGED <<tx, paidIn>>
      /\ [\E s \in Signatures : Issue(s)]_vars
      /\ \A s \in signed' \ signed :
           s.signer \in Honest /\ s.message[3] => s.message[2] \in paidIn
  BY RequestSteps DEF AgentInv
<1>2. [VaultStep]_vars /\ UNCHANGED <<purse, pools, distributed, assets>>
  BY <1>1 DEF VaultStep, Issue, vars, contractVars
<1>3. HonestSigned'
  BY <1>1 DEF AgentInv, HonestSigned
<1>4. \A x \in Run : StatusKept(x)
  BY <1>1 DEF StatusKept
<1> QED BY <1>1, <1>2, <1>3, <1>4

\* Each step of the runs, of the chain and of the world.
LEMMA AgentStep ==
  ASSUME AgentInv, AgentNext
  PROVE  /\ [VaultStep]_vars
         /\ RunsOK' /\ HonestSigned' /\ OnePool' /\ SettledByOneRun' /\ Accepted'
<1>1. RunsOK /\ HonestSigned /\ OnePool /\ SettledByOneRun /\ Accepted
  BY DEF AgentInv
<1>2. ASSUME UNCHANGED <<signed, paidIn>>
      PROVE  HonestSigned'
  BY <1>1, <1>2 DEF HonestSigned
<1>3. ASSUME UNCHANGED <<purse, pools>>
      PROVE  OnePool'
  BY <1>1, <1>3 DEF OnePool
<1>4. ASSUME NEW r \in Run,
             \/ \E c \in Cycle : Guard(r, c) \/ GuardMasked(r, c) \/ GuardFault(r, c)
             \/ Decide(r) \/ Submit(r) \/ SubmitFault(r)
             \/ (\E b \in Brief : WriteBrief(r, b)) \/ RecordSubmit(r) \/ BriefFault(r)
      PROVE  /\ [VaultStep]_vars
             /\ RunsOK' /\ HonestSigned' /\ OnePool' /\ SettledByOneRun' /\ Accepted'
  <2>1. /\ RunsOK' /\ \A x \in Run : StatusKept(x)
        /\ UNCHANGED <<vars, paidIn>>
    BY <1>1, <1>4, RunStep
  <2>2. UNCHANGED <<signed, paidIn, purse, pools, distributed, assets>>
    BY <2>1 DEF vars, contractVars
  <2> QED BY <1>1, <1>2, <1>3, <2>1, <2>2, QuietStep
<1>5. ASSUME NEW r \in Run, Query(r)
      PROVE  /\ [VaultStep]_vars
             /\ RunsOK' /\ HonestSigned' /\ OnePool' /\ SettledByOneRun' /\ Accepted'
  BY <1>1, <1>3, <1>5, QueryStep, QuietStep
<1>6. ASSUME NEW r \in Run, Chain(r)
      PROVE  /\ [VaultStep]_vars
             /\ RunsOK' /\ HonestSigned' /\ OnePool' /\ SettledByOneRun' /\ Accepted'
  <2>1. CASE ExecuteDistribute(r)
    BY <1>2, <2>1, ExecuteDistributeStep
  <2>2. CASE ExecuteRecordBrief(r) \/ Expire(r)
    BY <1>1, <1>2, <1>3, <2>2, OtherChainStep, QuietStep
  <2> QED BY <1>6, <2>1, <2>2 DEF Chain
<1>7. ASSUME NEW c \in Cycle, CashArrives(c)
      PROVE  /\ [VaultStep]_vars
             /\ RunsOK' /\ HonestSigned' /\ OnePool' /\ SettledByOneRun' /\ Accepted'
  <2>1. paidIn' = paidIn \cup {c} /\ UNCHANGED <<vars, run, tx>>
    BY <1>7 DEF CashArrives
  <2>2. UNCHANGED <<signed, purse, pools, distributed, assets>>
    BY <2>1 DEF vars, contractVars
  <2>3. RunsOK'
    BY <1>1, <2>1 DEF RunsOK
  <2>4. HonestSigned'
    BY <1>1, <2>1, <2>2 DEF HonestSigned
  <2>5. \A x \in Run : StatusKept(x)
    BY <2>1 DEF StatusKept
  <2> QED BY <1>1, <1>3, <2>1, <2>2, <2>3, <2>4, <2>5, QuietStep
<1>8. CASE Operate
  BY <1>2, <1>8, OperateStep
<1> QED BY <1>4, <1>5, <1>6, <1>7, <1>8 DEF AgentNext, Continue

\* It holds before any run has started.
LEMMA InitAgentInv == AgentInit => AgentInv
<1> SUFFICES ASSUME AgentInit PROVE AgentInv
  OBVIOUS
<1>1. SafetyInv /\ distributed = {} /\ signed = {} /\ purse = 0 /\ pools[AssetId] = 0
  BY InitSafetyInv, AgentAssumption DEF AgentInit, Init
<1> DEFINE t == [distribute |-> "none", brief |-> "none", text |-> None]
<1>2. run = [r \in Run |-> NewRun] /\ tx = [r \in Run |-> t] /\ paidIn = {}
  BY DEF AgentInit
<1>3. NewRun \in RunStates /\ t \in TxStates
  BY DEF NewRun, Asking, RunStates, Pcs, Outcomes, QueryStates, Phases, TxStates
<1>4. RunOK(NewRun, t)
  <2>1. /\ NewRun.pc = "idle" /\ \A i \in EndpointIds : NewRun.query[i].phase = "asking"
        /\ t.distribute = "none" /\ t.brief = "none"
    BY DEF NewRun, Asking
  <2> HIDE DEF t, RunStates, TxStates
  <2> QED BY <1>3, <2>1 DEF RunOK
<1>5. RunsOK
  <2> HIDE DEF t, RunStates, TxStates
  <2> QED BY <1>2, <1>3, <1>4 DEF RunsOK
<1>6. HonestSigned /\ OnePool
  BY <1>1 DEF HonestSigned, OnePool
<1>7. \A r \in Run : tx[r].distribute = "none"
  BY <1>2
<1>8. SettledByOneRun /\ Accepted
  BY <1>1, <1>7 DEF SettledByOneRun, Accepted
<1> QED BY <1>1, <1>5, <1>6, <1>8 DEF AgentInv

\* A step of the agent's world is one of the vault's, so that all that is
\* proved of VaultStep holds here.
LEMMA AgentVaultStep == AgentInv /\ [AgentNext]_allVars => [VaultStep]_vars
BY AgentStep DEF allVars

\* And each step keeps it.
LEMMA NextAgentInv == AgentInv /\ [AgentNext]_allVars => AgentInv'
<1> SUFFICES ASSUME AgentInv, [AgentNext]_allVars PROVE AgentInv'
  OBVIOUS
<1>1. SafetyInv'
  BY AgentVaultStep, NextSafetyInv DEF AgentInv
<1>2. CASE AgentNext
  BY <1>1, <1>2, AgentStep DEF AgentInv
<1>3. CASE UNCHANGED allVars
  <2>1. UNCHANGED <<run, tx, paidIn, signed, purse, pools, distributed, assets>>
    BY <1>3 DEF allVars, agentVars, vars, contractVars
  <2>2. RunsOK' /\ HonestSigned' /\ OnePool'
    BY <2>1 DEF AgentInv, RunsOK, HonestSigned, OnePool
  <2>3. \A x \in Run : StatusKept(x)
    BY <2>1 DEF StatusKept
  <2> QED BY <1>1, <2>1, <2>2, <2>3, QuietStep DEF AgentInv
<1> QED BY <1>2, <1>3

\* So it holds throughout.
LEMMA AgentInvariant == AgentSpec => []AgentInv
BY InitAgentInv, NextAgentInv, PTL DEF AgentSpec

-----------------------------------------------------------------------------
(* What the agent's world keeps of the vault's promises: all of them. *)

\* Whatever runs, verifiers, faults and late transactions do, the contract
\* behaves as its own specification says: money moves on a quorum only, flag,
\* receipt and event agree, the dust is bounded, the registry's index and the
\* reputation are true to the receipts, and what is recorded is final.
THEOREM AgentKeepsVaultPromises ==
  AgentSpec => /\ [](TypeOK /\ RulesValid)
               /\ [](SettledByQuorum /\ RecordsAgree /\ DustBounded)
               /\ [](RegistryIndexed /\ ReputationMatchesReceipts /\ SnapshotIsTrackRecord)
               /\ RecordsAreFinal
<1>1. AgentSpec => []LedgerInv
  <2>1. AgentInit => LedgerInv
    BY InitLedgerInv DEF AgentInit
  <2>2. AgentInv /\ LedgerInv /\ [AgentNext]_allVars => LedgerInv'
    BY AgentVaultStep, NextLedgerInv
  <2> QED BY <2>1, <2>2, AgentInvariant, PTL DEF AgentSpec
<1>2. LedgerInv => /\ TypeOK /\ RulesValid
                   /\ SettledByQuorum /\ RecordsAgree /\ DustBounded
                   /\ RegistryIndexed /\ ReputationMatchesReceipts /\ SnapshotIsTrackRecord
  BY DEF LedgerInv, SafetyInv, TypeInv
<1>3. AgentSpec => [][Final]_vars
  <2>1. AgentInv /\ [AgentNext]_allVars => [Final]_vars
    BY AgentVaultStep, StepsAreFinal DEF AgentInv
  <2> QED BY <2>1, AgentInvariant, PTL DEF AgentSpec
<1>4. AgentSpec => RecordsAreFinal
  BY <1>3 DEF RecordsAreFinal, Final
<1> QED BY <1>1, <1>2, <1>4, PTL

-----------------------------------------------------------------------------
(* The agent's own promises. *)

\* For one asset, a key has one reading, whatever the ids contain.
LEMMA CycleOfKey ==
  ASSUME NEW a \in Asset, NEW c \in Cycle, NEW d \in Cycle, Key(a, c) = Key(a, d)
  PROVE  c = d
<1>1. a \in Seq(STRING) /\ c \in Seq(STRING) /\ d \in Seq(STRING) /\ ":" \in STRING
  BY IdAssumption
<1> DEFINE k == a \o <<":">> \o c
           l == a \o <<":">> \o d
<1>2. k = l
  BY DEF Key
<1>3. /\ Len(k) = Len(a) + 1 + Len(c)
      /\ \A i \in 1 .. Len(c) : k[Len(a) + 1 + i] = c[i]
  BY <1>1
<1>4. /\ Len(l) = Len(a) + 1 + Len(d)
      /\ \A i \in 1 .. Len(d) : l[Len(a) + 1 + i] = d[i]
  BY <1>1
<1> HIDE DEF k, l
<1>5. Len(a) \in Nat /\ Len(c) \in Nat /\ Len(d) \in Nat
  BY <1>1
<1>6. Len(c) = Len(d)
  BY <1>2, <1>3, <1>4, <1>5
<1>7. \A i \in 1 .. Len(c) : c[i] = d[i]
  BY <1>2, <1>3, <1>4, <1>6
<1> QED BY <1>1, <1>6, <1>7

\* OneRunSettles: however the runs race on a cycle, of all their distribute
\* transactions exactly one succeeds if the cycle is settled, else none.
THEOREM RunsSettleOnce == AgentSpec => []OneRunSettles
<1>1. ASSUME AgentInv, NEW c \in Cycle
      PROVE  Cardinality({r \in Started : run[r].cycle = c /\ tx[r].distribute = "ok"})
               = IF AlreadyDistributed(AssetId, c) THEN 1 ELSE 0
  <2> DEFINE S == {r \in Started : run[r].cycle = c /\ tx[r].distribute = "ok"}
  <2>1. /\ \A k \in distributed : \E r \in Run : tx[r].distribute = "ok" /\ RunKey(r) = k
        /\ \A r \in Run : tx[r].distribute = "ok" => RunKey(r) \in distributed
        /\ \A r, s \in Run : tx[r].distribute = "ok" /\ tx[s].distribute = "ok"
                               /\ run[r].cycle = run[s].cycle => r = s
    BY <1>1 DEF AgentInv, SettledByOneRun
  <2>2. \A r \in Run : tx[r].distribute = "ok" => run[r].cycle \in Cycle
    <3> TAKE r \in Run
    <3> DEFINE p == run[r]
               t == tx[r]
    <3>1. RunOK(p, t)
      BY <1>1, RunIsOK DEF AgentInv
    <3> HIDE DEF p, t
    <3>2. t.distribute = "ok" => p.cycle \in Cycle
      BY <3>1 DEF RunOK
    <3> QED BY <3>2 DEF p, t
  <2>3. \A r \in S : r \in Run /\ run[r].cycle = c /\ tx[r].distribute = "ok"
    BY DEF Started
  <2>4. CASE AlreadyDistributed(AssetId, c)
    <3>1. PICK r \in Run : tx[r].distribute = "ok" /\ RunKey(r) = Key(AssetId, c)
      BY <2>1, <2>4 DEF AlreadyDistributed
    <3>2. run[r].cycle = c
      BY <2>2, <3>1, CycleOfKey, AgentAssumption DEF RunKey
    <3>3. r \in S
      BY <3>1, <3>2, AgentAssumption DEF Started
    <3> HIDE DEF S
    <3>4. S = {r}
      BY <2>1, <2>3, <3>1, <3>2, <3>3
    <3>5. Cardinality(S) = 1
      BY <3>4, FS_Singleton
    <3> QED BY <2>4, <3>5 DEF S
  <2>5. CASE ~AlreadyDistributed(AssetId, c)
    <3>1. S = {}
      <4> SUFFICES ASSUME NEW r \in S PROVE FALSE
        OBVIOUS
      <4>1. r \in Run /\ run[r].cycle = c /\ tx[r].distribute = "ok"
        BY <2>3
      <4> QED BY <2>1, <2>5, <4>1 DEF AlreadyDistributed, RunKey
    <3> HIDE DEF S
    <3>2. Cardinality(S) = 0
      BY <3>1, FS_EmptySet
    <3> QED BY <2>5, <3>2 DEF S
  <2> QED BY <2>4, <2>5
<1>2. AgentInv => OneRunSettles
  BY <1>1 DEF OneRunSettles
<1> QED BY <1>2, AgentInvariant, PTL

\* FraudNeverPays: where the dishonest verifiers of an asset are fewer than its
\* quorum, no cycle is paid out whose cashflow has not come in.
THEOREM FraudIsNeverPaid == AgentSpec => []FraudNeverPays
<1>1. ASSUME AgentInv, NEW k \in Settled,
             Cardinality(Range(assets[receipts[k].asset].verifiers) \ Honest)
               < assets[receipts[k].asset].quorum
      PROVE  receipts[k].cycle \in paidIn
  <2> DEFINE r == receipts[k]
             cfg == assets[r.asset]
             V == Range(cfg.verifiers)
  <2>1. /\ cfg # None /\ r.signers \subseteq V /\ Cardinality(r.signers) >= cfg.quorum
        /\ \A v \in r.signers : \E d \in Detail :
             [signer |-> v, message |-> Message(r.asset, r.cycle, TRUE, d)] \in signed
    BY <1>1 DEF AgentInv, SafetyInv, SettledByQuorum
  <2>2. r \in Receipts /\ TypeOK
    BY <1>1 DEF AgentInv, SafetyInv, TypeInv, TypeOK, Settled
  <2>3. r.asset \in Asset
    <3> HIDE DEF r
    <3> QED BY <2>2 DEF Receipts
  <2>4. cfg \in Configs
    BY <2>1, <2>2, <2>3 DEF TypeOK
  <2>5. cfg.verifiers \in Seq(Verifier) /\ cfg.quorum \in Nat
    <3> HIDE DEF cfg
    <3> QED BY <2>4 DEF Configs
  <2>6. IsFiniteSet(V)
    <3> DEFINE s == cfg.verifiers
    <3>1. s \in Seq(Verifier)
      BY <2>5
    <3> HIDE DEF s
    <3>2. s \in Surjection(1 .. Len(s), Range(s)) /\ Len(s) \in Nat
      BY <3>1 DEF Surjection, Range
    <3>3. IsFiniteSet(1 .. Len(s))
      <4>1. 1 \in Int /\ Len(s) \in Int
        BY <3>2
      <4> QED BY <4>1, FS_Interval
    <3>4. IsFiniteSet(Range(s))
      BY <3>2, <3>3, FS_Surjection
    <3> QED BY <3>4 DEF s
  <2>7. PICK v \in r.signers : v \in Honest
    <3> SUFFICES ASSUME \A v \in r.signers : v \notin Honest PROVE FALSE
      OBVIOUS
    <3> DEFINE D == V \ Honest
               ss == r.signers
    <3>1. ss \in SUBSET D /\ IsFiniteSet(D)
      <4>1. D \in SUBSET V
        OBVIOUS
      <4>2. IsFiniteSet(D)
        <5> HIDE DEF D, V
        <5> QED BY <2>6, <4>1, FS_Subset
      <4> QED BY <2>1, <4>2
    <3>2. Cardinality(D) < cfg.quorum /\ Cardinality(ss) >= cfg.quorum
      BY <1>1, <2>1
    <3> HIDE DEF D, ss, cfg
    <3>3. Cardinality(ss) <= Cardinality(D) /\ Cardinality(ss) \in Nat /\ Cardinality(D) \in Nat
      BY <3>1, FS_Subset, FS_CardinalityType
    <3> QED BY <2>5, <3>2, <3>3
  <2>8. PICK d \in Detail :
          [signer |-> v, message |-> Message(r.asset, r.cycle, TRUE, d)] \in signed
    BY <2>1, <2>7
  <2> HIDE DEF r
  <2>9. \A s \in signed : s.signer \in Honest /\ s.message[3] => s.message[2] \in paidIn
    BY <1>1 DEF AgentInv, HonestSigned
  <2> DEFINE s == [signer |-> v, message |-> <<r.asset, r.cycle, TRUE, d>>]
  <2>10. s \in signed /\ s.signer = v /\ s.message[3] = TRUE /\ s.message[2] = r.cycle
    BY <2>8 DEF Message
  <2> HIDE DEF s
  <2>11. r.cycle \in paidIn
    BY <2>7, <2>9, <2>10
  <2> QED BY <2>11 DEF r
<1>2. AgentInv => FraudNeverPays
  BY <1>1 DEF FraudNeverPays
<1> QED BY <1>2, AgentInvariant, PTL

\* EvidenceIsAccepted: where the agent's endpoints and quorum are the registered
\* ones, no distribution it submits is reverted for its evidence.
THEOREM EvidenceAlwaysAccepted == AgentSpec => []EvidenceIsAccepted
<1>1. AgentInv => EvidenceIsAccepted
  BY DEF AgentInv, Accepted, EvidenceIsAccepted
<1> QED BY <1>1, AgentInvariant, PTL

\* A settled cycle stays settled.
LEMMA SettledStays ==
  ASSUME AgentInv, AgentInv', [AgentNext]_allVars, NEW c \in Cycle,
         AlreadyDistributed(AssetId, c)
  PROVE  AlreadyDistributed(AssetId, c)'
<1> DEFINE k == Key(AssetId, c)
<1>1. k \in Keys
  BY AgentAssumption DEF Keys
<1>2. [Final]_vars
  BY AgentVaultStep, StepsAreFinal DEF AgentInv
<1>3. receipts[k] # None
  BY DEF AlreadyDistributed, AgentInv, SafetyInv, RecordsAgree, Settled
<1> HIDE DEF k
<1>4. receipts'[k] # None
  BY <1>1, <1>2, <1>3 DEF Final, vars, contractVars
<1>5. k \in distributed'
  BY <1>1, <1>4 DEF AgentInv, SafetyInv, RecordsAgree, Settled
<1> QED BY <1>5 DEF AlreadyDistributed, k

\* Every step of a run but its guard and its requests ends its asking.
LEMMA OtherStepsEndAsking ==
  ASSUME RunsOK, NEW x \in Run,
         \/ Decide(x) \/ Submit(x) \/ SubmitFault(x)
         \/ (\E b \in Brief : WriteBrief(x, b)) \/ RecordSubmit(x) \/ BriefFault(x)
  PROVE  /\ run'[x].pc # "query"
         /\ \A y \in Run : y # x => run'[y] = run[y]
<1> DEFINE p == run[x]
           Ends(s) == run' = [run EXCEPT ![x] = s] /\ s.pc # "query"
<1>1. run \in [Run -> RunStates] /\ p \in RunStates
  BY RunIsOK DEF RunsOK
<1>2. \E s : Ends(s)
  <2>1. ASSUME Decide(x) PROVE \E s : Ends(s)
    <3>1. CASE Goto(x, "submit")
      <4>1. Ends([p EXCEPT !.pc = "submit"])
        BY <1>1, <3>1 DEF Goto, RunStates
      <4> QED BY <4>1
    <3>2. CASE Return(x, Decision(x))
      <4>1. Ends([p EXCEPT !.pc = "done", !.outcome = Decision(x)])
        BY <1>1, <3>2 DEF Return, RunStates
      <4> QED BY <4>1
    <3> QED BY <2>1, <3>1, <3>2 DEF Decide
  <2>2. ASSUME Submit(x) PROVE \E s : Ends(s)
    <3>1. Ends([p EXCEPT !.pc = "brief"])
      BY <1>1, <2>2 DEF Submit, Goto, RunStates
    <3> QED BY <3>1
  <2>3. ASSUME SubmitFault(x) PROVE \E s : Ends(s)
    <3>1. Ends([p EXCEPT !.pc = "done", !.outcome = "threw"])
      BY <1>1, <2>3 DEF SubmitFault, Return, RunStates
    <3> QED BY <3>1
  <2>4. ASSUME NEW b \in Brief, WriteBrief(x, b) PROVE \E s : Ends(s)
    <3>1. Ends([p EXCEPT !.pc = "record", !.brief = b])
      BY <1>1, <2>4 DEF WriteBrief, RunStates
    <3> QED BY <3>1
  <2>5. ASSUME RecordSubmit(x) PROVE \E s : Ends(s)
    <3>1. Ends([p EXCEPT !.pc = "done", !.outcome = "distributed"])
      BY <1>1, <2>5 DEF RecordSubmit, Return, RunStates
    <3> QED BY <3>1
  <2>6. ASSUME BriefFault(x) PROVE \E s : Ends(s)
    <3>1. Ends([p EXCEPT !.pc = "done", !.outcome = "distributed", !.brief = None])
      BY <1>1, <2>6 DEF BriefFault, RunStates
    <3> QED BY <3>1
  <2> QED BY <2>1, <2>2, <2>3, <2>4, <2>5, <2>6
<1>3. PICK s : Ends(s)
  BY <1>2
<1> HIDE DEF p, RunStates
<1> QED BY <1>1, <1>3

\* Unless faults are masked, a run that asks was asking, or its guard has found
\* its cycle unsettled.
LEMMA AskingIsGuarded ==
  ASSUME ~Masking, RunsOK, [AgentNext]_allVars, NEW r \in Run, run'[r].pc = "query"
  PROVE  \/ run[r].pc = "query" /\ run'[r].cycle = run[r].cycle
         \/ ~AlreadyDistributed(AssetId, run'[r].cycle)
<1> DEFINE Goal == \/ run[r].pc = "query" /\ run'[r].cycle = run[r].cycle
                   \/ ~AlreadyDistributed(AssetId, run'[r].cycle)
<1>1. run \in [Run -> RunStates]
  BY DEF RunsOK
<1>2. ASSUME UNCHANGED run PROVE Goal
  BY <1>2
<1>3. ASSUME NEW x \in Run, x # r, \A y \in Run : y # x => run'[y] = run[y] PROVE Goal
  BY <1>3
<1>4. ASSUME NEW x \in Run, NEW c \in Cycle,
             Guard(x, c) \/ GuardMasked(x, c) \/ GuardFault(x, c)
      PROVE  Goal
  <2>1. CASE Guard(x, c) /\ ~AlreadyDistributed(AssetId, c)
    <3>1. run'[x].cycle = c /\ \A y \in Run : y # x => run'[y] = run[y]
      BY <1>4, <2>1, GuardRuns DEF Guard
    <3> QED BY <1>3, <2>1, <3>1
  <2>2. CASE GuardFault(x, c) \/ (Guard(x, c) /\ AlreadyDistributed(AssetId, c))
    <3>1. \E o \in {"already_distributed", "threw"} :
            run' = [run EXCEPT ![x].cycle = c, ![x].pc = "done", ![x].outcome = o]
      BY <2>2 DEF Guard, GuardFault
    <3>2. \A y \in Run : y # x => run'[y] = run[y]
      BY <1>1, <3>1
    <3>3. run'[x].pc = "done"
      BY <1>1, <3>1 DEF RunStates
    <3> QED BY <1>3, <3>2, <3>3
  <2> QED BY <1>4, <2>1, <2>2 DEF GuardMasked
<1>5. ASSUME NEW x \in Run, Continue(x) PROVE Goal
  <2>1. CASE Query(x)
    BY <1>3, <2>1, RequestSteps
  <2>2. CASE ~Query(x)
    BY <1>3, <1>5, <2>2, OtherStepsEndAsking DEF Continue
  <2> QED BY <2>1, <2>2
<1>6. ASSUME NEW x \in Run, Chain(x) PROVE Goal
  BY <1>2, <1>6 DEF Chain, Expire, ExecuteDistribute, ExecuteRecordBrief
<1>7. ASSUME NEW c \in Cycle, CashArrives(c) PROVE Goal
  BY <1>2, <1>7 DEF CashArrives
<1>8. ASSUME Operate PROVE Goal
  BY <1>2, <1>8 DEF Operate, agentVars
<1>9. ASSUME UNCHANGED allVars PROVE Goal
  BY <1>2, <1>9 DEF allVars, agentVars
<1> HIDE DEF Goal
<1>10. ASSUME \E x \in Run, c \in Cycle : Guard(x, c) \/ GuardMasked(x, c) \/ GuardFault(x, c)
       PROVE  Goal
  BY <1>4, <1>10
<1>11. ASSUME \E x \in Run : Continue(x) \/ Chain(x)
       PROVE  Goal
  BY <1>5, <1>6, <1>11
<1>12. ASSUME \E c \in Cycle : CashArrives(c)
       PROVE  Goal
  BY <1>7, <1>12
<1>13. Goal
  BY <1>8, <1>9, <1>10, <1>11, <1>12 DEF AgentNext
<1> QED BY <1>13 DEF Goal

\* NoPaymentOnceSettled: as long as the node does not mask its faults, no run
\* begins to pay for a cycle that is settled (the guard of step 1).
THEOREM NoPaymentAfterSettlement ==
  ASSUME ~Masking
  PROVE  AgentSpec => NoPaymentOnceSettled
<1>1. ASSUME AgentInv, AgentInv', [AgentNext]_allVars, NEW c \in Cycle, Quiet(c)
      PROVE  Quiet(c)'
  <2>1. AlreadyDistributed(AssetId, c) /\ AlreadyDistributed(AssetId, c)'
    BY <1>1, SettledStays DEF Quiet
  <2>2. \A r \in Run : run[r].cycle = c => run[r].pc # "query"
    BY <1>1, AgentAssumption DEF Quiet, Started
  <2>3. ASSUME NEW r \in Run, run'[r].cycle = c
        PROVE  run'[r].pc # "query"
    BY <1>1, <2>1, <2>2, <2>3, AskingIsGuarded DEF AgentInv
  <2> QED BY <2>1, <2>3 DEF Quiet, Started
<1>2. AgentInv /\ AgentInv' /\ [AgentNext]_allVars =>
        [\A c \in Cycle : Quiet(c) => Quiet(c)']_allVars
  BY <1>1
<1> QED BY <1>2, AgentInvariant, PTL DEF AgentSpec, NoPaymentOnceSettled
=============================================================================
