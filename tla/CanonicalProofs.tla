-------------------------- MODULE CanonicalProofs --------------------------
(***************************************************************************)
(* The canonical bytes determine the verdict, for fields of any content    *)
(* whose length the u16 prefix can hold.                                   *)
(***************************************************************************)
EXTENDS Canonical, SequenceTheorems, TLAPS

\* The two digits of a length, and what they determine.
LEMMA Digits ==
  ASSUME NEW n \in Nat
  PROVE  High(n) \in Octet /\ Low(n) \in Octet
<1>1. (n \div 256) % 256 \in 0 .. 255
  BY SMT
<1>2. n % 256 \in 0 .. 255
  BY SMT
<1> QED BY <1>1, <1>2 DEF High, Low, Octet

\* A length below 2^16 is determined by its two octets.
LEMMA DigitsDetermine ==
  ASSUME NEW n \in Nat, NEW m \in Nat, n < 65536, m < 65536,
         High(n) = High(m), Low(n) = Low(m)
  PROVE  n = m
<1>1. (n \div 256) % 256 = (m \div 256) % 256 /\ n % 256 = m % 256
  BY DEF High, Low
<1> QED BY <1>1, SMT

\* A length-prefixed field: its length in two octets, then its octets.
LEMMA PrefixedSeq ==
  ASSUME NEW s \in Seq(Octet)
  PROVE  /\ Prefixed(s) \in Seq(Octet)
         /\ Len(Prefixed(s)) = Len(s) + 2
         /\ Prefixed(s)[1] = High(Len(s))
         /\ Prefixed(s)[2] = Low(Len(s))
<1> DEFINE p == <<High(Len(s)), Low(Len(s))>>
<1>1. Len(s) \in Nat
  BY LenProperties
<1>2. High(Len(s)) \in Octet /\ Low(Len(s)) \in Octet
  BY <1>1, Digits
<1>3. p \in Seq(Octet) /\ Len(p) = 2
  BY <1>2
<1>4. p[1] = High(Len(s)) /\ p[2] = Low(Len(s))
  OBVIOUS
<1>5. Prefixed(s) = p \o s
  BY DEF Prefixed
<1> HIDE DEF p
<1>6. /\ p \o s \in Seq(Octet) /\ Len(p \o s) = Len(p) + Len(s)
      /\ \A i \in 1 .. Len(p) + Len(s) :
           (p \o s)[i] = IF i <= Len(p) THEN p[i] ELSE s[i - Len(p)]
  BY <1>3, ConcatProperties
<1>7. (p \o s)[1] = p[1] /\ (p \o s)[2] = p[2]
  BY <1>1, <1>3, <1>6
<1> QED BY <1>1, <1>3, <1>4, <1>5, <1>6, <1>7

\* Strings of one length at the front of two equal sequences are equal, and so
\* is what follows them.
LEMMA SplitAtLength ==
  ASSUME NEW S, NEW s \in Seq(S), NEW t \in Seq(S), NEW u \in Seq(S), NEW v \in Seq(S),
         Len(s) = Len(t), s \o u = t \o v
  PROVE  s = t /\ u = v
<1>1. \A i \in 1 .. Len(s) : (s \o u)[i] = s[i] /\ (t \o v)[i] = t[i]
  BY ConcatProperties, LenProperties
<1>2. s = t
  BY <1>1, SeqEqual
<1>3. u = v
  BY <1>2, ConcatSimplifications
<1> QED BY <1>2, <1>3

\* A prefixed string that is short enough can be told from what follows it.
LEMMA PrefixedSplit ==
  ASSUME NEW s \in Seq(Octet), NEW t \in Seq(Octet), Short(s), Short(t),
         NEW u \in Seq(Octet), NEW v \in Seq(Octet),
         Prefixed(s) \o u = Prefixed(t) \o v
  PROVE  s = t /\ u = v
<1>1. \A x, y \in Seq(Octet) :
        (Prefixed(x) \o y)[1] = Prefixed(x)[1] /\ (Prefixed(x) \o y)[2] = Prefixed(x)[2]
  <2> SUFFICES ASSUME NEW x \in Seq(Octet), NEW y \in Seq(Octet)
               PROVE  /\ (Prefixed(x) \o y)[1] = Prefixed(x)[1]
                      /\ (Prefixed(x) \o y)[2] = Prefixed(x)[2]
    OBVIOUS
  <2>1. Prefixed(x) \in Seq(Octet) /\ Len(Prefixed(x)) = Len(x) + 2
    BY PrefixedSeq
  <2>2. Len(x) \in Nat /\ Len(y) \in Nat
    BY LenProperties
  <2> QED BY <2>1, <2>2, ConcatProperties
<1>2. Len(s) \in Nat /\ Len(t) \in Nat /\ Len(s) < 65536 /\ Len(t) < 65536
  BY LenProperties DEF Short
<1>3. Prefixed(s)[1] = Prefixed(t)[1] /\ Prefixed(s)[2] = Prefixed(t)[2]
  <2>1. (Prefixed(s) \o u)[1] = Prefixed(s)[1] /\ (Prefixed(s) \o u)[2] = Prefixed(s)[2]
    BY <1>1
  <2>2. (Prefixed(t) \o v)[1] = Prefixed(t)[1] /\ (Prefixed(t) \o v)[2] = Prefixed(t)[2]
    BY <1>1
  <2> QED BY <2>1, <2>2
<1>4. High(Len(s)) = High(Len(t)) /\ Low(Len(s)) = Low(Len(t))
  BY <1>3, PrefixedSeq
<1>5. Len(s) = Len(t)
  BY <1>2, <1>4, DigitsDetermine
<1>6. Prefixed(s) = Prefixed(t) /\ u = v
  <2>1. /\ Prefixed(s) \in Seq(Octet) /\ Prefixed(t) \in Seq(Octet)
        /\ Len(Prefixed(s)) = Len(s) + 2 /\ Len(Prefixed(t)) = Len(t) + 2
    BY PrefixedSeq
  <2>2. Len(Prefixed(s)) = Len(Prefixed(t))
    BY <1>5, <2>1
  <2> QED BY <2>1, <2>2, SplitAtLength
<1>7. s = t
  <2> DEFINE p == <<High(Len(s)), Low(Len(s))>>
  <2>1. Prefixed(s) = p \o s /\ Prefixed(t) = p \o t
    BY <1>5 DEF Prefixed
  <2>2. p \in Seq(Octet)
    BY <1>2, Digits
  <2> HIDE DEF p
  <2> QED BY <1>6, <2>1, <2>2, ConcatSimplifications
<1> QED BY <1>6, <1>7

\* Equal bytes have equal fields.
LEMMA CanonicalInjective ==
  ASSUME NEW v \in Verdict, NEW w \in Verdict, CanonicalBytes(v) = CanonicalBytes(w)
  PROVE  v = w
<1> DEFINE bit(x) == <<IF x.verdict THEN 1 ELSE 0>>
           source(x) == Prefixed(x.source)
           amount(x) == Prefixed(x.observedAmount) \o source(x)
           decision(x) == bit(x) \o amount(x)
           rest(x) == Prefixed(x.cycleId) \o decision(x)
<1>1. \A x \in Verdict :
        /\ \A s \in {x.assetId, x.cycleId, x.observedAmount, x.source} :
             s \in Seq(Octet) /\ Short(s) /\ Prefixed(s) \in Seq(Octet)
        /\ x.verdict \in BOOLEAN
  BY FieldAssumption, PrefixedSeq DEF Verdict
<1>2. \A x \in Verdict : bit(x) \in Seq(Octet) /\ Len(bit(x)) = 1
  BY DEF Octet
<1>3. \A x \in Verdict : source(x) \in Seq(Octet)
  BY <1>1
<1> HIDE DEF source
<1>4. \A x \in Verdict : amount(x) \in Seq(Octet)
  BY <1>1, <1>3, ConcatProperties
<1> HIDE DEF amount, bit
<1>5. \A x \in Verdict : decision(x) \in Seq(Octet)
  BY <1>2, <1>4, ConcatProperties
<1> HIDE DEF decision
<1>6. \A x \in Verdict : rest(x) \in Seq(Octet)
  BY <1>1, <1>5, ConcatProperties
<1>7. Prefixed(v.assetId) \o rest(v) = Prefixed(w.assetId) \o rest(w)
  BY DEF CanonicalBytes, rest, decision, bit, amount, source
<1> HIDE DEF rest
<1>8. v.assetId = w.assetId /\ rest(v) = rest(w)
  BY <1>1, <1>6, <1>7, PrefixedSplit
<1>9. v.cycleId = w.cycleId /\ decision(v) = decision(w)
  <2>1. Prefixed(v.cycleId) \o decision(v) = Prefixed(w.cycleId) \o decision(w)
    BY <1>8 DEF rest
  <2> QED BY <1>1, <1>5, <2>1, PrefixedSplit
<1>10. bit(v) = bit(w) /\ amount(v) = amount(w)
  BY <1>2, <1>4, <1>9, SplitAtLength DEF decision
<1>11. v.observedAmount = w.observedAmount /\ source(v) = source(w)
  <2>1. Prefixed(v.observedAmount) \o source(v) = Prefixed(w.observedAmount) \o source(w)
    BY <1>10 DEF amount
  <2>2. \A x \in Verdict : x.observedAmount \in Seq(Octet) /\ Short(x.observedAmount)
    BY <1>1
  <2> QED BY <1>3, <2>1, <2>2, PrefixedSplit
<1>12. v.verdict = w.verdict
  <2>1. bit(v)[1] = bit(w)[1]
    BY <1>10
  <2> QED BY <1>1, <2>1 DEF bit
<1>13. v.source = w.source
  <2>1. Prefixed(v.source) \o <<>> = Prefixed(w.source) \o <<>>
    BY <1>11 DEF source
  <2> QED BY <1>1, <2>1, PrefixedSplit, EmptySeq
<1> QED BY <1>8, <1>9, <1>11, <1>12, <1>13 DEF Verdict

\* A signature over the canonical bytes attests one verdict, whatever the
\* fields contain, as long as none of them is longer than the u16 prefix holds.
THEOREM SignatureAttestsOneVerdict == CanonicalSpec => []OneVerdictPerMessage
<1> DEFINE Inv == signed \subseteq Verdict
<1>1. CanonicalInit => Inv
  BY DEF CanonicalInit
<1>2. Inv /\ [CanonicalNext]_signed => Inv'
  BY DEF CanonicalNext, SignVerdict
<1>3. Inv => OneVerdictPerMessage
  BY CanonicalInjective DEF OneVerdictPerMessage
<1> QED BY <1>1, <1>2, <1>3, PTL DEF CanonicalSpec
=============================================================================
