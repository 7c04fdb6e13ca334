----------------------------- MODULE Canonical -----------------------------
(***************************************************************************)
(* The bytes that verifiers sign: canonicalBytes of packages/core/src/     *)
(* sign.ts and canonical_bytes of contracts/src/servicer_vault.rs.         *)
(* Strings are their UTF-8 bytes.                                          *)
(***************************************************************************)
EXTENDS Integers, Sequences, FiniteSets

CONSTANTS
  Field,       \* BOUND: the byte strings that occur as fields
  MaxSigned    \* BOUND: verdicts that are signed

Octet == 0 .. 255
Short(s) == Len(s) < 65536

ASSUME FieldAssumption ==
  /\ \A s \in Field : s \in Seq(Octet) /\ Short(s)
  /\ MaxSigned \in Nat

VARIABLE signed    \* the verdicts somebody has signed

Verdict == [assetId : Field, cycleId : Field, verdict : BOOLEAN,
            observedAmount : Field, source : Field]

\* Mutant of Prefixed: fields are simply joined.
Unprefixed(s) == s

\* pushStr, push_str: the length as a big-endian u16, which wraps.
High(n) == (n \div 256) % 256
Low(n) == n % 256
Prefixed(s) == <<High(Len(s)), Low(Len(s))>> \o s

CanonicalBytes(v) ==
  Prefixed(v.assetId) \o
    (Prefixed(v.cycleId) \o
       (<<IF v.verdict THEN 1 ELSE 0>> \o
          (Prefixed(v.observedAmount) \o Prefixed(v.source))))

CanonicalInit == signed = {}

SignVerdict(v) ==
  /\ Cardinality(signed) < MaxSigned
  /\ signed' = signed \cup {v}

CanonicalNext == \E v \in Verdict : SignVerdict(v)
CanonicalSpec == CanonicalInit /\ [][CanonicalNext]_signed

\* A signature attests one verdict: what a verifier signed for one asset,
\* cycle, decision, amount and source is never the message of another.
OneVerdictPerMessage ==
  \A v, w \in signed : CanonicalBytes(v) = CanonicalBytes(w) => v = w
=============================================================================
