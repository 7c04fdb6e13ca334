------------------------------ MODULE MCQuorum ------------------------------
(***************************************************************************)
(* Sequences of up to four verdicts of two registered verifiers and one    *)
(* that is not: both verdicts on a cycle, under either spelling of a key,  *)
(* a verdict on another cycle, verdicts whose signature is another's or no *)
(* signature, and texts that are not the digits of a key or a signature.   *)
(*                                                                         *)
(* Beside them, up to two verdicts that are signed (Canonical), over       *)
(* strings that look like length prefixes.  Nothing is shared: a behaviour *)
(* goes one way or the other.                                              *)
(***************************************************************************)
EXTENDS VerdictQuorum, Canonical

CONSTANTS v1, v2, v3, plain, upper1, prefix2, tail2, signatureTail, signatureNibble

A == <<"a">>
C1 == <<"c1">>
C2 == <<"c2">>
MCAsset == {A}
MCCycle == {C1, C2}
MCVerifier == {v1, v2, v3}
MCDetail == {plain}
MCRules == [verifiers |-> <<v1, v2>>, quorum |-> 2]
MCField == {<<>>, <<0>>, <<1>>, <<0, 1>>}

SignedBy(v, c, yes) ==
  [verdict |-> <<A, c, yes, plain>>, signer |-> v,
   signature |-> [signer |-> v, message |-> <<A, c, yes, plain>>]]
YesOf2 == SignedBy(v2, C1, TRUE)

\* v1 .. v3 are the keys in lower case as well.  0x before the digits; a key, a
\* signature and something after them; a signature and half a byte.
MCOddText ==
  [text \in {prefix2, tail2, signatureTail, signatureNibble} |->
     [digits |-> CASE text = prefix2 -> 1 [] text = tail2 -> 64
                   [] text = signatureTail -> 128 [] OTHER -> 129,
      rest   |-> CASE text = prefix2 -> 65 [] text = signatureNibble -> 0 [] OTHER -> 1,
      spells |-> IF text \in {prefix2, tail2} THEN Forged ELSE YesOf2.signature]]
MCKeyOf ==
  [text \in MCVerifier \cup {upper1, prefix2, tail2} |->
     CASE text = upper1 -> v1 [] text = tail2 -> v2 [] text = prefix2 -> NotAKey
       [] OTHER -> text]

MCSignedVerdict ==
  {SignedBy(v, C1, yes) : v \in {v1, v2}, yes \in BOOLEAN}
    \cup {[SignedBy(v1, C1, yes) EXCEPT !.signer = upper1] : yes \in BOOLEAN}
    \cup {SignedBy(v3, C1, TRUE), SignedBy(v2, C2, TRUE)}
    \cup {[SignedBy(v1, C1, TRUE) EXCEPT !.signature = Forged],
          [YesOf2 EXCEPT !.signature.signer = v1]}
    \cup {[YesOf2 EXCEPT !.signature = text] : text \in {signatureTail, signatureNibble}}
    \cup {[YesOf2 EXCEPT !.signer = text] : text \in {prefix2, tail2}}

MCInit == QuorumInit /\ CanonicalInit
MCNext ==
  \/ signed = {} /\ QuorumNext /\ UNCHANGED signed
  \/ verdicts = <<>> /\ CanonicalNext /\ UNCHANGED verdicts
MCSpec == MCInit /\ [][MCNext]_<<verdicts, signed>>
=============================================================================
