------------------------------ MODULE Precheck ------------------------------
(***************************************************************************)
(* The agent's own count of the verdicts, packages/core/src/quorum.ts, the *)
(* arrays it makes of them, and what casper-js-chain-client.ts encodes.    *)
(* A signer is a hex string, of which one key may have several; a text     *)
(* that a verifier sends for a key or a signature may also be none.        *)
(***************************************************************************)
EXTENDS Verdicts

CONSTANTS
  KeyOf,        \* text of a signer -> the key its first digits spell, or NotAKey
  NotAKey,
  OddText       \* texts that are not the digits of a key or a signature, each
                \* with what it is (OddForms); the other texts are

\* A text is hex digits, then other characters.  A signature's text that begins
\* with the digits of a signature spells that one.
OddForms == [digits : Nat, rest : Nat, spells : Signatures \cup {Forged}]

ASSUME KeyAssumption ==
  /\ NotAKey \notin Verifier
  /\ \A text \in DOMAIN KeyOf : KeyOf[text] \in Verifier \cup {NotAKey}
  /\ \A text \in DOMAIN KeyOf \ DOMAIN OddText : KeyOf[text] \in Verifier
  /\ \A text \in DOMAIN OddText :
       /\ OddText[text] \in OddForms
       /\ OddText[text].rest = 0 => OddText[text].digits \notin {64, 128}
       /\ text \notin Verifier /\ text \notin Signatures /\ text # Forged

Form(text, digits) ==
  IF text \in DOMAIN OddText
  THEN [digits |-> OddText[text].digits, rest |-> OddText[text].rest]
  ELSE [digits |-> digits, rest |-> 0]
SignatureOf(text) == IF text \in DOMAIN OddText THEN OddText[text].spells ELSE text

NoBytes == -1

\* Mutant of HexToBytes: decoding stops where the pairs of digits end, as that
\* of Node's Buffer does.
BytesOfPairs(form) == form.digits \div 2

\* hexToBytes: how many bytes it returns, or NoBytes where it throws.
HexToBytes(form) ==
  IF form.rest = 0 /\ form.digits % 2 = 0 THEN form.digits \div 2 ELSE NoBytes

\* sign.ts, verifyVerdict: both texts are decoded, whatever their lengths, and
\* the library verifies 64 bytes under 32 over the verdict they came with;
\* whatever throws is caught.
VerifyVerdict(sv) ==
  /\ HexToBytes(Form(sv.signature, 128)) = 64
  /\ HexToBytes(Form(sv.signer, 64)) = 32
  /\ VerifySignature(sv.verdict, SignatureOf(sv.signature), KeyOf[sv.signer])

SaysYes(sv) == sv.verdict[3]

\* Mutant of CountVerdict: a signer is remembered before its signature is
\* verified.
CountUnverified(acc, sv) ==
  IF sv.signer \in acc.seen THEN acc
  ELSE [seen |-> acc.seen \cup {sv.signer},
        yes  |-> IF VerifyVerdict(sv) /\ SaysYes(sv)
                 THEN Append(acc.yes, sv.signer) ELSE acc.yes]

\* The body of reachQuorum's loop.
CountVerdict(acc, sv) ==
  IF ~VerifyVerdict(sv) \/ sv.signer \in acc.seen THEN acc
  ELSE [seen |-> acc.seen \cup {sv.signer},
        yes  |-> IF SaysYes(sv) THEN Append(acc.yes, sv.signer) ELSE acc.yes]

\* The loop's state after the first n verdicts.
Counted(svs) ==
  LET acc[n \in 0 .. Len(svs)] ==
        IF n = 0 THEN [seen |-> {}, yes |-> <<>>]
        ELSE CountVerdict(acc[n - 1], svs[n])
  IN  acc

YesSigners(svs) == Counted(svs)[Len(svs)].yes

ReachQuorum(svs, required) == Len(YesSigners(svs)) >= required

\* Mutant of EvidenceOf: only the "yes" verdicts are forwarded.
EvidenceOfYes(svs) ==
  LET yes == SelectSeq(svs, SaysYes)
  IN  [signers    |-> [i \in DOMAIN yes |-> yes[i].signer],
       verdicts   |-> [i \in DOMAIN yes |-> TRUE],
       signatures |-> [i \in DOMAIN yes |-> yes[i].signature],
       details    |-> [i \in DOMAIN yes |-> yes[i].verdict[4]]]

\* The arguments of distribute, as runCycle makes them of its verdicts.
EvidenceOf(svs) ==
  [signers    |-> [i \in DOMAIN svs |-> svs[i].signer],
   verdicts   |-> [i \in DOMAIN svs |-> SaysYes(svs[i])],
   signatures |-> [i \in DOMAIN svs |-> svs[i].signature],
   details    |-> [i \in DOMAIN svs |-> svs[i].verdict[4]]]

-----------------------------------------------------------------------------
(* buildEntrypointArgs: the texts are matched against /^[0-9a-fA-F]{64}$/  *)
(* and {128}, or the call throws before anything is submitted.             *)

\* publicKeyHexToPublicKey, sigHexToTaggedBytes.
IsKeyHex(text) == Form(text, 64) = [digits |-> 64, rest |-> 0]
IsSignatureHex(text) == Form(text, 128) = [digits |-> 128, rest |-> 0]

Encodable(args) ==
  /\ \A i \in DOMAIN args.signers : IsKeyHex(args.signers[i])
  /\ \A i \in DOMAIN args.signatures : IsSignatureHex(args.signatures[i])

DistributeArgs(args) ==
  [args EXCEPT !.signers = [i \in DOMAIN args.signers |-> KeyOf[args.signers[i]]]]
=============================================================================
