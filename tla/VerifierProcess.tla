-------------------------- MODULE VerifierProcess ---------------------------
(***************************************************************************)
(* The process of a verifier: verifiers/src/serve.ts, which takes its      *)
(* configuration from the environment and a file, and then the verdicts it *)
(* gives out of a file (cashflow-source.ts) or of Stripe, behind the gate. *)
(* Amounts are JSON values, and the file is what somebody has written.     *)
(* Requests are paid for as the gate's own settings ask.                   *)
(***************************************************************************)
EXTENDS Integers, Sequences, FiniteSets

CONSTANTS
  Asset, Cycle,   \* ids, as sequences of characters
  Environment,    \* environments the process may be started in
  File,           \* what the file of the source may hold
  Answer,         \* what Stripe may confirm: [reference, amount], or Nothing
  MaxAnswers,     \* BOUND: different answers the process gives
  NoValue,        \* what BigInt throws for
  Nothing

\* A JSON value as an amount: its type, whether it is written in digits only,
\* and the integer that BigInt makes of it (0 of a blank text).
Amounts == {x \in [type : {"string", "number", "undefined"}, digits : BOOLEAN,
                    value : Int \cup {NoValue}] : x.digits => x.value # NoValue}

References == {"expected", "another"}

\* A record of either file.  `of` is the cycle it has been written for: a
\* fixture's record names it, an index entry only stands under its key.
Records == [of : Asset \X Cycle, intent : {"valid", "invalid"},
            reference : References, expected : Amounts, observed : Amounts]
NoTable == <<>>

\* A variable is not set or blank, set to what is wanted, or to another text.
Settings == {"unset", "blank", "valid", "invalid"}
Variables ==
  {"VERIFIER_LABEL", "VERIFIER_PORT", "VERIFIER_SOURCE", "VERIFIER_EVIDENCE_PATH",
   "STRIPE_API_KEY", "STRIPE_PAYMENT_INDEX_PATH", "VERIFIER_SIGNING_KEY_HEX",
   "VERIFIER_MAX_TIMEOUT_SECONDS", "X402_FACILITATOR_URL", "CSPR_CLOUD_TOKEN",
   "CASPER_NETWORK", "WCSPR_PACKAGE_HASH", "VERIFIER_PAYTO", "VERIFIER_PRICE_MOTES",
   "WCSPR_TOKEN_NAME", "WCSPR_TOKEN_VERSION", "VERIFIER_EXPECTED_REFERENCE"}

\* The source is named in VERIFIER_SOURCE; unset stands for "file".
ASSUME ProcessAssumption ==
  /\ Asset \subseteq Seq(STRING) /\ Cycle \subseteq Seq(STRING)
  /\ \A env \in Environment :
       /\ DOMAIN env = Variables
       /\ env["VERIFIER_SOURCE"] \in {"unset", "file", "stripe", "another"}
       /\ \A name \in Variables \ {"VERIFIER_SOURCE"} : env[name] \in Settings
  /\ \A f \in File :
       /\ f.kind \in {"unreadable", "notJson", "notObject", "table"}
       /\ \A k \in DOMAIN f.table : f.table[k] \in Records \cup {Nothing}
  /\ Answer \subseteq {Nothing} \cup [reference : References, amount : Int \cup {NoValue}]
  /\ Nothing \notin Records

VARIABLES
  env,       \* the environment
  disk,      \* the file of the source
  proc,      \* the process: its state and the table it has loaded
  answers    \* what it has answered: with the evidence

procVars == <<env, disk, proc, answers>>

\* Mutant of Key: its parts are not separated.
KeyUnseparated(a, c) == a \o c

Key(a, c) == a \o <<":">> \o c

-----------------------------------------------------------------------------
(* requireEnv, requirePort, optionalPositiveInt. *)

Missing(e, name) == e[name] \in {"unset", "blank"}
BadPort(e) == Missing(e, "VERIFIER_PORT") \/ e["VERIFIER_PORT"] = "invalid"
BadTimeout(e) == e["VERIFIER_MAX_TIMEOUT_SECONDS"] = "invalid"

-----------------------------------------------------------------------------
(* The files. *)

\* Mutant of ValidEntry: any text is taken for an expected amount.
ValidEntryAnyText(entry) ==
  entry # Nothing /\ entry.intent = "valid" /\ entry.expected.type = "string"

\* loadStripePaymentIndex: an object, a non-blank intent id, digits only.
ValidEntry(entry) ==
  /\ entry # Nothing
  /\ entry.intent = "valid"
  /\ entry.expected.type = "string" /\ entry.expected.digits

LoadsIndex(f) == f.kind = "table" /\ \A k \in DOMAIN f.table : ValidEntry(f.table[k])

\* loadFixture looks at the outermost value only.
LoadsFixture(f) == f.kind = "table"

\* buildSource.
SourceKind(e) == IF e["VERIFIER_SOURCE"] = "unset" THEN "file" ELSE e["VERIFIER_SOURCE"]
SourceFails(e, f) ==
  CASE SourceKind(e) = "file" ->
         Missing(e, "VERIFIER_EVIDENCE_PATH") \/ ~LoadsFixture(f)
    [] SourceKind(e) = "stripe" ->
         \/ Missing(e, "STRIPE_API_KEY") \/ Missing(e, "STRIPE_PAYMENT_INDEX_PATH")
         \/ ~LoadsIndex(f)
    [] OTHER -> TRUE

\* main: whether something throws before listen is called.
Required ==
  {"VERIFIER_LABEL", "VERIFIER_SIGNING_KEY_HEX", "X402_FACILITATOR_URL",
   "CSPR_CLOUD_TOKEN", "CASPER_NETWORK", "WCSPR_PACKAGE_HASH", "VERIFIER_PAYTO",
   "VERIFIER_PRICE_MOTES", "VERIFIER_EXPECTED_REFERENCE"}
MainThrows(e, f) ==
  \/ \E name \in Required : Missing(e, name)
  \/ BadPort(e) \/ BadTimeout(e)
  \/ SourceFails(e, f)

Exit == [pc |-> "exited", table |-> NoTable]

Boot ==
  /\ proc.pc = "off"
  /\ proc' = IF MainThrows(env, disk) THEN Exit
             ELSE [pc |-> "binding", table |-> disk.table]
  /\ UNCHANGED <<env, disk, answers>>

\* listen succeeds, or fails when main has long returned.
Bound ==
  /\ proc.pc = "binding"
  /\ proc' = [proc EXCEPT !.pc = "listening"]
  /\ UNCHANGED <<env, disk, answers>>
BindFails == proc.pc = "binding" /\ proc' = Exit /\ UNCHANGED <<env, disk, answers>>

-----------------------------------------------------------------------------
(* A paid request for a verdict: the gate, source, decide, signature, what   *)
(* the client makes of the body.                                             *)

\* What the gate is built of.  Boot has at most asked whether it is there.
GateSettings ==
  {"X402_FACILITATOR_URL", "CSPR_CLOUD_TOKEN", "CASPER_NETWORK", "WCSPR_PACKAGE_HASH",
   "VERIFIER_PAYTO", "VERIFIER_PRICE_MOTES", "WCSPR_TOKEN_NAME", "WCSPR_TOKEN_VERSION"}

\* One wrong setting, and the gate passes nobody: it does not initialize, it
\* throws, or the facilitator turns down the payment or its settlement.
GateFails == \E name \in GateSettings : env[name] = "invalid"
GateAnswers == IF GateFails THEN {402, 500} ELSE {200}

Table == proc.table
Entry(a, c) == IF Key(a, c) \in DOMAIN Table THEN Table[Key(a, c)] ELSE Nothing

\* The fixture's record as it stands.
FileEvidence(a, c) == Entry(a, c)

\* The intent's amount is written as a numeral, if it is an integer that is.
\* Stripe tells nothing to whom it does not know.
StripeAmount(n) == [type |-> "string", digits |-> n # NoValue, value |-> n]
StripeEvidence(a, c, answer) ==
  IF Entry(a, c) = Nothing \/ answer = Nothing \/ env["STRIPE_API_KEY"] = "invalid"
  THEN Nothing
  ELSE [Entry(a, c) EXCEPT !.reference = answer.reference,
                           !.observed = StripeAmount(answer.amount)]

\* decide: BigInt is reached once the references agree.
ExpectedReference ==
  IF env["VERIFIER_EXPECTED_REFERENCE"] = "invalid" THEN "mistyped" ELSE "expected"
Decide(evidence) ==
  IF evidence = Nothing \/ evidence.reference # ExpectedReference THEN "no"
  ELSE IF NoValue \in {evidence.observed.value, evidence.expected.value} THEN "throws"
  ELSE IF evidence.observed.value >= evidence.expected.value THEN "yes" ELSE "no"

\* runVerifier: the observed amount goes into the verdict as it is, "0" for
\* none; the client takes no verdict whose amount is not a string.
IsSignedVerdict(evidence) ==
  evidence # Nothing => evidence.observed.type \in {"string", "undefined"}

\* signVerdict throws on a key that is not 32 bytes in hex.
SigningThrows == env["VERIFIER_SIGNING_KEY_HEX"] # "valid"

\* The response, where the gate answers 200 for what it lets pass.  A verdict
\* that was computed is discarded when its settlement fails.
Response(a, c, evidence, gate) ==
  LET throws == Decide(evidence) = "throws" \/ SigningThrows
      status == IF gate = 200 /\ throws THEN 500 ELSE gate
  IN  [asset |-> a, cycle |-> c, evidence |-> evidence, status |-> status,
       verdict |-> IF status = 200 THEN Decide(evidence) ELSE "none",
       usable  |-> status = 200 /\ IsSignedVerdict(evidence)]

Ask(a, c, answer) ==
  /\ proc.pc = "listening" /\ Cardinality(answers) < MaxAnswers
  /\ \E gate \in GateAnswers :
       answers' = answers \cup
         {Response(a, c, IF SourceKind(env) = "file" THEN FileEvidence(a, c)
                         ELSE StripeEvidence(a, c, answer), gate)}
  /\ UNCHANGED <<env, disk, proc>>

\* Somebody writes the file.
Edit(f) == disk' = f /\ UNCHANGED <<env, proc, answers>>

ProcessInit ==
  /\ env \in Environment
  /\ disk \in File
  /\ proc = [pc |-> "off", table |-> NoTable]
  /\ answers = {}

ProcessNext ==
  \/ Boot \/ Bound \/ BindFails
  \/ \E a \in Asset, c \in Cycle, answer \in Answer : Ask(a, c, answer)
  \/ \E f \in File : Edit(f)

ProcessSpec == ProcessInit /\ [][ProcessNext]_procVars

-----------------------------------------------------------------------------
(* Properties. *)

\* "Missing required values fail fast", and so does a malformed index: a
\* process that listens fails a request, or answers with what the client will
\* not take, only for what is not looked at when it starts: the settings of
\* the gate, the form of the signing key, the records of a fixture, and an
\* amount of Stripe that is no integer.
FailsFast ==
  \A x \in answers :
    ~x.usable =>
      \/ GateFails \/ env["VERIFIER_SIGNING_KEY_HEX"] = "invalid"
      \/ SourceKind(env) = "file"
         /\ \/ x.evidence.observed.type = "number"
            \/ NoValue \in {x.evidence.observed.value, x.evidence.expected.value}
      \/ SourceKind(env) = "stripe" /\ x.evidence.observed.value = NoValue

\* A file whose records each stand under the key of their own cycle.
Filed == \A k \in DOMAIN proc.table :
           proc.table[k] # Nothing => k = Key(proc.table[k].of[1], proc.table[k].of[2])
HasColon(id) == \E i \in DOMAIN id : id[i] = ":"

\* Behind a "yes" are the expected reference and amounts that compare as
\* integers; Stripe's "yes" is never against an amount that was not written in
\* digits.  And it is the record of exactly that asset and cycle, although
\* nobody compares the ids a record states: if every record stands under its
\* own key, and neither the asset asked for nor the record's has a colon.
YesIsWarranted ==
  \A x \in answers :
    x.verdict = "yes" =>
      /\ x.evidence.reference = "expected"
      /\ x.evidence.observed.value >= x.evidence.expected.value
      /\ SourceKind(env) = "stripe" => x.evidence.expected.digits
      /\ Filed /\ ~HasColon(x.asset) /\ ~HasColon(x.evidence.of[1]) =>
           x.evidence.of = <<x.asset, x.cycle>>
=============================================================================
