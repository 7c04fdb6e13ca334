----------------------- MODULE VerifierProcessProofs -----------------------
(***************************************************************************)
(* What a verifier process answers, proved for any environment, any files  *)
(* and any number of answers.                                              *)
(*                                                                         *)
(* The invariant says that a process that has begun to listen has the      *)
(* table of a file that main has not thrown at, and that every answer was  *)
(* made from that table; nothing it could be made from changes any more.   *)
(***************************************************************************)
EXTENDS VerifierProcess, TLAPS

States == {"off", "binding", "listening", "exited"}
Tables == {NoTable} \cup {f.table : f \in File}

\* The file a running process has loaded.
Loaded(f) == ~MainThrows(env, f) /\ proc.table = f.table

Evidence(a, c, answer) ==
  IF SourceKind(env) = "file" THEN FileEvidence(a, c) ELSE StripeEvidence(a, c, answer)

Given(x) ==
  \E a \in Asset, c \in Cycle, answer \in Answer, gate \in {200, 402, 500} :
    /\ x = Response(a, c, Evidence(a, c, answer), gate)
    /\ gate # 200 => GateFails

ProcessInv ==
  /\ env \in Environment /\ disk \in File
  /\ proc \in [pc : States, table : Tables]
  /\ proc.pc \in {"binding", "listening"} => \E f \in File : Loaded(f)
  /\ answers # {} => proc.pc = "listening"
  /\ \A x \in answers : Given(x)

\* What nobody has changed stays as it is.
LEMMA Frame ==
  ASSUME ProcessInv, UNCHANGED <<env, proc, answers>>, disk' \in File
  PROVE  ProcessInv'
<1>1. \A f \in File : Loaded(f)' = Loaded(f)
  BY DEF Loaded
<1>2. \A x : Given(x)' = Given(x)
  BY DEF Given, Response, Evidence, FileEvidence, StripeEvidence, Entry, Table, SigningThrows,
         Decide, ExpectedReference, GateFails
<1> QED BY <1>1, <1>2 DEF ProcessInv

\* The process starts, binds or exits: nobody has been answered yet.
LEMMA Starting ==
  ASSUME ProcessInv, Boot \/ Bound \/ BindFails
  PROVE  ProcessInv'
<1>1. env' = env /\ disk' = disk /\ answers' = answers /\ answers = {}
  BY DEF ProcessInv, Boot, Bound, BindFails
<1>2. \A f \in File : proc'.table = f.table /\ ~MainThrows(env, f) => Loaded(f)'
  BY <1>1 DEF Loaded
<1>3. CASE Boot
  <2>1. CASE MainThrows(env, disk)
    BY <1>1, <1>3, <2>1 DEF ProcessInv, Boot, Exit, States, Tables
  <2>2. CASE ~MainThrows(env, disk)
    <3>1. proc' = [pc |-> "binding", table |-> disk.table]
      BY <1>3, <2>2 DEF Boot
    <3>2. Loaded(disk)'
      BY <1>1, <1>2, <2>2, <3>1 DEF ProcessInv
    <3>3. proc' \in [pc : States, table : Tables]
      BY <3>1 DEF ProcessInv, States, Tables
    <3> QED BY <1>1, <3>2, <3>3 DEF ProcessInv
  <2> QED BY <2>1, <2>2
<1>4. CASE Bound
  <2>1. proc' = [proc EXCEPT !.pc = "listening"] /\ proc.pc = "binding"
    BY <1>4 DEF Bound
  <2>2. proc'.table = proc.table /\ proc' \in [pc : States, table : Tables]
    BY <2>1 DEF ProcessInv, States
  <2>3. PICK f \in File : Loaded(f)
    BY <2>1 DEF ProcessInv
  <2>4. Loaded(f)'
    BY <1>2, <2>2, <2>3 DEF Loaded
  <2> QED BY <1>1, <2>2, <2>4 DEF ProcessInv
<1>5. CASE BindFails
  BY <1>1, <1>5 DEF ProcessInv, BindFails, Exit, States, Tables
<1> QED BY <1>3, <1>4, <1>5

\* An answer is made of what the process has at that moment.
LEMMA Answering ==
  ASSUME ProcessInv, NEW a \in Asset, NEW c \in Cycle, NEW answer \in Answer, Ask(a, c, answer)
  PROVE  ProcessInv'
<1>1. /\ UNCHANGED <<env, disk, proc>> /\ proc.pc = "listening"
  BY DEF Ask
<1>2. PICK gate \in GateAnswers :
        answers' = answers \cup {Response(a, c, Evidence(a, c, answer), gate)}
  BY DEF Ask, Evidence
<1>3. \A f \in File : Loaded(f)' = Loaded(f)
  BY <1>1 DEF Loaded
<1>4. \A x : Given(x)' = Given(x)
  BY <1>1
     DEF Given, Response, Evidence, FileEvidence, StripeEvidence, Entry, Table, SigningThrows,
         Decide, ExpectedReference, GateFails
<1>5. gate \in {200, 402, 500} /\ (gate # 200 => GateFails)
  BY <1>2 DEF GateAnswers
<1>6. Given(Response(a, c, Evidence(a, c, answer), gate))
  BY <1>5 DEF Given
<1> QED BY <1>1, <1>2, <1>3, <1>4, <1>6 DEF ProcessInv

\* ProcessInv holds throughout: whatever the boot found, however the files were
\* edited since, an answer was given on evidence that was there.
THEOREM ProcessInvariant == ProcessSpec => []ProcessInv
<1>1. ProcessInit => ProcessInv
  BY DEF ProcessInit, ProcessInv, States, Tables
<1>2. ProcessInv /\ [ProcessNext]_procVars => ProcessInv'
  <2> SUFFICES ASSUME ProcessInv, [ProcessNext]_procVars PROVE ProcessInv'
    OBVIOUS
  <2>1. CASE Boot \/ Bound \/ BindFails
    BY <2>1, Starting
  <2>2. ASSUME NEW a \in Asset, NEW c \in Cycle, NEW answer \in Answer, Ask(a, c, answer)
        PROVE  ProcessInv'
    BY <2>2, Answering
  <2>3. ASSUME NEW f \in File, Edit(f) PROVE ProcessInv'
    BY <2>3, Frame DEF Edit
  <2>4. CASE UNCHANGED procVars
    BY <2>4, Frame DEF procVars, ProcessInv
  <2> QED BY <2>1, <2>2, <2>3, <2>4 DEF ProcessNext
<1> QED BY <1>1, <1>2, PTL DEF ProcessSpec

-----------------------------------------------------------------------------
(* What follows of an answer. *)

\* What a response says of its question, its evidence and its verdict.
LEMMA Fields ==
  ASSUME NEW a, NEW c, NEW e, NEW gate
  PROVE  /\ Response(a, c, e, gate).asset = a
         /\ Response(a, c, e, gate).cycle = c
         /\ Response(a, c, e, gate).evidence = e
         /\ Response(a, c, e, gate).verdict = "yes" => Decide(e) = "yes"
         /\ ~Response(a, c, e, gate).usable =>
              gate # 200 \/ Decide(e) = "throws" \/ SigningThrows \/ ~IsSignedVerdict(e)
BY DEF Response

\* Evidence is a record of the loaded file, with Stripe's word for what came in.
LEMMA EvidenceIsFiled ==
  ASSUME ProcessInv, proc.pc = "listening",
         NEW a \in Asset, NEW c \in Cycle, NEW answer \in Answer,
         Evidence(a, c, answer) # Nothing
  PROVE  \E f \in File : \E r \in Records :
           /\ ~MainThrows(env, f) /\ f.table = proc.table
           /\ Key(a, c) \in DOMAIN f.table /\ r = f.table[Key(a, c)]
           /\ Evidence(a, c, answer).of = r.of
           /\ Evidence(a, c, answer).expected = r.expected
           /\ Evidence(a, c, answer).reference \in References
           /\ SourceKind(env) = "file" => Evidence(a, c, answer) = r
           /\ SourceKind(env) = "stripe" =>
                Evidence(a, c, answer).observed = StripeAmount(answer.amount) /\ ValidEntry(r)
<1> DEFINE k == Key(a, c)
           e == Evidence(a, c, answer)
<1>1. PICK f \in File : Loaded(f)
  BY DEF ProcessInv
<1>2. ~MainThrows(env, f) /\ proc.table = f.table
  BY <1>1 DEF Loaded
<1>3. Entry(a, c) # Nothing
  BY DEF Evidence, FileEvidence, StripeEvidence
<1>4. k \in DOMAIN f.table /\ Entry(a, c) = f.table[k]
  BY <1>2, <1>3 DEF Entry, Table
<1> HIDE DEF k
<1>5. f.table[k] \in Records
  BY <1>3, <1>4, ProcessAssumption
<1>6. PICK r \in Records : r = f.table[k]
  BY <1>5
<1>7. CASE SourceKind(env) = "file"
  <2>1. r.reference \in References
    BY DEF Records
  <2> QED BY <1>2, <1>4, <1>6, <1>7, <2>1 DEF Evidence, FileEvidence, k
<1>8. CASE SourceKind(env) # "file"
  <2>1. e = [r EXCEPT !.reference = answer.reference, !.observed = StripeAmount(answer.amount)]
    BY <1>4, <1>6, <1>8 DEF Evidence, StripeEvidence
  <2>2. /\ e.of = r.of /\ e.expected = r.expected /\ e.reference = answer.reference
        /\ e.observed = StripeAmount(answer.amount)
    <3> DEFINE amount == StripeAmount(answer.amount)
    <3> HIDE DEF amount, e
    <3>1. e = [r EXCEPT !.reference = answer.reference, !.observed = amount]
      BY <2>1 DEF amount
    <3>2. /\ e.of = r.of /\ e.expected = r.expected /\ e.reference = answer.reference
          /\ e.observed = amount
      BY <3>1 DEF Records
    <3> QED BY <3>2 DEF amount
  <2>3. SourceKind(env) = "stripe" => ValidEntry(r)
    BY <1>2, <1>4, <1>6 DEF MainThrows, SourceFails, LoadsIndex
  <2>4. answer # Nothing
    BY <1>8 DEF Evidence, StripeEvidence
  <2>5. answer.reference \in References
    BY <2>4, ProcessAssumption
  <2> QED BY <1>2, <1>4, <1>6, <1>8, <2>2, <2>3, <2>5 DEF k
<1> QED BY <1>7, <1>8

\* main has seen to it that there is a source and a signing key of some form.
LEMMA BootedWell ==
  ASSUME ProcessInv, proc.pc = "listening"
  PROVE  /\ SourceKind(env) \in {"file", "stripe"}
         /\ SigningThrows => env["VERIFIER_SIGNING_KEY_HEX"] = "invalid"
<1>1. PICK f \in File : ~MainThrows(env, f)
  BY DEF ProcessInv, Loaded
<1>2. SourceKind(env) \in {"file", "stripe"}
  BY <1>1 DEF MainThrows, SourceFails
<1>3. ~Missing(env, "VERIFIER_SIGNING_KEY_HEX")
  BY <1>1 DEF MainThrows, Required
<1>4. env["VERIFIER_SIGNING_KEY_HEX"] \in Settings
  BY ProcessAssumption DEF ProcessInv, Variables
<1> QED BY <1>2, <1>3, <1>4 DEF Missing, Settings, SigningThrows

\* An amount is text, a number or absent; one in digits is an integer.
LEMMA AmountForms ==
  ASSUME NEW r \in Records
  PROVE  /\ r.observed.type \in {"string", "number", "undefined"}
         /\ r.expected.digits => r.expected.value # NoValue
BY DEF Records, Amounts

\* What nobody looks at when the process starts is the settings of the gate, a
\* signing key's form, a fixture's records and Stripe's amounts; nothing else
\* fails a request.
THEOREM FailsFastOrNever == ProcessSpec => []FailsFast
<1>1. ASSUME ProcessInv PROVE FailsFast
  <2> SUFFICES ASSUME NEW x \in answers, ~x.usable, ~GateFails,
                      env["VERIFIER_SIGNING_KEY_HEX"] # "invalid"
               PROVE  \/ /\ SourceKind(env) = "file"
                         /\ \/ x.evidence.observed.type = "number"
                            \/ NoValue \in {x.evidence.observed.value, x.evidence.expected.value}
                      \/ SourceKind(env) = "stripe" /\ x.evidence.observed.value = NoValue
    BY DEF FailsFast
  <2>1. proc.pc = "listening" /\ Given(x)
    BY <1>1 DEF ProcessInv
  <2>2. PICK a \in Asset, c \in Cycle, answer \in Answer :
          x = Response(a, c, Evidence(a, c, answer), 200)
    BY <2>1 DEF Given
  <2> DEFINE e == Evidence(a, c, answer)
  <2>3. x.evidence = e /\ (Decide(e) = "throws" \/ ~IsSignedVerdict(e))
    BY <1>1, <2>1, <2>2, Fields, BootedWell
  <2>4. e # Nothing
    BY <2>3 DEF Decide, IsSignedVerdict
  <2>5. PICK f \in File, r \in Records :
          /\ e.expected = r.expected
          /\ SourceKind(env) = "file" => e = r
          /\ SourceKind(env) = "stripe" => e.observed = StripeAmount(answer.amount) /\ ValidEntry(r)
    BY <1>1, <2>1, <2>4, EvidenceIsFiled
  <2> HIDE DEF e
  <2>6. CASE Decide(e) = "throws"
    <3>1. NoValue \in {e.observed.value, e.expected.value}
      BY <2>6 DEF Decide
    <3>2. SourceKind(env) = "stripe" => e.expected.value # NoValue
      BY <2>5, AmountForms DEF ValidEntry
    <3> QED BY <1>1, <2>1, <2>3, <3>1, <3>2, BootedWell
  <2>7. CASE ~IsSignedVerdict(e)
    <3>1. e.observed.type \notin {"string", "undefined"}
      BY <2>7 DEF IsSignedVerdict
    <3>2. SourceKind(env) # "stripe"
      BY <2>5, <3>1 DEF StripeAmount
    <3>3. SourceKind(env) = "file" /\ e = r
      BY <1>1, <2>1, <2>5, <3>2, BootedWell
    <3> QED BY <2>3, <3>1, <3>3, AmountForms
  <2> QED BY <2>3, <2>6, <2>7
<1> QED BY <1>1, ProcessInvariant, PTL

\* Of ids without a colon before it, the first colon of a key is the separator:
\* the key has one reading, whatever the cycle ids contain.
LEMMA KeyReadsOneWay ==
  ASSUME NEW a \in Asset, NEW b \in Asset, NEW c \in Cycle, NEW d \in Cycle,
         ~HasColon(a), ~HasColon(b), Key(a, c) = Key(b, d)
  PROVE  a = b /\ c = d
<1>0. Asset \subseteq Seq(STRING) /\ Cycle \subseteq Seq(STRING)
  BY ProcessAssumption
<1>1. a \in Seq(STRING) /\ b \in Seq(STRING) /\ c \in Seq(STRING) /\ d \in Seq(STRING)
  BY <1>0, Zenon
<1> DEFINE k == a \o <<":">> \o c
           l == b \o <<":">> \o d
<1>2. k = l
  BY DEF Key
<1>3. /\ \A i \in 1 .. Len(a) : k[i] = a[i]
      /\ k[Len(a) + 1] = ":"
      /\ \A i \in 1 .. Len(c) : k[Len(a) + 1 + i] = c[i]
      /\ Len(k) = Len(a) + 1 + Len(c)
  BY <1>1
<1>4. /\ \A i \in 1 .. Len(b) : l[i] = b[i]
      /\ l[Len(b) + 1] = ":"
      /\ \A i \in 1 .. Len(d) : l[Len(b) + 1 + i] = d[i]
      /\ Len(l) = Len(b) + 1 + Len(d)
  BY <1>1
<1> HIDE DEF k, l
<1>5. Len(a) \in Nat /\ Len(b) \in Nat /\ Len(c) \in Nat /\ Len(d) \in Nat
  BY <1>1
<1>6. /\ \A i \in 1 .. Len(a) : a[i] # ":"
      /\ \A i \in 1 .. Len(b) : b[i] # ":"
  BY <1>1 DEF HasColon
<1>7. Len(a) = Len(b)
  <2>1. ~(Len(b) < Len(a))
    <3> SUFFICES ASSUME Len(b) < Len(a) PROVE FALSE
      OBVIOUS
    <3>1. Len(b) + 1 \in 1 .. Len(a)
      BY <1>5
    <3> QED BY <1>2, <1>3, <1>4, <1>6, <3>1
  <2>2. ~(Len(a) < Len(b))
    <3> SUFFICES ASSUME Len(a) < Len(b) PROVE FALSE
      OBVIOUS
    <3>1. Len(a) + 1 \in 1 .. Len(b)
      BY <1>5
    <3> QED BY <1>2, <1>3, <1>4, <1>6, <3>1
  <2> QED BY <1>5, <2>1, <2>2
<1>8. a = b
  <2>1. \A i \in 1 .. Len(a) : a[i] = b[i]
    BY <1>2, <1>3, <1>4, <1>7
  <2> QED BY <1>1, <1>7, <2>1
<1>9. c = d
  <2>1. Len(c) = Len(d)
    BY <1>2, <1>3, <1>4, <1>5, <1>7
  <2>2. \A i \in 1 .. Len(c) : c[i] = d[i]
    BY <1>2, <1>3, <1>4, <1>7, <2>1
  <2> QED BY <1>1, <2>1, <2>2
<1> QED BY <1>8, <1>9

\* A "yes" rests on the record under the key asked for, whose amounts compare
\* as integers; where ids are free of colons and records are under their own
\* keys, that is the record of the cycle the verdict is about.
THEOREM YesWarranted == ProcessSpec => []YesIsWarranted
<1>1. ASSUME ProcessInv PROVE YesIsWarranted
  <2> SUFFICES ASSUME NEW x \in answers, x.verdict = "yes"
               PROVE  /\ x.evidence.reference = "expected"
                      /\ x.evidence.observed.value >= x.evidence.expected.value
                      /\ SourceKind(env) = "stripe" => x.evidence.expected.digits
                      /\ Filed /\ ~HasColon(x.asset) /\ ~HasColon(x.evidence.of[1]) =>
                           x.evidence.of = <<x.asset, x.cycle>>
    BY DEF YesIsWarranted
  <2>1. proc.pc = "listening" /\ Given(x)
    BY <1>1 DEF ProcessInv
  <2>2. PICK a \in Asset, c \in Cycle, answer \in Answer, gate \in {200, 402, 500} :
          x = Response(a, c, Evidence(a, c, answer), gate)
    BY <2>1 DEF Given
  <2> DEFINE e == Evidence(a, c, answer)
  <2>3. x.asset = a /\ x.cycle = c /\ x.evidence = e /\ Decide(e) = "yes"
    BY <2>2, Fields
  <2>4. /\ e # Nothing /\ e.reference = ExpectedReference
        /\ e.observed.value >= e.expected.value
    BY <2>3 DEF Decide
  <2>5. PICK r \in Records :
          /\ Key(a, c) \in DOMAIN proc.table /\ r = proc.table[Key(a, c)]
          /\ e.of = r.of /\ e.expected = r.expected /\ e.reference \in References
          /\ SourceKind(env) = "stripe" => ValidEntry(r)
    BY <1>1, <2>1, <2>4, EvidenceIsFiled
  <2>6. ASSUME Filed, ~HasColon(a), ~HasColon(e.of[1]) PROVE e.of = <<a, c>>
    <3>1. r.of \in Asset \X Cycle
      BY DEF Records
    <3>2. r # Nothing
      BY ProcessAssumption
    <3>3. Key(a, c) = Key(r.of[1], r.of[2])
      BY <2>5, <2>6, <3>2 DEF Filed
    <3>4. r.of[1] \in Asset /\ r.of[2] \in Cycle /\ ~HasColon(r.of[1])
      BY <2>5, <2>6, <3>1
    <3>5. r.of[1] = a /\ r.of[2] = c
      BY <2>6, <3>3, <3>4, KeyReadsOneWay
    <3> QED BY <2>5, <3>1, <3>5
  <2> HIDE DEF e
  <2>7. SourceKind(env) = "stripe" => e.expected.digits
    BY <2>5 DEF ValidEntry
  <2>8. e.reference = "expected"
    BY <2>4, <2>5 DEF ExpectedReference, References
  <2> QED BY <2>3, <2>4, <2>6, <2>7, <2>8
<1> QED BY <1>1, ProcessInvariant, PTL
=============================================================================
