------------------------------ MODULE Readings ------------------------------
(***************************************************************************)
(* The commands of cli/src/main.rs, and the read_data of mcp/src/server.rs,*)
(* from what the user asks to what is shown: the bytes that are sent, what *)
(* the decoders make of the bytes that come back, and what the ECU does.   *)
(* A behaviour is one connection: one command of the CLI, or calls of the  *)
(* MCP server.  Replies of the ECUs travel as in EcuLink.                  *)
(***************************************************************************)
EXTENDS SemanticDecode, EcuLink, FiniteSets

CONSTANTS
    ZGW_ADDRESS,       \* the gateway, one of the targets
    Tables, Jobs,      \* the SGBD of the ECU: its tables and the names of its jobs
    measurements,      \* what a command makes of them before it asks anything:
    freeze_frame_defs, \* from_prg, FreezeFrameDefs and from_tables_and_jobs
    service_functions,
    Plans,             \* the sequences of commands that a connection may get
    Car,               \* what the ECUs hold
    EcuSlots,          \* the catalog's ecus: a sequence of [address, group_name]
    OddLimit,          \* bound: replies that are refusals, cut short, or lost
    GiveUpLimit        \* bound: requests that time out

VARIABLES
    plan,              \* the commands of this connection
    at,                \* how many have begun
    steps,             \* the steps of the one that runs; none when none runs
    answers,           \* the payloads it has so far; <<>> for a record that is absent
    result,            \* history: what the last command ended with, until the next begins
    ecu,               \* what the ECU changes: its faults and its dynamic identifier
    changed,           \* history: the requests that changed something, as executed
    odd                \* how many replies were odd

vars == <<plan, at, steps, answers, result, ecu, changed, odd, linkVars>>

running == steps # <<>>

-----------------------------------------------------------------------------
(***************************************************************************)
(* What a command asks.  A step's rule says what a refusal and an error    *)
(* do: "must" fails the command, "optional" takes a refusal for an absent  *)
(* record, "best" takes an error for one too, "ends" only warns.           *)
(***************************************************************************)
Step(target, request, rule, decode) ==
    [target |-> target, request |-> request, rule |-> rule, decode |-> decode]
Read(target, did, rule, decode) == Step(target, read_data_by_identifier(did), rule, decode)
Enter(target, rule) == Step(target, diagnostic_session_control(EXTENDED), rule, "none")

Refused == [refused |-> TRUE, steps |-> <<>>]
Runs(all) == [refused |-> FALSE, steps |-> all]

\* read_did, or the sequence of a dynamic measurement.
ReadSteps(target, did) ==
    LET m == get(measurements, did)
    IN  IF m = <<>> \/ ~is_dynamic(m[1]) THEN <<Read(target, did, "must", "did")>>
        ELSE LET requests == build_read_request(m[1])
             IN  [i \in DOMAIN requests |->
                     Step(target, requests[i], "must",
                          IF Head(requests[i]) = READ_DATA_BY_IDENTIFIER THEN "did" ELSE "none")]

\* Exactly one of a did and a name; a name has to be unique.
resolve_read_target(c) ==
    LET named == find_by_name(measurements, c.name)
    IN  CASE c.did # <<>> /\ c.name = "" -> c.did
          [] c.did = <<>> /\ c.name # "" /\ Len(named) = 1 -> <<named[1].id>>
          [] OTHER -> <<>>

parse_sg_adr(text) == parse_u8(text)

\* A measurement of another ECU is refused.
read_data(c) ==
    LET did == resolve_read_target(c)
        m == IF did = <<>> THEN <<>> ELSE get(measurements, did[1])
        expected == IF m = <<>> THEN <<>> ELSE parse_sg_adr(m[1].sg_adr)
    IN  IF did = <<>> \/ (expected # <<>> /\ expected # <<c.target>>) THEN Refused
        ELSE Runs(ReadSteps(c.target, did[1]))

classify_run(function, confirm) ==
    CASE risk(function.category) = "High" -> "RefuseHighRisk"
      [] risk(function.category) = "Low" /\ function.request = <<>> -> "RefuseNotDerivable"
      [] risk(function.category) = "Low" /\ function.request # <<>> /\ ~confirm -> "NeedsConfirm"
      [] OTHER -> IF function.category = "CbsReset" THEN "RunCbs" ELSE "RunGeneric"

run_cbs_reset(c, function) ==
    IF function.id > 255 THEN Refused
    ELSE Runs(<<Enter(c.target, "must"),
                Step(c.target, build_cbs_reset_request(function.id), "must", "none"),
                Step(c.target, build_cbs_read_request, "must", "any_did")>>)

run_generic_reset(c, function) ==
    Runs(<<Enter(c.target, "must"), Step(c.target, function.request[1], "must", "none")>>)

run_service_run(c) ==
    LET function == by_label(service_functions, c.label)
        decision == classify_run(function[1], c.confirm)
    IN  CASE function = <<>> -> Refused
          [] function # <<>> /\ decision = "RunCbs" -> run_cbs_reset(c, function[1])
          [] function # <<>> /\ decision = "RunGeneric" -> run_generic_reset(c, function[1])
          [] OTHER -> Refused

\* The single ECU: clear_faults_verified and, unless it is the gateway, the reset.
run_clear_faults(c) ==
    LET dtcs == Step(c.target, read_dtc_by_status_mask(ALL_DTC_STATUS_MASK), "must", "dtcs")
        reset == <<Enter(c.target, "ends"), Step(c.target, ecu_reset(HARD), "ends", "none")>>
    IN  IF ~c.confirm THEN Refused
        ELSE Runs(<<dtcs, Enter(c.target, "must"), Step(c.target, clear_all_dtcs, "must", "none"), dtcs>>
                    \o IF c.reset /\ c.target # ZGW_ADDRESS THEN reset ELSE <<>>)

read_fault_detail(c) ==
    <<Step(c.target, read_dtc_snapshot_by_dtc(c.code, ALL_DTC_RECORDS), "optional", "snapshot"),
      Step(c.target, read_dtc_extended_data_by_dtc(c.code, ALL_DTC_RECORDS), "optional", "extended"),
      Step(c.target, read_dtc_severity_by_dtc(c.code), "optional", "severity")>>

\* The lists and the integration levels of the gateway, as with --ecus-only;
\* the reads of the fault memories are a tool of McpServer.
run_scan ==
    <<Read(ZGW_ADDRESS, DIDS.ECU_LIST_ALL, "must", "list"),
      Read(ZGW_ADDRESS, DIDS.ECU_LIST_ACTIVE, "best", "any_list"),
      Read(ZGW_ADDRESS, DIDS.I_STUFE, "best", "any_did")>>

\* A job that the engine runs sends nothing here: see JobEngine.
run_job_run(c) ==
    IF misrouted_dynamic_measurement(measurements, c.label, c.args) THEN Refused ELSE Runs(<<>>)

Script(c) ==
    CASE c.op = "read_faults" -> Runs(<<Step(c.target, read_dtc_by_status_mask(c.mask), "must", "dtcs")>>)
      [] c.op = "info_memory" -> Runs(<<Read(c.target, DIDS.INFO_MEMORY, "optional", "info")>>)
      [] c.op = "fault_detail" -> Runs(read_fault_detail(c))
      [] c.op = "read_did" -> Runs(ReadSteps(c.target, c.did[1]))
      [] c.op = "read_data" -> read_data(c)
      [] c.op = "scan" -> Runs(run_scan)
      [] c.op = "service_run" -> run_service_run(c)
      [] c.op = "clear_faults" -> run_clear_faults(c)
      [] c.op = "tester_present" -> Runs(<<Step(c.target, tester_present, "must", "none")>>)
      [] c.op = "job_run" -> run_job_run(c)

-----------------------------------------------------------------------------
(***************************************************************************)
(* What becomes of an answer.                                              *)
(***************************************************************************)
\* Whether the client accepts the payload of a positive response.
Accepts(step, payload) ==
    LET Sound(decoded) == decoded.err = ""
        asked_did == be_uint(SubSeq(step.request, 2, 3))
        read == decode_read_data_by_identifier(payload)
        Echoed == Sound(read) /\ read.did = asked_did
    IN  CASE step.decode = "none" -> TRUE
          [] step.decode = "dtcs" -> Sound(decode_dtcs(payload))
          [] step.decode = "info" -> Sound(decode_info_memory(payload))
          [] step.decode = "snapshot" -> Sound(decode_dtc_snapshot(payload))
          [] step.decode = "extended" -> Sound(decode_dtc_extended_data(payload))
          [] step.decode = "severity" -> Sound(decode_dtc_severity(payload))
          [] step.decode = "did" -> Echoed
          [] step.decode = "list" -> Echoed /\ Sound(decode_ecu_list(read.data))
          [] step.decode = "any_did" -> Sound(read)
          [] step.decode = "any_list" -> Sound(read) /\ Sound(decode_ecu_list(read.data))

\* The payload is kept, the record is absent, or the command is over.
Outcome(step, a) ==
    CASE a.kind = "positive" /\ Accepts(step, a.content) -> "kept"
      [] a.kind = "negative" /\ step.rule = "optional" -> "absent"
      [] OTHER -> CASE step.rule = "best" -> "absent"
                    [] step.rule = "ends" -> "done"
                    [] OTHER -> "failed"

Init ==
    /\ LinkInit
    /\ plan \in Plans
    /\ at = 0
    /\ steps = <<>>
    /\ answers = <<>>
    /\ result = Nothing
    /\ ecu = [faults |-> Car.faults, defined |-> <<>>]
    /\ changed = <<>>
    /\ odd = 0

\* The command is over, and what it got is shown.
End(status, got) ==
    /\ steps' = <<>>
    /\ answers' = <<>>
    /\ result' = [status |-> status, answers |-> got, late |-> Cardinality(given_up)]

AskStep(step) == Ask(step.target, Head(step.request), step.request)

\* The command is looked at and, unless it is refused, its first request sent.
Begin ==
    /\ ~running /\ at < Len(plan)
    /\ at' = at + 1
    /\ \E script \in {Script(plan[at'])} :
          IF script.steps = <<>>
          THEN /\ End(IF script.refused THEN "refused" ELSE "job", <<>>)
               /\ UNCHANGED linkVars
          ELSE /\ AskStep(script.steps[1])
               /\ steps' = script.steps
               /\ result' = Nothing
               /\ UNCHANGED answers
    /\ UNCHANGED <<plan, ecu, changed, odd>>

\* The answer of a step; then the next step's request, or the end.
Take ==
    /\ running /\ answer # NoAnswer
    /\ at' = at
    /\ \E n \in {Len(answers) + 1}, outcome \in {"kept", "absent", "done", "failed"} :
       LET got == Append(answers, IF outcome = "kept" THEN answer.content ELSE <<>>)
       IN  /\ outcome = Outcome(steps[n], answer)
           /\ IF outcome \in {"kept", "absent"} /\ n < Len(steps)
              THEN /\ AskStep(steps[n + 1])
                   /\ answers' = got
                   /\ UNCHANGED <<steps, result>>
              ELSE /\ End(IF outcome = "failed" THEN "failed" ELSE "done", got)
                   /\ TakeAnswer
    /\ UNCHANGED <<plan, ecu, changed, odd>>

TimeOut ==
    /\ Cardinality(given_up) < GiveUpLimit
    /\ GiveUp
    /\ UNCHANGED <<plan, at, steps, answers, result, ecu, changed, odd>>

-----------------------------------------------------------------------------
(***************************************************************************)
(* The ECUs, which are external.                                           *)
(***************************************************************************)
DtcBytes(dtcs) == FlattenSeq([i \in DOMAIN dtcs |-> dtcs[i].code \o <<dtcs[i].status>>])
FieldBytes(fields) == FlattenSeq([i \in DOMAIN fields |-> be_bytes(fields[i].id) \o fields[i].data])
RecordBytes(records) == FlattenSeq([i \in DOMAIN records |-> <<records[i].id>> \o records[i].data])
Matching(dtcs, mask) == SelectSeq(dtcs, LAMBDA d : StatusBits(d.status) \cap StatusBits(mask) # {})
Refusal(request) == <<NEGATIVE_RESPONSE, Head(request), 49>>

\* The bytes of the identifiers in a dynamic definition, one after another.
DefinedBytes == FlattenSeq([i \in DOMAIN ecu.defined |-> Car.sources[ecu.defined[i]]])

DidReply(request) ==
    LET did == be_uint(SubSeq(request, 2, 3))
        data == CASE did = DYNAMIC_DID -> DefinedBytes
                  [] did = DIDS.INFO_MEMORY -> <<1>> \o DtcBytes(Car.info)
                  [] did \in DOMAIN Car.dids -> Car.dids[did]
                  [] OTHER -> <<>>
    IN  IF data = <<>> THEN Refusal(request) ELSE <<98>> \o Tail(request) \o data

DtcReply(request) ==
    LET of == SubSeq(request, 3, 5)
    IN  IF request[2] = REPORT_DTC_BY_STATUS_MASK
        THEN <<89, 2, 255>> \o DtcBytes(Matching(ecu.faults, request[3]))
        ELSE IF of # Car.fault THEN Refusal(request)
        ELSE CASE request[2] = REPORT_DTC_SNAPSHOT_BY_DTC ->
                    <<89, 4>> \o of \o <<9, 1, Len(Car.frame)>> \o FieldBytes(Car.frame)
               [] request[2] = REPORT_DTC_EXT_DATA_BY_DTC ->
                    <<89, 6>> \o of \o <<9>> \o RecordBytes(Car.extended)
               [] OTHER -> <<89, 9, 255, Car.severity, 0>> \o of \o <<9>>

ReplyTo(request) ==
    CASE Head(request) = READ_DATA_BY_IDENTIFIER -> DidReply(request)
      [] Head(request) = READ_DTC_INFORMATION -> DtcReply(request)
      [] OTHER -> <<positive_response_sid(Head(request)), request[2]>>

\* A definition is added to what is defined already.
Executes(q) ==
    LET request == q.data
    IN  /\ ecu' = CASE request = clear_all_dtcs -> [ecu EXCEPT !.faults = <<>>]
                    [] SubSeq(request, 1, 2) = <<DYNAMICALLY_DEFINE_DATA_IDENTIFIER, CLEAR>> ->
                         [ecu EXCEPT !.defined = <<>>]
                    [] SubSeq(request, 1, 2) = <<DYNAMICALLY_DEFINE_DATA_IDENTIFIER, DEFINE_BY_IDENTIFIER>> ->
                         [ecu EXCEPT !.defined = Append(@, be_uint(SubSeq(request, 5, 6)))]
                    [] OTHER -> ecu
        /\ changed' = IF Head(request) \in {CLEAR_DIAGNOSTIC_INFORMATION, ECU_RESET,
                                            WRITE_DATA_BY_IDENTIFIER, ROUTINE_CONTROL}
                      THEN Append(changed, q) ELSE changed

KindOf(payload) == IF Head(payload) = NEGATIVE_RESPONSE THEN "negative" ELSE "positive"

EcuAnswers(t) ==
    /\ Handles(t)
    /\ Executes(Head(inbox[t]))
    /\ \E payload \in {ReplyTo(Head(inbox[t]).data)} : Replies(t, KindOf(payload), payload)
    /\ UNCHANGED odd

EcuIsOdd(t) ==
    /\ odd < OddLimit
    /\ odd' = odd + 1
    /\ Handles(t)
    /\ \E request \in {Head(inbox[t]).data}, payload \in {ReplyTo(Head(inbox[t]).data)} :
          \/ /\ Replies(t, "negative", Refusal(request))
             /\ UNCHANGED <<ecu, changed>>
          \/ /\ Len(payload) > 1 /\ Replies(t, KindOf(payload), Front(payload))
             /\ Executes(Head(inbox[t]))
          \/ /\ Executes(Head(inbox[t]))
             /\ UNCHANGED outbox

EcuStep(t) ==
    /\ EcuAnswers(t) \/ EcuIsOdd(t)
    /\ UNCHANGED <<plan, at, steps, answers, result, asked, open, answer, given_up, synced>>

Arrives(t) == Deliver(t) /\ UNCHANGED <<plan, at, steps, answers, result, ecu, changed, odd>>

Next ==
    \/ Begin \/ Take \/ TimeOut
    \/ \E t \in Targets : EcuStep(t) \/ Arrives(t)

Spec == Init /\ [][Next]_vars

-----------------------------------------------------------------------------
(***************************************************************************)
(* What is shown.                                                          *)
(***************************************************************************)
\* A fraction in lowest terms.
gcd[a \in Nat, b \in Nat] == IF b = 0 THEN a ELSE gcd[b, a % b]
Reduced(f) ==
    LET d == gcd[IF f[1] < 0 THEN -f[1] ELSE f[1], f[2]] IN <<f[1] \div d, f[2] \div d>>

\* The relevant faults, or all, with the names of their status bits.
print_faults(payload, all) ==
    LET shown == SelectSeq(decode_dtcs(payload).dtcs, LAMBDA d : all \/ is_relevant(d.status))
    IN  [i \in DOMAIN shown |-> [code |-> shown[i].code, flags |-> status_flags(shown[i].status)]]

\* The name of the measurement before the standard one, for which "standard"
\* stands; the value of a standard PID before the measurement's.
print_did_value(did, payload) ==
    LET data == decode_read_data_by_identifier(payload).data
        decoded == decode_did(did, data)
        m == get(measurements, did)
        proprietary == IF m = <<>> THEN <<>> ELSE scaled(m[1], data)
    IN  [name |-> CASE proprietary # <<>> -> MeasurementName(m[1])
                    [] proprietary = <<>> /\ decoded.named -> "standard"
                    [] OTHER -> "ECU-specific DID",
         value |-> IF decoded.value # <<>> THEN decoded.value ELSE proprietary]

\* Each of the levels: four printable characters, year, month and patch.
decode_i_stufe_record(raw, index) ==
    LET record == SubSeq(raw, index * 8 + 1, index * 8 + 8)
    IN  IF Len(raw) < index * 8 + 8 \/ (\E i \in 1 .. 4 : record[i] \notin 33 .. 126) THEN <<>>
        ELSE <<record>>

\* print_fault_detail
SnapshotShown(payload) == DecodeSnapshot(freeze_frame_defs.snapshot, decode_dtc_snapshot(payload).body).fields
ExtendedShown(payload) == DecodeExtData(freeze_frame_defs.extended, decode_dtc_extended_data(payload).body).records

-----------------------------------------------------------------------------
(***************************************************************************)
(* Properties.                                                             *)
(***************************************************************************)
Done == result # Nothing /\ result.status = "done"

\* Whether a payload shows what is held: all of it if no reply was odd.
Shows(payload, Shown(_), held) ==
    /\ payload # <<>> => IsPrefix(Shown(payload), held)
    /\ odd = 0 => payload # <<>> /\ Shown(payload) = held

\* The fields of a freeze frame as label and value, a fraction in lowest terms.
Gist(fields) == [i \in DOMAIN fields |->
                    [label |-> fields[i].label,
                     value |-> IF fields[i].value = <<>> THEN <<>> ELSE <<Reduced(fields[i].value[1])>>]]

\* What a command shows is what the ECU holds, as long as no request of the
\* connection was given up: every relevant fault, the entries of the info
\* memory, each freeze-frame field with its label and its value up to the first
\* identifier that the SGBD does not know, the ECU lists and the levels.  A reply
\* that is a byte short is an error or shows less; it never shows something else
\* (dtc.rs:106-306, snapshot.rs:233-436, main.rs:1573-1730).
AnswersAreExact ==
    Done /\ result.late = 0 =>
        LET c == plan[at]
            a == result.answers
            Data(p) == decode_read_data_by_identifier(p).data
            Addresses(p) == decode_ecu_list(Data(p)).addresses
            Levels(p) == FlattenSeq([i \in 1 .. 3 |-> decode_i_stufe_record(Data(p), i - 1)])
            Frame(p) == Gist(SnapshotShown(p))
            ExtendedOf(p) == [i \in DOMAIN ExtendedShown(p) |->
                               [label |-> ExtendedShown(p)[i].label, value |-> ExtendedShown(p)[i].value]]
            Severity(p) == <<decode_dtc_severity(p).severity>>
        IN  CASE c.op = "read_faults" ->
                   Shows(a[1], LAMBDA p : print_faults(p, c.all), Car.meant.faults[c.mask, c.all])
              [] c.op = "info_memory" ->
                   Shows(a[1], LAMBDA p : decode_info_memory(p).entries, Car.info)
              [] c.op = "fault_detail" /\ c.code = Car.fault ->
                   /\ Shows(a[1], Frame, Car.meant.frame)
                   /\ Shows(a[2], ExtendedOf, Car.meant.extended)
                   /\ Shows(a[3], Severity, <<Car.severity>>)
              [] c.op = "fault_detail" /\ c.code # Car.fault -> ToSet(a) = {<<>>}
              [] c.op = "scan" ->
                   /\ Shows(a[1], LAMBDA p : name_ecu_list(EcuSlots, Addresses(p)), Car.meant.configured)
                   /\ Shows(a[2], Addresses, Car.meant.active)
                   /\ Shows(a[3], Levels, Car.meant.levels)
              [] OTHER -> TRUE

\* The name and the value shown for a measurement are its own: for a plain DID
\* always, since its echo is compared.  The reads of a dynamic one all echo
\* 0xF303, and its value is another's only after three requests of the connection
\* were given up (two late confirmations of 2C let the late value through), or
\* after one was and a 2C is refused: the late confirmation hides the refusal
\* (measurement.rs:406-418, client.rs:581-604, session.rs:20-28).
MeasurementIsItsOwn ==
    Done /\ plan[at].op \in {"read_did", "read_data"} =>
        \A did \in {IF plan[at].op = "read_did" THEN plan[at].did[1] ELSE resolve_read_target(plan[at])[1]} :
        \A shown \in {print_did_value(did, Last(result.answers))} :
            shown.value # <<>> =>
                /\ shown.name = Car.meant.names[did]
                /\ \/ Reduced(shown.value[1]) = Car.meant.values[did]
                   \/ /\ is_dynamic(get(measurements, did)[1])
                      /\ result.late >= 3 \/ (result.late >= 1 /\ odd >= 1)

\* What changes the ECU was asked for and confirmed: only clear-faults clears,
\* it resets only what it has cleared and never the gateway, and the write or
\* the routine of a service function is of the label the user gave, with the
\* number that the SGBD has for that counter and within its byte
\* (main.rs:905-1052, 1404-1468, service_function.rs:385-464).
ChangesAreAskedFor ==
    LET CbsRows == LET of == SelectSeq(Tables, LAMBDA t : t.name = "CBSKENNUNG")[1] IN ToSet(of.rows)
        IsCounterOf(q, label) ==
            /\ SubSeq(q.data, 1, 4) = <<46, 16, 1, 1>>
            /\ \E row \in CbsRows : row[2] = label /\ parse_id(row[1]) = <<q.data[5]>>
        IsDerivedFor(q, label) ==
            \E i \in DOMAIN DERIVED_RESETS :
                LET d == DERIVED_RESETS[i] IN d.label = label /\ d.job \in Jobs /\ d.request = q.data
    IN  \A i \in DOMAIN changed :
            LET q == changed[i]
                c == plan[1]
            IN  /\ c.confirm /\ q.target = c.target
                /\ CASE Head(q.data) = CLEAR_DIAGNOSTIC_INFORMATION -> c.op = "clear_faults"
                     [] Head(q.data) = ECU_RESET ->
                          /\ c.op = "clear_faults" /\ c.reset /\ q.target # ZGW_ADDRESS
                          /\ \E j \in 1 .. i - 1 : changed[j].data = clear_all_dtcs
                     [] OTHER -> /\ c.op = "service_run"
                                 /\ IsCounterOf(q, c.label) \/ IsDerivedFor(q, c.label)

=============================================================================
