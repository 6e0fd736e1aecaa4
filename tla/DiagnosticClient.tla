-------------------------- MODULE DiagnosticClient --------------------------
(***************************************************************************)
(* The operations of crates/client/src/client.rs: each is a script of UDS  *)
(* requests, sent one after another, with a rule for the answers.          *)
(*                                                                         *)
(* Every operation borrows the client and awaits its requests in turn; two *)
(* operations on different ECUs do not meet (Session), so one caller that  *)
(* runs one operation after another is enough to see what an operation     *)
(* makes of late replies.                                                  *)
(***************************************************************************)
EXTENDS EcuLink

CONSTANTS
    Gateway,             \* ZGW_ADDRESS
    Installed,           \* the addresses of the gateway's list, a sequence
    IdentificationDids,  \* IDENTIFICATION_DIDS, a sequence
    Operations,          \* the operations the caller chooses from
    CallLimit            \* bound: operations run one after another

\* The operations of client.rs.
Names ==
    {"read_did", "read_dtcs", "read_fault_detail", "read_info_memory", "read_ecu_list",
     "read_responding_ecu_list", "read_ecu_identification", "identify_vehicle", "clear_dtcs",
     "ecu_reset", "run_service_reset", "tester_present", "reset_cbs", "read_dynamic_measurement"}

ASSUME ClientAssumption ==
    /\ \A o \in Operations : o.name \in Names
    /\ Len(Installed) \in Nat
    /\ Len(IdentificationDids) \in Nat \ {0}
    /\ DOMAIN IdentificationDids = 1 .. Len(IdentificationDids)
    /\ Nothing \notin Nat

VARIABLES
    op,                  \* the operation that runs, or Nothing
    at,                  \* the step of its script that waits for an answer
    fields,              \* the values collected so far
    verdicts,            \* history: what became of each answer, by step
    returned,            \* what the last operation returned, or Nothing
    calls                \* how many operations have been started

clientVars == <<op, at, fields, verdicts, returned, calls>>
vars == <<linkVars, clientVars>>

-----------------------------------------------------------------------------
(***************************************************************************)
(* Scripts.  A step has the request's target, service id and data; what a  *)
(* refusal means ("error" or "none"), how much of the data the answer's    *)
(* echo is compared with ("all", "first" or "nothing") and what a mismatch *)
(* means; and `block`, the place in the list of the ECU whose part alone   *)
(* an error empties, or Nothing if an error ends the operation.            *)
(***************************************************************************)
Step(t, sid, data, refusal, compare, mismatch) ==
    [target |-> t, sid |-> sid, data |-> data, refusal |-> refusal,
     compare |-> compare, mismatch |-> mismatch, block |-> Nothing]

\* read_did, which read_ecu_list and read_vehicle_order call.
read_did(t, did) == <<Step(t, "22", <<did>>, "error", "all", "error")>>

\* The reads that go through request_optional and discard the echoed DID.
read_optional(t, did) == <<Step(t, "22", <<did>>, "none", "nothing", "error")>>

read_ecu_list            == read_did(Gateway, "ecu_list_all")
read_responding_ecu_list == read_optional(Gateway, "ecu_list_active")
read_i_stufe_levels      == read_optional(Gateway, "i_stufe")
read_vehicle_order       == read_did(Gateway, "vehicle_order")
read_info_memory(t)      == read_optional(t, "info_memory")

\* The decoder of 59 02 compares the sub-function.
read_dtcs(t) == <<Step(t, "19", <<"02">>, "error", "first", "error")>>

\* Snapshot, extended data, severity.  The decoders compare the sub-function;
\* nothing compares the echoed DTC.
read_fault_detail(t, dtc) ==
    [i \in 1 .. 3 |-> Step(t, "19", <<(<<"04", "06", "09">>)[i], dtc>>, "none", "first", "error")]

read_ecu_identification(t) ==
    [i \in DOMAIN IdentificationDids |->
        Step(t, "22", <<IdentificationDids[i]>>, "none", "all", "none")]

\* The identification of every ECU of the list in turn; an error inside the nth
\* empties its block.
IdentificationBlocks ==
    [i \in 1 .. Len(Installed) * Len(IdentificationDids) |->
        LET n == ((i - 1) \div Len(IdentificationDids)) + 1
            k == ((i - 1) % Len(IdentificationDids)) + 1
        IN  [read_ecu_identification(Installed[n])[k] EXCEPT !.block = n]]

\* The VIN and the vehicle order may be refused, unlike in read_did.
MayRefuse(script) == <<[script[1] EXCEPT !.refusal = "none"]>>

identify_vehicle ==
    read_ecu_list \o MayRefuse(read_did(Gateway, "vin")) \o read_i_stufe_levels
      \o MayRefuse(read_vehicle_order) \o IdentificationBlocks

enter_session(t) == <<Step(t, "10", <<"03">>, "error", "nothing", "error")>>

\* clear_dtcs, ecu_reset and run_service_reset: the extended session, the write.
write_after_session(t, sid, data) ==
    enter_session(t) \o <<Step(t, sid, data, "error", "nothing", "error")>>

\* The write to the CBS DID and its read-back, whose DID is discarded.
reset_cbs(t) ==
    write_after_session(t, "2E", <<"cbs">>)
      \o <<Step(t, "22", <<"cbs">>, "error", "nothing", "error")>>

tester_present(t) == <<Step(t, "3E", <<"00">>, "error", "nothing", "error")>>

\* Clear, define and read the dynamic identifier F303.
read_dynamic_measurement(t) ==
    <<Step(t, "2C", <<"clear">>, "error", "nothing", "error"),
      Step(t, "2C", <<"define">>, "error", "nothing", "error"),
      Step(t, "22", <<"F303">>, "error", "all", "error")>>

Script(o) ==
    CASE o.name = "read_did"                 -> read_did(o.target, o.data)
      [] o.name = "read_dtcs"                -> read_dtcs(o.target)
      [] o.name = "read_fault_detail"        -> read_fault_detail(o.target, o.data)
      [] o.name = "read_info_memory"         -> read_info_memory(o.target)
      [] o.name = "read_ecu_list"            -> read_ecu_list
      [] o.name = "read_responding_ecu_list" -> read_responding_ecu_list
      [] o.name = "read_ecu_identification"  -> read_ecu_identification(o.target)
      [] o.name = "identify_vehicle"         -> identify_vehicle
      [] o.name = "clear_dtcs"               -> write_after_session(o.target, "14", <<"all">>)
      [] o.name = "ecu_reset"                -> write_after_session(o.target, "11", <<"01">>)
      [] o.name = "run_service_reset"        -> write_after_session(o.target, "31", <<"routine">>)
      [] o.name = "tester_present"           -> tester_present(o.target)
      [] o.name = "reset_cbs"                -> reset_cbs(o.target)
      [] o.name = "read_dynamic_measurement" -> read_dynamic_measurement(o.target)

-----------------------------------------------------------------------------
Init ==
    /\ LinkInit
    /\ op = Nothing
    /\ at = 0
    /\ fields = {}
    /\ verdicts = <<>>
    /\ returned = Nothing
    /\ calls = 0

AskStep(step) == Ask(step.target, step.sid, step.data)

\* The caller starts an operation.
Call(o) ==
    /\ op = Nothing
    /\ Free
    /\ calls < CallLimit
    /\ calls' = calls + 1
    /\ AskStep(Script(o)[1])
    /\ op' = o
    /\ at' = 1
    /\ fields' = {}
    /\ verdicts' = <<>>
    /\ returned' = Nothing

EchoesUnchecked(step, echoed) == TRUE

\* The part of the response that repeats the request is what the step expects.
Echoes(step, echoed) ==
    CASE step.compare = "all"     -> echoed = step.data
      [] step.compare = "first"   -> echoed[1] = step.data[1]
      [] step.compare = "nothing" -> TRUE

\* What the operation makes of an answer.
Verdict(step, a) ==
    CASE a.kind = "failed"                                   -> "error"
      [] a.kind = "negative"                                 -> step.refusal
      [] a.kind = "garbled"                                  -> "error"
      [] a.kind = "ok" /\ Echoes(step, a.cause.data)         -> "value"
      [] a.kind = "ok" /\ ~Echoes(step, a.cause.data)        -> step.mismatch

WithoutBlockKept(collected, script, block) == collected

\* unwrap_or: the failed ECU is left with an empty block.
WithoutBlock(collected, script, block) ==
    {f \in collected : script[f.at].block # block}

\* The steps of the script still to do after an error in a block.
AfterBlock(script, k) == {j \in k + 1 .. Len(script) : script[j].block # script[k].block}

Least(S) == CHOOSE j \in S : \A i \in S : j <= i

Finish(ok, collected) ==
    /\ TakeAnswer
    /\ op' = Nothing
    /\ at' = 0
    /\ fields' = {}
    /\ returned' = [op |-> op, ok |-> ok, fields |-> collected]

\* Goes on with the first of the steps still to do, if there is one.
GoOn(rest, collected) ==
    IF rest = {} THEN Finish(TRUE, collected)
    ELSE /\ AskStep(Script(op)[Least(rest)])
         /\ at' = Least(rest)
         /\ fields' = collected
         /\ UNCHANGED <<op, returned>>

\* The operation takes the answer to its step and does all it does before the
\* next request.
TakeStep ==
    /\ op # Nothing
    /\ answer # NoAnswer
    /\ UNCHANGED calls
    /\ LET script  == Script(op)
           step    == script[at]
           verdict == Verdict(step, answer)
           later   == at + 1 .. Len(script)
       IN  /\ verdicts' = Append(verdicts, [at |-> at, verdict |-> verdict, answer |-> answer])
           /\ \/ verdict = "value" /\ GoOn(later, fields \cup {[at |-> at, cause |-> answer.cause]})
              \/ verdict = "none" /\ GoOn(later, fields)
              \/ verdict = "error" /\ step.block = Nothing /\ Finish(FALSE, {})
              \/ verdict = "error" /\ step.block # Nothing
                   /\ GoOn(AfterBlock(script, at), WithoutBlock(fields, script, step.block))

\* An ECU serves a request, answers a read with too few bytes to decode (no
\* other response is decoded), refuses the request, or says nothing.
EcuHandles(t) ==
    /\ Handles(t)
    /\ \/ Replies(t, "ok", Nothing)
       \/ Head(inbox[t]).sid \in {"22", "19"} /\ Replies(t, "garbled", Nothing)
       \/ Replies(t, "negative", Nothing)
       \/ UNCHANGED outbox
    /\ UNCHANGED <<asked, open, answer, given_up, synced, clientVars>>

\* The bound on operations is reached.
Exhausted == op = Nothing /\ calls = CallLimit /\ UNCHANGED vars

Next ==
    \/ \E o \in Operations : Call(o)
    \/ TakeStep
    \/ (GiveUp \/ \E t \in Targets : Deliver(t)) /\ UNCHANGED clientVars
    \/ \E t \in Targets : EcuHandles(t)
    \/ Exhausted

Spec == Init /\ [][Next]_vars

-----------------------------------------------------------------------------
(***************************************************************************)
(* Properties.                                                             *)
(***************************************************************************)
StepOf(f) == Script(returned.op)[f.at]

\* A value returned under a DID that is compared was sent by the ECU asked, for
\* that DID, however many replies are late: a stale value can only be one of the
\* same DID (session.rs:20-28, client.rs:327-342, 447-469, 581-604).
ComparedFieldsAreTheirs ==
    returned # Nothing =>
        \A f \in returned.fields :
            /\ f.cause.target = StepOf(f).target
            /\ f.cause.sid = StepOf(f).sid
            /\ StepOf(f).compare = "all" => f.cause.data = StepOf(f).data

\* The block of an ECU in the vehicle identity is all or nothing: if it has a
\* value, every other DID of it was answered too, by a refusal or a mismatch
\* (client.rs:495-503).
BlocksAreWhole ==
    returned # Nothing /\ returned.ok =>
        \A f \in returned.fields : StepOf(f).block # Nothing =>
            \A k \in DOMAIN Script(returned.op) :
                Script(returned.op)[k].block = StepOf(f).block =>
                    \E i \in DOMAIN verdicts :
                        verdicts[i].at = k /\ verdicts[i].verdict \in {"value", "none"}

=============================================================================
