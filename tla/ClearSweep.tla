----------------------------- MODULE ClearSweep -----------------------------
(***************************************************************************)
(* The verified whole-car clear of crates/client/src/scan.rs:              *)
(* `clear_faults_all_with_reset` over `clear_faults_verified`, with the    *)
(* ECUs' fault memories.  One sweep follows another over the same session, *)
(* so a sweep may meet the late replies of the one before.                 *)
(*                                                                         *)
(* The data of a request is history: it names the report it was sent for.  *)
(***************************************************************************)
EXTENDS EcuLink

CONSTANTS
    Gateway,           \* ZGW_ADDRESS
    Addresses,         \* the addresses to clear, a sequence that may repeat one
    Reset,             \* the caller asks for the resets
    Faults,            \* fault codes an ECU can store
    Relevant,          \* those that is_relevant keeps
    Faulty,            \* bound: the ECUs that ever store a fault
    FaultLimit,        \* bound: faults that occur
    SweepLimit         \* bound: sweeps

\* A sweep over no address at all returns no report (scan.rs:160-166).
ASSUME ClearAssumption == Addresses \in Seq(Targets) /\ Addresses # <<>>

VARIABLES
    stage,             \* what the sweep awaits
    reports,           \* the reports of the sweep so far
    to_reset,          \* the reports whose addresses it has yet to reset
    sweeps,
    memory,            \* the faults each ECU stores
    mode,              \* its diagnostic session
    clears,            \* history: clears each ECU has executed
    resets,            \* history: resets each ECU has executed
    occurred,
    erased             \* history: for each report, what its clear erased

sweepVars == <<stage, reports, to_reset, sweeps>>
ecuVars == <<memory, mode, clears, resets, occurred, erased>>
vars == <<linkVars, sweepVars, ecuVars>>

Init ==
    /\ LinkInit
    /\ stage = "idle"
    /\ reports = <<>>
    /\ to_reset = {}
    /\ sweeps = 0
    /\ memory \in {m \in [Targets -> SUBSET Faults] : \A t \in Targets \ Faulty : m[t] = {}}
    /\ mode = [t \in Targets |-> "default"]
    /\ clears = [t \in Targets |-> 0]
    /\ resets = [t \in Targets |-> 0]
    /\ occurred = 0
    /\ erased = {}

-----------------------------------------------------------------------------
(***************************************************************************)
(* The sweep.  Each action takes the answer its stage waited for and sends *)
(* the next request.                                                       *)
(***************************************************************************)

\* ClearReport.  `stored`, `clears`, `resets` and `suspect` are history: what the
\* ECU held and had executed when the report was begun, and whether it then owed
\* the reply of a request given up; `read_after` is how many clears it had
\* executed when it took the verifying read.
NewReport(t) ==
    [address |-> t, before |-> {}, after_relevant |-> {}, verified_clean |-> FALSE,
     reset_performed |-> "none", error |-> "none", stored |-> memory[t],
     clears |-> clears[t], resets |-> resets[t], read_after |-> 0, suspect |-> Late(t)]

Current == reports[Len(reports)]
SetCurrent(report) == reports' = [reports EXCEPT ![Len(reports)] = report]

AskFor(t, sid) == Ask(t, sid, <<sweeps', Len(reports')>>)

\* Reads the stored DTCs of the nth address.
BeginReport(n) ==
    /\ stage' = "pre_read"
    /\ AskFor(Addresses[n], "19")

StartSweep ==
    /\ stage = "idle"
    /\ Free
    /\ sweeps < SweepLimit
    /\ sweeps' = sweeps + 1
    /\ reports' = <<NewReport(Addresses[1])>>
    /\ BeginReport(1)
    /\ UNCHANGED <<to_reset, ecuVars>>

IsResetTarget(t) == t # Gateway

ClearedUnfiltered(done) == DOMAIN done

\* The reports without an error.
Cleared(done) == {i \in DOMAIN done : done[i].error = "none"}

\* Of each address but the gateway's the first of them.
ResetTargets(done) ==
    {i \in Cleared(done) :
        /\ IsResetTarget(done[i].address)
        /\ \A j \in Cleared(done) : done[j].address = done[i].address => i <= j}

\* They are reset in order.
First(list) == CHOOSE i \in list : \A j \in list : i <= j

EndSweep ==
    /\ stage' = "idle"
    /\ to_reset' = {}
    /\ TakeAnswer

\* ecu_reset of the first address of the list: the extended session first.
BeginReset(list) ==
    /\ stage' = "reset_enter"
    /\ to_reset' = list
    /\ AskFor(reports'[First(list)].address, "10")

\* The report is complete: on to the next address, to the resets, or to the end.
CompleteReport(report) ==
    LET n       == Len(reports)
        done    == [reports EXCEPT ![n] = report]
        targets == IF Reset THEN ResetTargets(done) ELSE {}
    IN  \/ /\ n < Len(Addresses)
           /\ reports' = Append(done, NewReport(Addresses[n + 1]))
           /\ BeginReport(n + 1)
           /\ UNCHANGED to_reset
        \/ /\ n = Len(Addresses)
           /\ reports' = done
           /\ IF targets = {} THEN EndSweep ELSE BeginReset(targets)

PreReadFailedIgnored(a) == FALSE

PreReadFailed(a) == a.kind # "ok"

\* Never clear blind: without the record of what is stored, no clear.
TakePreRead ==
    /\ stage = "pre_read" /\ answer # NoAnswer
    /\ UNCHANGED sweeps
    /\ \/ /\ PreReadFailed(answer)
          /\ CompleteReport([Current EXCEPT !.error = "pre_read"])
       \/ /\ ~PreReadFailed(answer)
          /\ SetCurrent([Current EXCEPT !.before = IF answer.kind = "ok" THEN answer.content.faults
                                                   ELSE {}])
          /\ stage' = "enter"
          /\ AskFor(Current.address, "10")
          /\ UNCHANGED to_reset

ClearRejectedIgnored(a) == FALSE

\* enter_session or the clear itself returned an error.
ClearRejected(a) == a.kind # "ok"

TakeEnter ==
    /\ stage = "enter" /\ answer # NoAnswer
    /\ UNCHANGED sweeps
    /\ \/ /\ ClearRejected(answer)
          /\ CompleteReport([Current EXCEPT !.error = "clear"])
       \/ /\ ~ClearRejected(answer)
          /\ stage' = "clear"
          /\ UNCHANGED <<reports, to_reset>>
          /\ AskFor(Current.address, "14")

TakeClear ==
    /\ stage = "clear" /\ answer # NoAnswer
    /\ UNCHANGED sweeps
    /\ \/ /\ ClearRejected(answer)
          /\ CompleteReport([Current EXCEPT !.error = "clear"])
       \/ /\ ~ClearRejected(answer)
          /\ stage' = "post_read"
          /\ UNCHANGED <<reports, to_reset>>
          /\ AskFor(Current.address, "19")

TakePostRead ==
    /\ stage = "post_read" /\ answer # NoAnswer
    /\ UNCHANGED sweeps
    /\ \/ /\ answer.kind # "ok"
          /\ CompleteReport([Current EXCEPT !.error = "post_read"])
       \/ /\ answer.kind = "ok"
          /\ LET after == answer.content.faults \cap Relevant IN
             CompleteReport([Current EXCEPT !.after_relevant = after,
                                            !.verified_clean = after = {},
                                            !.read_after = answer.content.clears])

TakeResetEnter ==
    /\ stage = "reset_enter" /\ answer # NoAnswer /\ answer.kind = "ok"
    /\ stage' = "reset"
    /\ UNCHANGED <<reports, to_reset, sweeps>>
    /\ AskFor(reports[First(to_reset)].address, "11")

\* The outcome goes into every report of the address.
TakeReset ==
    /\ stage \in {"reset_enter", "reset"} /\ answer # NoAnswer
    /\ stage = "reset_enter" => answer.kind # "ok"
    /\ UNCHANGED sweeps
    /\ reports' = [i \in DOMAIN reports |->
                     IF reports[i].address = reports[First(to_reset)].address
                     THEN [reports[i] EXCEPT !.reset_performed =
                              IF answer.kind = "ok" THEN "ok" ELSE "failed"]
                     ELSE reports[i]]
    /\ LET left == to_reset \ {First(to_reset)} IN
       IF left = {} THEN EndSweep ELSE BeginReset(left)

SweepStep ==
    /\ \/ TakePreRead \/ TakeEnter \/ TakeClear \/ TakePostRead
       \/ TakeResetEnter \/ TakeReset
    /\ UNCHANGED ecuVars

-----------------------------------------------------------------------------
(***************************************************************************)
(* The ECUs.  Whatever an ECU did, its reply may be missing.               *)
(***************************************************************************)
RequestOf(t) == Head(inbox[t])

ReplyOrSilence(t, kind, content) == Replies(t, kind, content) \/ UNCHANGED outbox

Did(t, sid) == Handles(t) /\ RequestOf(t).sid = sid

EcuReads(t) ==
    /\ Did(t, "19")
    /\ Replies(t, "ok", [faults |-> memory[t], clears |-> clears[t]])
    /\ UNCHANGED ecuVars

EcuEntersSession(t) ==
    /\ Did(t, "10")
    /\ ReplyOrSilence(t, "ok", Nothing)
    /\ mode' = [mode EXCEPT ![t] = "extended"]
    /\ UNCHANGED <<memory, clears, resets, occurred, erased>>

\* A clear needs the extended session.
EcuClears(t) ==
    /\ Did(t, "14")
    /\ mode[t] = "extended"
    /\ ReplyOrSilence(t, "ok", Nothing)
    /\ memory' = [memory EXCEPT ![t] = {}]
    /\ clears' = [clears EXCEPT ![t] = @ + 1]
    /\ erased' = erased \cup {[report |-> RequestOf(t).data, faults |-> memory[t]]}
    /\ UNCHANGED <<mode, resets, occurred>>

\* A reboot leaves the extended session and keeps the fault memory.
EcuResets(t) ==
    /\ Did(t, "11")
    /\ ReplyOrSilence(t, "ok", Nothing)
    /\ mode' = [mode EXCEPT ![t] = "default"]
    /\ resets' = [resets EXCEPT ![t] = @ + 1]
    /\ UNCHANGED <<memory, clears, occurred, erased>>

EcuRefuses(t) ==
    /\ Handles(t)
    /\ ReplyOrSilence(t, "negative", Nothing)
    /\ UNCHANGED ecuVars

FaultOccurs(t) ==
    /\ t \in Faulty
    /\ occurred < FaultLimit
    /\ occurred' = occurred + 1
    /\ \E f \in Faults \ memory[t] : memory' = [memory EXCEPT ![t] = @ \cup {f}]
    /\ UNCHANGED <<linkVars, sweepVars, mode, clears, resets, erased>>

EcuStep(t) ==
    /\ EcuReads(t) \/ EcuEntersSession(t) \/ EcuClears(t) \/ EcuResets(t) \/ EcuRefuses(t)
    /\ UNCHANGED <<asked, open, answer, given_up, synced, sweepVars>>

Finished == stage = "idle" /\ sweeps = SweepLimit /\ UNCHANGED vars

Next ==
    \/ StartSweep
    \/ SweepStep
    \/ (GiveUp \/ \E t \in Targets : Deliver(t)) /\ UNCHANGED <<sweepVars, ecuVars>>
    \/ \E t \in Targets : EcuStep(t) \/ FaultOccurs(t)
    \/ Finished

Spec == Init /\ [][Next]_vars

-----------------------------------------------------------------------------
(***************************************************************************)
(* Properties.                                                             *)
(***************************************************************************)
Number(i) == <<sweeps, i>>

\* A report claims no more than its ECU did: verified_clean rests on a read the
\* ECU took after it had executed a clear since the report was begun, and a
\* performed reset on a reset it executed since then, unless the ECU then owed
\* the reply of a request given up (scan.rs:46-49, 119-154, 191-206; the residual
\* of session.rs:20-28).
ReportsAreBacked ==
    \A i \in DOMAIN reports : LET report == reports[i] IN
        ~report.suspect =>
            /\ report.verified_clean => report.read_after > report.clears
            /\ report.reset_performed = "ok" => resets[report.address] > report.resets

\* What a clear erased and was stored before its report was begun is on record,
\* unless the ECU then owed the reply of a request given up
\* (scan.rs:41-43, 119-140).
ErasedIsRecordedUnlessLate ==
    \A e \in erased : \A i \in DOMAIN reports :
        e.report = Number(i) =>
            reports[i].suspect \/ e.faults \cap reports[i].stored \subseteq reports[i].before

\* An address is reset only if a clear of it succeeded, the gateway never, and no
\* reset is sent before the last address has its report (scan.rs:50-51, 165-190).
FailedClearIsNeverReset ==
    open # NoRequest /\ stage \in {"reset_enter", "reset"} =>
        /\ open.target # Gateway
        /\ Len(reports) = Len(Addresses)
        /\ \E i \in DOMAIN reports :
             reports[i].address = open.target /\ reports[i].error = "none"

=============================================================================
