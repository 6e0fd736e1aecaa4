--------------------------- MODULE ServiceRunner ---------------------------
(***************************************************************************)
(* One service function run by crates/service: the grouping of catalog     *)
(* rows into phases (phase.rs), the preconditions (precondition.rs) and    *)
(* the Preset, Main, Reset cycle with its teardown (runner.rs), on an ECU  *)
(* that actuates a component.                                              *)
(*                                                                         *)
(* A job is modelled as one request, with the same service id in every     *)
(* phase, as IO control has: the job is an EDIABAS program of the ECU's    *)
(* description file, and the runner sees only whether it failed.           *)
(***************************************************************************)
EXTENDS EcuLink, Integers, FiniteSets

CONSTANTS
    Target,            \* the ECU that has the function
    FunctionId,        \* the function asked for
    Category,          \* its category
    Catalog,           \* the job's rows in the catalog
    Orders,            \* bound: the orders in which they are handed over
    Null,              \* a NULL of the catalog
    CycleLimit,        \* bound: runs of the function
    ChangeLimit,       \* bound: changes of the vehicle's state
    Droppable          \* whether callers drop the future

VARIABLES
    offered,           \* the invocations the caller made of the rows
    stage,             \* what the run awaits
    preconditions,     \* the outcomes so far
    phases,            \* the phases attempted
    failed,            \* a Preset or a Main failed
    report,            \* the report of the last run, or Nothing
    cycles,
    vehicle,           \* which conditions hold of the vehicle
    changes,
    component          \* what the ECU's component does

runVars == <<offered, stage, preconditions, phases, failed, report, cycles>>
worldVars == <<vehicle, changes, component>>
vars == <<linkVars, runVars, worldVars>>

-----------------------------------------------------------------------------
(***************************************************************************)
(* phase.rs: rows to invocations.                                          *)
(***************************************************************************)

\* Whatever is neither Preset nor Reset, NULL included, is Main.
from_catalog(text) == IF text \in {"Preset", "Reset"} THEN text ELSE "Main"

Rank(phase) == CASE phase = "Preset" -> 0 [] phase = "Main" -> 1 [] phase = "Reset" -> 2

\* The function and the phase a row belongs to.
GroupOf(row) == <<row.function, from_catalog(row.phase)>>

\* A row per argument: the positions of one function and phase differ (phase.rs:7).
\* The rows are handed over in some order.
ASSUME RunnerAssumption ==
    /\ Target \in Targets
    /\ Len(Catalog) \in Nat /\ DOMAIN Catalog = 1 .. Len(Catalog)
    /\ \A i \in DOMAIN Catalog : Catalog[i].function \in Int /\ Catalog[i].position \in Int
    /\ \A i, j \in DOMAIN Catalog :
          GroupOf(Catalog[i]) = GroupOf(Catalog[j]) /\ Catalog[i].position = Catalog[j].position
          => i = j
    /\ \A order \in Orders :
          /\ order \in [DOMAIN Catalog -> DOMAIN Catalog]
          /\ \A i, j \in DOMAIN Catalog : order[i] = order[j] => i = j

\* The order of the key: function, phase, position.
KeyLess(a, b) ==
    \/ a.function < b.function
    \/ /\ a.function = b.function
       /\ \/ Rank(from_catalog(a.phase)) < Rank(from_catalog(b.phase))
          \/ /\ Rank(from_catalog(a.phase)) = Rank(from_catalog(b.phase))
             /\ a.position < b.position

\* sort_by_key, which is stable: before row i stand the rows whose key is less, and
\* of those whose key is neither less nor greater the ones handed over before it.
Before(given, j, i) ==
    \/ KeyLess(given[j], given[i])
    \/ ~KeyLess(given[i], given[j]) /\ j < i

Ahead(given, i) == {j \in DOMAIN given : Before(given, j, i)}

Sorted(given) ==
    [n \in DOMAIN given |->
        given[CHOOSE i \in DOMAIN given : Cardinality(Ahead(given, i)) = n - 1]]

\* A NULL value keeps its position, as an empty argument.
ArgOf(row) == IF row.value = Null THEN "" ELSE row.value

\* A row begins an invocation, unless the one before it, which the last invocation
\* ends with, is of the same function and phase.
Beginnings(sorted) ==
    {n \in DOMAIN sorted : n = 1 \/ GroupOf(sorted[n - 1]) # GroupOf(sorted[n])}

\* The last row of the invocation that begins with row n.
EndOf(sorted, n) ==
    CHOOSE m \in n .. Len(sorted) :
        /\ \A k \in n + 1 .. m : k \notin Beginnings(sorted)
        /\ m = Len(sorted) \/ m + 1 \in Beginnings(sorted)

\* The invocations, in order, each at the place of its first row.
invocations(given) ==
    LET sorted == Sorted(given) IN
    [n \in Beginnings(sorted) |->
        [function |-> sorted[n].function,
         phase    |-> from_catalog(sorted[n].phase),
         args     |-> [k \in 1 .. EndOf(sorted, n) - n + 1 |-> ArgOf(sorted[n + k - 1])]]]

OfThePhase(invocation, phase) == invocation.phase = phase

\* Whether the closure of `pick` lets an invocation through.
Wanted(invocation, phase) == invocation.function = FunctionId /\ invocation.phase = phase

Matches(phase) == {n \in DOMAIN offered : Wanted(offered[n], phase)}

\* The first one.
Picked(phase) == offered[CHOOSE n \in Matches(phase) : \A m \in Matches(phase) : n <= m]

Defined(phase) == Matches(phase) # {}

-----------------------------------------------------------------------------
(***************************************************************************)
(* precondition.rs.  A condition is its name; the reader's value is the    *)
(* condition's truth, "nan", or an error.                                  *)
(***************************************************************************)
defaults_for(category) ==
    CASE category = "actuator_control" -> <<"terminal_on", "battery_above", "stationary">>
      [] category = "calibration"      -> <<"terminal_on", "battery_above">>
      [] category \in {"cbs_reset", "learned_value_reset", "statistic_reset"} -> <<"terminal_on">>

Conditions == {"terminal_on", "battery_above", "stationary"}

\* NaN differs from zero, and no comparison with it holds.
SatisfiedBy(condition, value) ==
    IF value = "nan" THEN condition = "terminal_on" ELSE value = "true"

VerdictOfAnyValue(condition, value) ==
    CASE value = "error"                                        -> "unverified"
      [] value # "error" /\ SatisfiedBy(condition, value)        -> "passed"
      [] value # "error" /\ ~SatisfiedBy(condition, value)       -> "failed"

Verdict(condition, value) ==
    CASE value \in {"error", "nan"}                             -> "unverified"
      [] value \in {"true", "false"} /\ SatisfiedBy(condition, value)  -> "passed"
      [] value \in {"true", "false"} /\ ~SatisfiedBy(condition, value) -> "failed"

Blocks(outcomes) == \E i \in DOMAIN outcomes : outcomes[i].verdict = "failed"

-----------------------------------------------------------------------------
(***************************************************************************)
(* runner.rs.                                                              *)
(***************************************************************************)
Init ==
    /\ LinkInit
    /\ offered \in {invocations([i \in DOMAIN Catalog |-> Catalog[order[i]]]) : order \in Orders}
    /\ stage = "idle"
    /\ preconditions = <<>>
    /\ phases = <<>>
    /\ failed = FALSE
    /\ report = Nothing
    /\ cycles = 0
    /\ vehicle \in SUBSET Conditions
    /\ changes = 0
    /\ component = "safe"

RunService ==
    /\ stage = "idle"
    /\ Free
    /\ cycles < CycleLimit
    /\ cycles' = cycles + 1
    /\ stage' = "checking"
    /\ preconditions' = <<>>
    /\ phases' = <<>>
    /\ failed' = FALSE
    /\ report' = Nothing
    /\ UNCHANGED <<offered, linkVars, worldVars>>

Phases == {"Preset", "Main", "Reset"}

Ran(attempted) == {attempted[i].phase : i \in DOMAIN attempted}

MainAfterFailure(attempted, bad) == {p \in Phases \ Ran(attempted) : Defined(p)}

ResetAfterSuccessOnly(attempted, bad) == {p \in Phases \ Ran(attempted) : Defined(p) /\ ~bad}

\* What the cycle has still to run: a failed Preset leaves out Main, and nothing
\* leaves out Reset.
StillToRun(attempted, bad) ==
    {p \in Phases \ Ran(attempted) : Defined(p) /\ (p = "Reset" \/ ~bad)}

\* The lifecycle order, whatever the order of the rows.
NextOf(left) == CHOOSE p \in left : \A q \in left : Rank(p) <= Rank(q)

TeardownOf(attempted) ==
    IF "Reset" \notin Ran(attempted) THEN "not_defined"
    ELSE IF \E i \in DOMAIN attempted : attempted[i].phase = "Reset" /\ attempted[i].error
         THEN "failed"
         ELSE "ran"

Report(attempted, bad, blocked) ==
    [phases |-> attempted, teardown |-> TeardownOf(attempted), blocked |-> blocked,
     succeeded |-> ~blocked /\ attempted # <<>> /\ ~bad /\ TeardownOf(attempted) # "failed"]

\* Runs the next phase, or returns the report.
GoOn(attempted, bad) ==
    LET left  == StillToRun(attempted, bad)
        phase == NextOf(left)
    IN
    \/ /\ left # {}
       /\ stage' = phase
       /\ Ask(Target, "2F", [phase |-> phase, args |-> Picked(phase).args])
       /\ UNCHANGED report
    \/ /\ left = {}
       /\ stage' = "idle"
       /\ report' = Report(attempted, bad, FALSE)
       /\ TakeAnswer

\* evaluate reads one quantity after another; `held` is history: the truth of
\* the condition when it was read.
Check ==
    /\ stage = "checking"
    /\ Len(preconditions) < Len(defaults_for(Category))
    /\ LET condition == defaults_for(Category)[Len(preconditions) + 1]
           held      == condition \in vehicle
       IN  \E value \in {IF held THEN "true" ELSE "false", "nan", "error"} :
             preconditions' = Append(preconditions,
                [condition |-> condition, verdict |-> Verdict(condition, value), held |-> held])
    /\ UNCHANGED <<offered, stage, phases, failed, report, cycles, linkVars, worldVars>>

\* Every precondition is checked: a resolved failure refuses the whole cycle.
Decide ==
    /\ stage = "checking"
    /\ Len(preconditions) = Len(defaults_for(Category))
    /\ \/ /\ Blocks(preconditions)
          /\ stage' = "idle"
          /\ report' = Report(<<>>, FALSE, TRUE)
          /\ UNCHANGED linkVars
       \/ /\ ~Blocks(preconditions)
          /\ GoOn(<<>>, FALSE)
    /\ UNCHANGED <<offered, preconditions, phases, failed, cycles, worldVars>>

TakePhase ==
    /\ stage \in Phases
    /\ answer # NoAnswer
    /\ LET error     == answer.kind # "ok"
           attempted == Append(phases, [phase |-> stage, error |-> error])
           bad       == failed \/ (error /\ stage # "Reset")
       IN  /\ phases' = attempted
           /\ failed' = bad
           /\ GoOn(attempted, bad)
    /\ UNCHANGED <<offered, preconditions, cycles, worldVars>>

\* The caller drops the future of run_service at one of its awaits.
Drop ==
    /\ Droppable
    /\ stage # "idle"
    /\ stage' = "idle"
    /\ Abandon
    /\ UNCHANGED <<offered, preconditions, phases, failed, report, cycles, worldVars>>

-----------------------------------------------------------------------------
(***************************************************************************)
(* The vehicle and the ECU.                                                *)
(***************************************************************************)
VehicleChanges ==
    /\ changes < ChangeLimit
    /\ changes' = changes + 1
    /\ \E condition \in Conditions :
         vehicle' = (vehicle \ {condition}) \cup ({condition} \ vehicle)
    /\ UNCHANGED <<linkVars, runVars, component>>

\* What the component does after a phase.
After(phase) ==
    CASE phase = "Preset" -> "prepared"
      [] phase = "Main"   -> "actuating"
      [] phase = "Reset"  -> "safe"

\* The ECU carries a phase out, whether or not its reply comes back.
EcuActs(t) ==
    /\ Handles(t)
    /\ Replies(t, "ok", Nothing) \/ UNCHANGED outbox
    /\ component' = After(Head(inbox[t]).data.phase)
    /\ UNCHANGED <<asked, open, answer, given_up, synced, runVars, vehicle, changes>>

EcuRefuses(t) ==
    /\ Handles(t)
    /\ Replies(t, "negative", Nothing) \/ UNCHANGED outbox
    /\ UNCHANGED <<asked, open, answer, given_up, synced, runVars, worldVars>>

Finished == stage = "idle" /\ cycles = CycleLimit /\ UNCHANGED vars

Next ==
    \/ RunService \/ Check \/ Decide \/ TakePhase \/ Drop \/ VehicleChanges
    \/ (GiveUp \/ \E t \in Targets : Deliver(t)) /\ UNCHANGED <<runVars, worldVars>>
    \/ \E t \in Targets : EcuActs(t) \/ EcuRefuses(t)
    \/ Finished

Spec == Init /\ [][Next]_vars

-----------------------------------------------------------------------------
(***************************************************************************)
(* Properties.                                                             *)
(***************************************************************************)
Running == stage \in Phases

\* A phase is sent only if no precondition resolved and failed, and a condition
\* that passed did hold when it was read: NaN passes nothing
\* (precondition.rs:109-113, 173-220, runner.rs:192-203).
SentOnlyIfAllowed ==
    Running => \A i \in DOMAIN preconditions :
        /\ preconditions[i].verdict # "failed"
        /\ preconditions[i].verdict = "passed" => preconditions[i].held

\* The rows of the catalog for one phase, and their values by position: what phase.rs:57-64
\* promises of an argument buffer, whatever the order of the rows.
Own(phase) ==
    {i \in DOMAIN Catalog : Catalog[i].function = FunctionId /\ from_catalog(Catalog[i].phase) = phase}

CatalogArgs(phase) ==
    LET Nth(n) == CHOOSE i \in Own(phase) :
            Cardinality({j \in Own(phase) : Catalog[j].position < Catalog[i].position}) = n - 1
    IN  [n \in 1 .. Cardinality(Own(phase)) |-> ArgOf(Catalog[Nth(n)])]

\* The ECU is sent the requested function's arguments only, all of them and in
\* position order, though one job carries several functions
\* (runner.rs:67-76, 92-96, phase.rs:57-102).
OnlyTheRequestedFunction ==
    \A i \in DOMAIN inbox[Target] :
        inbox[Target][i].data.args = CatalogArgs(inbox[Target][i].data.phase)

\* A component is actuated only after every Preset the function has was reported
\* done, in the same run (runner.rs:78-79, 101-111).
UnpreparedIsNotActuated ==
    stage = "Main" /\ Defined("Preset") =>
        \E i \in DOMAIN phases : phases[i].phase = "Preset" /\ ~phases[i].error

\* A report tells the truth about the component: a run that sent anything has run
\* the teardown the function defines, and if no request was ever given up, a
\* teardown that ran leaves nothing running
\* (runner.rs:80-84, 113-136).
TeardownIsHonest ==
    report # Nothing =>
        /\ report.phases # <<>> /\ Defined("Reset") => report.teardown # "not_defined"
        /\ /\ given_up = {}
           /\ report.teardown = "ran"
           => component = "safe"

=============================================================================
