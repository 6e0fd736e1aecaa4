------------------------ MODULE ServiceRunnerProofs ------------------------
(***************************************************************************)
(* The cycle of a service function: what is sent was allowed and is of     *)
(* the requested function, nothing is actuated unprepared, and the report  *)
(* of the teardown is true.                                                *)
(***************************************************************************)
EXTENDS ServiceRunner, EcuLinkProofs, FiniteSetTheorems, WellFoundedInduction

\* Between phases nothing is asked, and a phase asks for itself.
Waits ==
    /\ stage \in {"idle", "checking"} \union Phases
    /\ stage \notin Phases => open = NoRequest /\ answer = NoAnswer
    /\ stage \in Phases => /\ open # NoRequest => open.data.phase = stage
                           /\ answer # NoAnswer => answer.request.data.phase = stage

\* A phase that passed held, and no phase is run once one failed.
Allowed ==
    /\ IsSequence(preconditions)
    /\ \A i \in 1 .. Len(preconditions) :
          preconditions[i].verdict = "passed" => preconditions[i].held
    /\ Running => ~Blocks(preconditions)

\* The phases are run in order, and `failed` remembers every failure but that of
\* the teardown.
Lifecycle ==
    /\ IsSequence(phases)
    /\ stage = "checking" => phases = <<>> /\ failed = FALSE
    /\ failed \in BOOLEAN
    /\ stage \in Phases =>
          /\ "Reset" \notin Ran(phases)
          /\ stage = "Reset" => StillToRun(phases, failed) \subseteq {"Reset"}
          /\ stage = "Main" => ~failed /\ "Preset" \notin StillToRun(phases, failed)
          /\ ~failed => \A i \in 1 .. Len(phases) : ~phases[i].error

\* What the ECU reported done is what its component does, if no request was given up.
Carried ==
    given_up = {} =>
        /\ \A t \in Targets : \A i \in 1 .. Len(outbox[t]) :
              outbox[t][i].kind = "ok" => component = After(outbox[t][i].cause.data.phase)
        /\ answer # NoAnswer /\ answer.kind = "ok" => component = After(answer.cause.data.phase)

\* A report is that of a run that is over.
Reported == report # Nothing => stage = "idle"

IInv ==
    /\ LinkInv
    /\ Waits
    /\ Allowed
    /\ Lifecycle
    /\ Carried
    /\ Reported
    /\ TeardownIsHonest

-----------------------------------------------------------------------------
(***************************************************************************)
(* The phases.                                                             *)
(***************************************************************************)

\* The next phase is the first in the lifecycle of those left.
LEMMA NextIsFirst ==
    ASSUME NEW left \in SUBSET Phases, left # {}
    PROVE  /\ NextOf(left) \in left
           /\ NextOf(left) = "Reset" => left \subseteq {"Reset"}
           /\ NextOf(left) = "Main" => "Preset" \notin left
<1>1. Rank("Preset") = 0 /\ Rank("Main") = 1 /\ Rank("Reset") = 2
  BY DEF Rank
<1>2. \E p \in left : \A q \in left : Rank(p) <= Rank(q)
  <2>1. \A q \in left : q \in Phases
    OBVIOUS
  <2>2. CASE "Preset" \in left
    BY <1>1, <2>1, <2>2 DEF Phases
  <2>3. CASE "Preset" \notin left /\ "Main" \in left
    <3>1. \A q \in left : Rank("Main") <= Rank(q)
      BY <1>1, <2>1, <2>3 DEF Phases
    <3>2. QED
      BY <2>3, <3>1
  <2>4. CASE left \subseteq {"Reset"}
    <3>1. \A q \in left : q = "Reset"
      BY <2>4
    <3>2. "Reset" \in left /\ \A q \in left : Rank("Reset") <= Rank(q)
      BY <1>1, <3>1
    <3>3. QED
      BY <3>2
  <2>5. QED
    BY <2>1, <2>2, <2>3, <2>4 DEF Phases
<1>3. NextOf(left) \in left /\ \A q \in left : Rank(NextOf(left)) <= Rank(q)
  BY <1>2, Zenon DEF NextOf
<1>4. QED
  BY <1>1, <1>3 DEF Phases

\* One more phase was attempted.
LEMMA RanNow ==
    ASSUME NEW s, IsSequence(s), NEW x
    PROVE  /\ Ran(Append(s, x)) = Ran(s) \union {x.phase}
           /\ \A i \in DOMAIN Append(s, x) : Append(s, x)[i] = x \/ \E j \in DOMAIN s : Append(s, x)[i] = s[j]
<1> DEFINE r == Append(s, x)
<1>1. /\ IsSequence(r) /\ Len(r) = Len(s) + 1 /\ \A i \in 1 .. Len(s) : r[i] = s[i]
      /\ r[Len(s) + 1] = x
  BY Appended
<1>2. DOMAIN s = 1 .. Len(s) /\ DOMAIN r = 1 .. Len(r) /\ Len(s) \in Nat
  BY <1>1 DEF IsSequence
<1> HIDE DEF r
<1>3. \A i \in DOMAIN r : r[i] = x \/ \E j \in DOMAIN s : r[i] = s[j]
  BY <1>1, <1>2
<1>4. (\E i \in DOMAIN r : r[i] = x) /\ \A j \in DOMAIN s : \E i \in DOMAIN r : r[i] = s[j]
  BY <1>1, <1>2
<1>5. Ran(r) = Ran(s) \union {x.phase}
  BY <1>3, <1>4 DEF Ran
<1>6. QED
  BY <1>3, <1>5 DEF r

\* The invocations are what they were: so are the phases they define.
LEMMA SameOffer ==
    ASSUME offered' = offered
    PROVE  /\ \A p : Defined(p)' <=> Defined(p)
           /\ \A attempted, bad : StillToRun(attempted, bad)' = StillToRun(attempted, bad)
<1>1. \A p : Defined(p)' <=> Defined(p)
  BY DEF Defined, Matches
<1>2. QED
  BY <1>1 DEF StillToRun

-----------------------------------------------------------------------------
(***************************************************************************)
(* The steps.                                                              *)
(***************************************************************************)

\* The cycle goes on with its next phase, or reports what it attempted.
LEMMA GoesOn ==
    ASSUME IInv, open = NoRequest, stage # "idle",
           NEW attempted, IsSequence(attempted), NEW bad \in BOOLEAN,
           GoOn(attempted, bad), phases' = attempted, failed' = bad, offered' = offered,
           UNCHANGED <<preconditions, component>>, ~Blocks(preconditions),
           "Reset" \in Ran(attempted) => StillToRun(attempted, bad) = {},
           ~bad => \A i \in 1 .. Len(attempted) :
                      attempted[i].phase # "Reset" => ~attempted[i].error,
           given_up = {} /\ TeardownOf(attempted) = "ran" => component = "safe"
    PROVE  IInv'
<1> PICK left : left = StillToRun(attempted, bad)
  OBVIOUS
<1>0. /\ report = Nothing /\ LinkInv /\ Allowed /\ Carried /\ left \in SUBSET Phases
      /\ stage \in {"checking"} \union Phases
  BY DEF IInv, Reported, Waits, StillToRun
<1>1. CASE left = {}
  <2>1. stage' = "idle" /\ report' = Report(attempted, bad, FALSE) /\ TakeAnswer
    BY <1>1 DEF GoOn
  <2>2. LinkInv'
    BY <1>0, <2>1, LinkTakes
  <2>3. Waits' /\ Reported'
    BY <2>1 DEF Waits, Reported, TakeAnswer, Phases
  <2>4. Allowed'
    BY <1>0, <2>1 DEF Allowed, Running, Phases
  <2>5. Lifecycle'
    BY <2>1 DEF Lifecycle, Phases
  <2>6. Carried'
    BY <1>0, <2>1 DEF Carried, TakeAnswer
  <2>7. TeardownIsHonest'
    <3>1. report'.phases = attempted /\ report'.teardown = TeardownOf(attempted)
      BY <2>1 DEF Report
    <3>2. Defined("Reset") => "Reset" \in Ran(attempted)
      BY <1>1 DEF StillToRun, Phases
    <3>3. Defined("Reset")' => report'.teardown # "not_defined"
      BY <3>1, <3>2, SameOffer DEF TeardownOf
    <3>4. given_up' = {} /\ report'.teardown = "ran" => component' = "safe"
      BY <2>1, <3>1 DEF TakeAnswer
    <3>5. QED
      BY <3>3, <3>4 DEF TeardownIsHonest
  <2>8. QED
    BY <2>2, <2>3, <2>4, <2>5, <2>6, <2>7 DEF IInv
<1>2. CASE left # {}
  <2> PICK phase : phase = NextOf(left)
    OBVIOUS
  <2>1. /\ stage' = phase /\ report' = report
        /\ Ask(Target, "2F", [phase |-> phase, args |-> Picked(phase).args])
    BY <1>2 DEF GoOn
  <2>2. /\ phase \in left /\ phase \in Phases
        /\ phase = "Reset" => left \subseteq {"Reset"}
        /\ phase = "Main" => "Preset" \notin left
    BY <1>0, <1>2, NextIsFirst
  <2>3. LinkInv'
    BY <1>0, <2>1, LinkAsks
  <2>4. open'.data.phase = phase /\ answer' = NoAnswer /\ outbox' = outbox /\ given_up' = given_up
    BY <2>1 DEF Ask
  <2>5. Waits' /\ Reported'
    BY <1>0, <2>1, <2>2, <2>4 DEF Waits, Reported, Phases
  <2>6. Allowed'
    <3>1. Blocks(preconditions)' = Blocks(preconditions)
      BY DEF Blocks
    <3>2. QED
      BY <1>0, <3>1 DEF Allowed
  <2>7. Lifecycle'
    <3>1. "Reset" \notin Ran(attempted)
      BY <1>2
    <3>2. ~bad => \A i \in 1 .. Len(attempted) : ~attempted[i].error
      <4>1. IsSequence(attempted)
        OBVIOUS
      <4>2. \A i \in 1 .. Len(attempted) : attempted[i].phase # "Reset"
        BY <3>1, <4>1 DEF Ran, IsSequence
      <4>3. QED
        BY <4>2
    <3>3. phase = "Main" => ~bad
      BY <2>2 DEF StillToRun
    <3>4. StillToRun(phases, failed)' = left
      BY SameOffer
    <3>5. Ran(phases)' = Ran(attempted)
      OBVIOUS
    <3>6. QED
      BY <2>1, <2>2, <3>1, <3>2, <3>3, <3>4, <3>5 DEF Lifecycle, Phases
  <2>8. Carried'
    BY <1>0, <2>4 DEF Carried
  <2>9. TeardownIsHonest'
    BY <1>0, <2>1 DEF TeardownIsHonest
  <2>10. QED
    BY <2>3, <2>5, <2>6, <2>7, <2>8, <2>9 DEF IInv
<1>3. QED
  BY <1>1, <1>2

-----------------------------------------------------------------------------

\* The run begins.
LEMMA Begins ==
    ASSUME IInv, RunService
    PROVE  IInv'
<1>1. /\ stage = "idle" /\ stage' = "checking" /\ preconditions' = <<>> /\ phases' = <<>>
      /\ failed' = FALSE /\ report' = Nothing
      /\ UNCHANGED linkVars /\ UNCHANGED worldVars /\ offered' = offered
  BY DEF RunService
<1>2. /\ open' = open /\ answer' = answer /\ outbox' = outbox /\ given_up' = given_up
      /\ component' = component
  BY <1>1 DEF linkVars, worldVars
<1>3. IsSequence(<<>>)
  <2>1. <<>> \in Seq({})
    BY EmptySeq
  <2>2. QED
    BY <2>1, Listed
<1>4. LinkInv'
  BY <1>1, LinkStutters DEF IInv
<1>5. Waits'
  BY <1>1, <1>2 DEF IInv, Waits, Phases
<1>6. Allowed'
  <2>1. Len(<<>>) = 0
    OBVIOUS
  <2>2. QED
    BY <1>1, <1>3, <2>1 DEF Allowed, Running, Phases
<1>7. Lifecycle'
  BY <1>1, <1>3 DEF Lifecycle, Phases
<1>8. Carried'
  BY <1>2 DEF IInv, Carried
<1>9. Reported' /\ TeardownIsHonest'
  BY <1>1 DEF Reported, TeardownIsHonest
<1>10. QED
  BY <1>4, <1>5, <1>6, <1>7, <1>8, <1>9 DEF IInv

\* A step that leaves the run alone keeps what it knows of itself.
LEMMA RunUnmoved ==
    ASSUME IInv, UNCHANGED runVars
    PROVE  Allowed' /\ Lifecycle' /\ Reported'
<1>1. /\ offered' = offered /\ stage' = stage /\ preconditions' = preconditions /\ phases' = phases
      /\ failed' = failed /\ report' = report
  BY DEF runVars
<1>2. Allowed'
  BY <1>1 DEF IInv, Allowed, Running, Blocks
<1>3. Lifecycle'
  <2>1. StillToRun(phases, failed)' = StillToRun(phases, failed)
    BY <1>1, SameOffer
  <2>2. Ran(phases)' = Ran(phases)
    BY <1>1
  <2>3. QED
    BY <1>1, <2>1, <2>2 DEF IInv, Lifecycle
<1>4. QED
  BY <1>1, <1>2, <1>3 DEF IInv, Reported

\* The report stands while the run that made it is over and nothing is sent.
LEMMA ReportStands ==
    ASSUME IInv, offered' = offered, report' = report, given_up \subseteq given_up',
           report # Nothing /\ given_up = {} => component' = component
    PROVE  TeardownIsHonest'
<1>1. Defined("Reset")' <=> Defined("Reset")
  BY SameOffer
<1>2. QED
  BY <1>1 DEF IInv, TeardownIsHonest

\* A precondition is read.
LEMMA Checks ==
    ASSUME IInv, Check
    PROVE  IInv'
<1> PICK condition : condition = defaults_for(Category)[Len(preconditions) + 1]
  OBVIOUS
<1> PICK held : held = (condition \in vehicle)
  OBVIOUS
<1>1. PICK value \in {IF held THEN "true" ELSE "false", "nan", "error"} :
         preconditions' = Append(preconditions,
            [condition |-> condition, verdict |-> Verdict(condition, value), held |-> held])
  BY DEF Check
<1>2. /\ stage = "checking" /\ UNCHANGED <<offered, stage, phases, failed, report, cycles>>
      /\ UNCHANGED linkVars /\ UNCHANGED worldVars
  BY DEF Check
<1>3. Verdict(condition, value) = "passed" => held
  <2>1. CASE value \in {"nan", "error"}
    BY <2>1 DEF Verdict
  <2>2. CASE value = "false"
    BY <2>2 DEF Verdict, SatisfiedBy
  <2>3. CASE value = "true"
    BY <1>1, <2>3
  <2>4. QED
    BY <1>1, <2>1, <2>2, <2>3
<1>4. Allowed'
  <2> PICK new : new = [condition |-> condition, verdict |-> Verdict(condition, value),
                        held |-> held]
    OBVIOUS
  <2>1. preconditions' = Append(preconditions, new) /\ IsSequence(preconditions)
    BY <1>1 DEF IInv, Allowed
  <2>2. /\ IsSequence(preconditions') /\ Len(preconditions') = Len(preconditions) + 1
        /\ \A i \in 1 .. Len(preconditions) : preconditions'[i] = preconditions[i]
        /\ preconditions'[Len(preconditions) + 1] = new /\ Len(preconditions) \in Nat
    BY <2>1, Appended DEF IsSequence
  <2>3. new.verdict = "passed" => new.held
    BY <1>3
  <2>4. ASSUME NEW i \in 1 .. Len(preconditions'), preconditions'[i].verdict = "passed"
        PROVE  preconditions'[i].held
    <3>1. CASE i \in 1 .. Len(preconditions)
      BY <2>2, <2>4, <3>1 DEF IInv, Allowed
    <3>2. CASE i = Len(preconditions) + 1
      BY <2>2, <2>3, <2>4, <3>2
    <3>3. QED
      BY <2>2, <3>1, <3>2
  <2>5. ~Running'
    BY <1>2 DEF Running, Phases
  <2>6. QED
    BY <2>2, <2>4, <2>5 DEF Allowed
<1>5. LinkInv'
  BY <1>2, LinkStutters DEF IInv
<1>6. Waits' /\ Carried' /\ Reported'
  BY <1>2 DEF IInv, Waits, Carried, Reported, linkVars, worldVars
<1>7. Lifecycle'
  BY <1>2 DEF IInv, Lifecycle, Phases
<1>8. TeardownIsHonest'
  BY <1>2, ReportStands DEF linkVars, worldVars
<1>9. QED
  BY <1>4, <1>5, <1>6, <1>7, <1>8 DEF IInv

\* The cycle is refused, or begins.
LEMMA Decides ==
    ASSUME IInv, Decide
    PROVE  IInv'
<1>1. /\ stage = "checking" /\ UNCHANGED <<offered, preconditions, phases, failed, cycles>>
      /\ UNCHANGED worldVars /\ component' = component
  BY DEF Decide, worldVars
<1>2. /\ LinkInv /\ phases = <<>> /\ failed = FALSE /\ open = NoRequest /\ answer = NoAnswer
      /\ IsSequence(phases) /\ Ran(phases) = {} /\ Len(phases) = 0
  BY <1>1 DEF IInv, Waits, Lifecycle, Phases, Ran
<1>3. CASE /\ stage' = "idle" /\ report' = Report(<<>>, FALSE, TRUE) /\ UNCHANGED linkVars
  <2>1. LinkInv'
    BY <1>2, <1>3, LinkStutters
  <2>2. Waits' /\ Carried' /\ Reported'
    BY <1>1, <1>2, <1>3 DEF IInv, Waits, Carried, Reported, linkVars, Phases
  <2>3. Allowed'
    BY <1>1, <1>3 DEF IInv, Allowed, Running, Phases
  <2>4. Lifecycle'
    BY <1>1, <1>2, <1>3 DEF IInv, Lifecycle, Phases
  <2>5. TeardownIsHonest'
    <3>1. report'.phases = <<>> /\ report'.teardown = "not_defined"
      BY <1>2, <1>3 DEF Report, TeardownOf
    <3>2. QED
      BY <3>1 DEF TeardownIsHonest
  <2>6. QED
    BY <2>1, <2>2, <2>3, <2>4, <2>5 DEF IInv
<1>4. CASE ~Blocks(preconditions) /\ GoOn(<<>>, FALSE)
  <2> PICK attempted : attempted = phases
    OBVIOUS
  <2>1. TeardownOf(attempted) # "ran" /\ "Reset" \notin Ran(attempted)
    BY <1>2 DEF TeardownOf
  <2>2. IsSequence(attempted) /\ Len(attempted) = 0
    BY <1>2
  <2>3. /\ GoOn(attempted, FALSE) /\ phases' = attempted /\ failed' = FALSE /\ offered' = offered
        /\ UNCHANGED <<preconditions, component>> /\ ~Blocks(preconditions)
        /\ open = NoRequest /\ stage # "idle"
    BY <1>1, <1>2, <1>4
  <2>4. \A i \in 1 .. Len(attempted) : attempted[i].phase # "Reset" => ~attempted[i].error
    BY <2>2
  <2>5. FALSE \in BOOLEAN
    OBVIOUS
  <2>6. QED
    BY <2>1, <2>2, <2>3, <2>4, <2>5, GoesOn
<1>5. QED
  BY <1>3, <1>4 DEF Decide

-----------------------------------------------------------------------------

\* A phase is over.
LEMMA TakesPhase ==
    ASSUME IInv, TakePhase
    PROVE  IInv'
<1> PICK error \in BOOLEAN : error = (answer.kind # "ok")
  OBVIOUS
<1> PICK new : new = [phase |-> stage, error |-> error]
  OBVIOUS
<1> PICK attempted : attempted = Append(phases, new)
  OBVIOUS
<1> PICK bad \in BOOLEAN : bad = (failed \/ (error /\ stage # "Reset"))
  OBVIOUS
<1>1. /\ stage \in Phases /\ stage # "idle" /\ answer # NoAnswer /\ phases' = attempted
      /\ failed' = bad /\ GoOn(attempted, bad) /\ offered' = offered
      /\ UNCHANGED <<preconditions, component>>
  <2>1. stage \in Phases /\ answer # NoAnswer
    BY DEF TakePhase
  <2>2. offered' = offered /\ UNCHANGED <<preconditions, component>>
    BY DEF TakePhase, worldVars
  <2>3. phases' = attempted /\ failed' = bad /\ GoOn(attempted, bad)
    BY Zenon DEF TakePhase
  <2>4. QED
    BY <2>1, <2>2, <2>3 DEF Phases
<1>2. /\ LinkInv /\ open = NoRequest /\ answer.request.data.phase = stage
      /\ IsSequence(phases) /\ failed \in BOOLEAN /\ "Reset" \notin Ran(phases)
      /\ stage = "Reset" => StillToRun(phases, failed) \subseteq {"Reset"}
      /\ ~failed => \A i \in 1 .. Len(phases) : ~phases[i].error
      /\ ~Blocks(preconditions) /\ Carried
  BY <1>1 DEF IInv, LinkInv, OpenIsLast, Waits, Lifecycle, Allowed, Running
<1>3. /\ IsSequence(attempted) /\ Ran(attempted) = Ran(phases) \union {stage}
      /\ \A i \in DOMAIN attempted : attempted[i] = new \/ \E j \in DOMAIN phases : attempted[i] = phases[j]
      /\ DOMAIN attempted = 1 .. Len(attempted) /\ DOMAIN phases = 1 .. Len(phases)
      /\ attempted[Len(phases) + 1] = new /\ Len(phases) + 1 \in 1 .. Len(attempted)
  <2>1. IsSequence(attempted) /\ Len(attempted) = Len(phases) + 1 /\ attempted[Len(phases) + 1] = new
    BY <1>2, Appended
  <2>2. Ran(attempted) = Ran(phases) \union {new.phase}
    BY <1>2, RanNow
  <2>3. \A i \in DOMAIN attempted : attempted[i] = new \/ \E j \in DOMAIN phases : attempted[i] = phases[j]
    BY <1>2, RanNow
  <2>4. DOMAIN attempted = 1 .. Len(attempted) /\ DOMAIN phases = 1 .. Len(phases) /\ Len(phases) \in Nat
    BY <1>2, <2>1 DEF IsSequence
  <2>5. QED
    BY <2>1, <2>2, <2>3, <2>4
<1>4. ASSUME "Reset" \in Ran(attempted)
      PROVE  StillToRun(attempted, bad) = {}
  <2>1. stage = "Reset" /\ bad = failed
    BY <1>2, <1>3, <1>4
  <2>2. \A p \in StillToRun(attempted, bad) : p \in StillToRun(phases, failed) /\ p # "Reset"
    BY <1>3, <2>1 DEF StillToRun
  <2>3. QED
    BY <1>2, <2>1, <2>2
<1>5. ASSUME ~bad, NEW i \in 1 .. Len(attempted), attempted[i].phase # "Reset"
      PROVE  ~attempted[i].error
  <2>1. CASE attempted[i] = new
    <3>1. new.phase = stage /\ new.error = error
      OBVIOUS
    <3>2. stage # "Reset"
      BY <1>5, <2>1, <3>1
    <3>3. ~error
      BY <1>5, <3>2
    <3>4. QED
      BY <2>1, <3>1, <3>3
  <2>2. CASE attempted[i] # new
    BY <1>2, <1>3, <1>5, <2>2
  <2>3. QED
    BY <2>1, <2>2
<1>6. ASSUME given_up = {}, TeardownOf(attempted) = "ran"
      PROVE  component = "safe"
  <2>1. "Reset" \in Ran(attempted) /\ ~\E i \in DOMAIN attempted : attempted[i].phase = "Reset" /\ attempted[i].error
    BY <1>6 DEF TeardownOf
  <2>2. stage = "Reset"
    BY <1>2, <1>3, <2>1
  <2>3. new.phase = "Reset" /\ ~new.error
    BY <1>3, <2>1, <2>2
  <2>4. answer.kind = "ok"
    BY <2>3
  <2>5. answer.cause = answer.request
    BY <1>1, <1>2, <1>6, <2>4 DEF LinkInv, StaleOnlySinceGivenUp, Late
  <2>6. component = After("Reset")
    BY <1>1, <1>2, <1>6, <2>2, <2>4, <2>5 DEF Carried
  <2>7. QED
    BY <2>6 DEF After
<1>7. stage # "idle" /\ IInv /\ IsSequence(attempted) /\ bad \in BOOLEAN
  BY <1>1, <1>3
<1>8. QED
  BY <1>1, <1>2, <1>4, <1>5, <1>6, <1>7, GoesOn

\* The caller drops the run.
LEMMA Drops ==
    ASSUME IInv, Drop
    PROVE  IInv'
<1>1. /\ stage # "idle" /\ stage' = "idle" /\ Abandon
      /\ UNCHANGED <<offered, preconditions, phases, failed, report, cycles>> /\ component' = component
  BY DEF Drop, worldVars
<1>2. report = Nothing /\ report' = Nothing
  BY <1>1 DEF IInv, Reported
<1>3. LinkInv'
  BY <1>1, LinkAbandons DEF IInv
<1>4. Waits' /\ Reported' /\ TeardownIsHonest'
  BY <1>1, <1>2 DEF Waits, Reported, TeardownIsHonest, Abandon, Phases
<1>5. Allowed' /\ Lifecycle'
  BY <1>1 DEF IInv, Allowed, Lifecycle, Running, Phases
<1>6. Carried'
  BY <1>1 DEF IInv, Carried, Abandon
<1>7. QED
  BY <1>3, <1>4, <1>5, <1>6 DEF IInv

\* The state of the vehicle changes.
LEMMA Changes ==
    ASSUME IInv, VehicleChanges
    PROVE  IInv'
<1>1. UNCHANGED linkVars /\ UNCHANGED runVars /\ component' = component
  BY DEF VehicleChanges
<1>2. LinkInv'
  BY <1>1, LinkStutters DEF IInv
<1>3. Waits' /\ Carried'
  BY <1>1 DEF IInv, Waits, Carried, linkVars, runVars
<1>4. TeardownIsHonest'
  BY <1>1, ReportStands DEF runVars, linkVars
<1>5. QED
  BY <1>1, <1>2, <1>3, <1>4, RunUnmoved DEF IInv

\* The request fails.
LEMMA Fails ==
    ASSUME IInv, GiveUp, UNCHANGED <<runVars, worldVars>>
    PROVE  IInv'
<1>1. /\ open # NoRequest /\ open' = NoRequest /\ given_up' = given_up \union {open}
      /\ answer' = [kind |-> "failed", request |-> open, cause |-> open, content |-> Nothing]
      /\ component' = component /\ stage' = stage /\ UNCHANGED runVars
  BY DEF GiveUp, runVars, worldVars
<1>2. LinkInv'
  BY LinkGivesUp DEF IInv
<1>3. Waits' /\ Carried'
  BY <1>1 DEF IInv, Waits, Carried
<1>4. TeardownIsHonest'
  BY <1>1, ReportStands DEF runVars
<1>5. QED
  BY <1>1, <1>2, <1>3, <1>4, RunUnmoved DEF IInv

\* A reply arrives.
LEMMA Arrives ==
    ASSUME IInv, NEW t \in Targets, Deliver(t), UNCHANGED <<runVars, worldVars>>
    PROVE  IInv'
<1>0. /\ LinkInv /\ Waits /\ Carried /\ UNCHANGED runVars /\ stage' = stage
      /\ component' = component /\ given_up' = given_up
  BY DEF IInv, runVars, worldVars, Deliver
<1>1. /\ 1 \in 1 .. Len(outbox[t]) /\ Head(outbox[t]) = outbox[t][1]
      /\ \A u \in Targets : \A i \in 1 .. Len(outbox'[u]) :
            \E j \in 1 .. Len(outbox[u]) : outbox'[u][i] = outbox[u][j]
  BY <1>0, Arrival
<1>2. \/ /\ open # NoRequest /\ open' = NoRequest
         /\ answer' = [kind |-> outbox[t][1].kind, request |-> open, cause |-> outbox[t][1].cause,
                       content |-> outbox[t][1].content]
      \/ open' = open /\ answer' = answer
  BY <1>1 DEF Deliver, Claims
<1>3. Waits'
  BY <1>0, <1>2 DEF Waits
<1>4. Carried'
  <2>1. SUFFICES ASSUME given_up = {}
                 PROVE  /\ \A u \in Targets : \A i \in 1 .. Len(outbox'[u]) :
                              outbox'[u][i].kind = "ok" =>
                                 component = After(outbox'[u][i].cause.data.phase)
                        /\ answer' # NoAnswer /\ answer'.kind = "ok" =>
                              component = After(answer'.cause.data.phase)
    BY <1>0 DEF Carried
  <2>2. \A u \in Targets : \A i \in 1 .. Len(outbox[u]) :
           outbox[u][i].kind = "ok" => component = After(outbox[u][i].cause.data.phase)
    BY <1>0, <2>1 DEF Carried
  <2>3. \A u \in Targets : \A i \in 1 .. Len(outbox'[u]) :
           outbox'[u][i].kind = "ok" => component = After(outbox'[u][i].cause.data.phase)
    <3>1. SUFFICES ASSUME NEW u \in Targets, NEW i \in 1 .. Len(outbox'[u]),
                          outbox'[u][i].kind = "ok"
                   PROVE  component = After(outbox'[u][i].cause.data.phase)
      OBVIOUS
    <3>2. PICK j \in 1 .. Len(outbox[u]) : outbox'[u][i] = outbox[u][j]
      BY <1>1
    <3>3. QED
      BY <2>2, <3>1, <3>2
  <2>4. answer' # NoAnswer /\ answer'.kind = "ok" => component = After(answer'.cause.data.phase)
    BY <1>0, <1>1, <1>2, <2>1, <2>2 DEF Carried
  <2>5. QED
    BY <2>3, <2>4
<1>5. LinkInv' /\ TeardownIsHonest'
  BY <1>0, LinkDelivers, ReportStands DEF runVars
<1>6. QED
  BY <1>0, <1>3, <1>4, <1>5, RunUnmoved DEF IInv

\* The ECU handles a request: if none was given up, it is the one that waits, and
\* its reply is the only one on its way.
LEMMA Serves ==
    ASSUME IInv, NEW t \in Targets, EcuActs(t) \/ EcuRefuses(t)
    PROVE  IInv'
<1> PICK q : q = Head(inbox[t])
  OBVIOUS
<1>0. /\ LinkInv /\ Waits /\ Carried /\ UNCHANGED runVars /\ stage' = stage /\ Handles(t)
      /\ UNCHANGED <<asked, open, answer, given_up, synced>>
  BY DEF IInv, runVars, EcuActs, EcuRefuses
<1>1. PICK kind \in {"ok", "negative"} :
         /\ Replies(t, kind, Nothing) \/ outbox' = outbox
         /\ kind = "ok" => component' = After(q.data.phase)
         /\ kind = "negative" => component' = component
  BY DEF EcuActs, EcuRefuses, worldVars
<1>2. LinkInv'
  BY <1>0, <1>1, LinkHandles
<1>3. Waits'
  BY <1>0 DEF Waits
<1>4. given_up = {} => /\ open # NoRequest /\ answer = NoAnswer
                       /\ \A u \in Targets : Len(outbox[u]) = 0
  <2>1. inbox[t] # <<>> /\ IsSequence(inbox[t])
    BY <1>0 DEF Handles, LinkInv, Queues
  <2>2. 1 \in 1 .. Len(inbox[t])
    BY <2>1, Taken DEF IsSequence
  <2>3. QED
    BY <1>0, <2>1, <2>2, NothingElse DEF LinkInv, OpenIsLast
<1>5. Carried'
  <2>1. SUFFICES ASSUME given_up = {}
                 PROVE  \A u \in Targets : \A i \in 1 .. Len(outbox'[u]) :
                           outbox'[u][i].kind = "ok" =>
                              component' = After(outbox'[u][i].cause.data.phase)
    BY <1>0, <1>4 DEF Carried
  <2>2. CASE outbox' = outbox
    BY <1>4, <2>1, <2>2
  <2>3. CASE Replies(t, kind, Nothing)
    <3>1. ASSUME NEW u \in Targets, NEW i \in 1 .. Len(outbox'[u])
          PROVE  outbox'[u][i].kind = kind /\ outbox'[u][i].cause = q
      <4>1. ~\E j \in 1 .. Len(outbox[u]) : TRUE
        BY <1>4, <2>1
      <4>2. QED
        BY <1>0, <2>3, <4>1, Sending
    <3>2. QED
      BY <1>1, <3>1
  <2>4. QED
    BY <1>1, <2>2, <2>3
<1>6. TeardownIsHonest'
  <2>1. report # Nothing => open = NoRequest
    BY <1>0 DEF IInv, Reported, Waits, Phases
  <2>2. QED
    BY <1>0, <1>4, <2>1, ReportStands DEF runVars
<1>7. QED
  BY <1>0, <1>2, <1>3, <1>5, <1>6, RunUnmoved DEF IInv
-----------------------------------------------------------------------------
(***************************************************************************)
(* The rows: sorted, they stand by function and phase in the order of      *)
(* their positions, so that an invocation is all of a phase.               *)
(***************************************************************************)

\* Rows, numbered from 1.
Rows(s) ==
    /\ Len(s) \in Nat /\ DOMAIN s = 1 .. Len(s)
    /\ \A i \in DOMAIN s : s[i].function \in Int /\ s[i].position \in Int

\* A set of numbers that is not empty has a least one.
LEMMA Least ==
    ASSUME NEW T, T \subseteq Nat, T # {}
    PROVE  \E n \in T : \A m \in T : n <= m
<1> DEFINE R == OpToRel(<, Nat)
<1>1. IsWellFoundedOn(R, Nat)
  BY NatLessThanWellFounded
<1>2. \A x, y \in Nat : <<x, y>> \in R <=> x < y
  BY DEF OpToRel
<1> HIDE DEF R
<1>3. PICK n \in T : \A m \in T : ~(<<m, n>> \in R)
  BY <1>1, WFMin
<1>4. ASSUME NEW m \in T
      PROVE  n <= m
  <2>1. n \in Nat /\ m \in Nat
    OBVIOUS
  <2>2. ~(m < n)
    BY <1>2, <1>3, <2>1
  <2>3. QED
    BY <2>1, <2>2
<1>5. QED
  BY <1>4

\* A set that is ordered by who stands ahead of whom: as many stand ahead of one as
\* its place says, and there is one at every place.
LEMMA Places ==
    ASSUME NEW S, IsFiniteSet(S), NEW A \in [S -> SUBSET S],
           \A x \in S : x \notin A[x],
           \A x, y \in S : y \in A[x] => A[y] \subseteq A[x],
           \A x, y \in S : x # y => x \in A[y] \/ y \in A[x]
    PROVE  /\ \A x, y \in S : Cardinality(A[x]) = Cardinality(A[y]) => x = y
           /\ \A x, y \in S : Cardinality(A[x]) < Cardinality(A[y]) => x \in A[y]
           /\ \A n \in 1 .. Cardinality(S) : \E x \in S : Cardinality(A[x]) = n - 1
<1> DEFINE c == [x \in S |-> Cardinality(A[x]) + 1]
<1> DEFINE N == Cardinality(S)
<1>0. N \in Nat
  BY FS_CardinalityType
<1>1. ASSUME NEW x \in S
      PROVE  IsFiniteSet(A[x]) /\ Cardinality(A[x]) \in Nat /\ Cardinality(A[x]) < N
  <2>1. A[x] \in SUBSET S /\ A[x] # S
    OBVIOUS
  <2>2. IsFiniteSet(A[x]) /\ Cardinality(A[x]) <= N /\ Cardinality(A[x]) # N
    BY <2>1, FS_Subset
  <2>3. Cardinality(A[x]) \in Nat
    BY <2>2, FS_CardinalityType
  <2>4. QED
    BY <1>0, <2>2, <2>3
<1>2. ASSUME NEW x \in S, NEW y \in S, y \in A[x]
      PROVE  Cardinality(A[y]) < Cardinality(A[x])
  <2>1. A[y] \in SUBSET A[x] /\ A[y] # A[x]
    BY <1>2
  <2>2. Cardinality(A[y]) <= Cardinality(A[x]) /\ Cardinality(A[y]) # Cardinality(A[x])
    BY <1>1, <2>1, FS_Subset
  <2>3. QED
    BY <1>1, <2>2
<1>3. \A x, y \in S : Cardinality(A[x]) = Cardinality(A[y]) => x = y
  <2> SUFFICES ASSUME NEW x \in S, NEW y \in S, Cardinality(A[x]) = Cardinality(A[y]), x # y
               PROVE  FALSE
    OBVIOUS
  <2>1. x \in A[y] \/ y \in A[x]
    OBVIOUS
  <2>2. Cardinality(A[x]) < Cardinality(A[y]) \/ Cardinality(A[y]) < Cardinality(A[x])
    BY <1>2, <2>1
  <2>3. Cardinality(A[x]) \in Nat
    BY <1>1
  <2>4. QED
    BY <2>2, <2>3
<1>4. \A x, y \in S : Cardinality(A[x]) < Cardinality(A[y]) => x \in A[y]
  <2> SUFFICES ASSUME NEW x \in S, NEW y \in S, Cardinality(A[x]) < Cardinality(A[y]), x \notin A[y]
               PROVE  FALSE
    OBVIOUS
  <2>1. Cardinality(A[x]) \in Nat /\ Cardinality(A[y]) \in Nat
    BY <1>1
  <2>2. x # y
    BY <2>1
  <2>3. y \in A[x]
    BY <2>2
  <2>4. Cardinality(A[y]) < Cardinality(A[x])
    BY <1>2, <2>3
  <2>5. QED
    BY <2>1, <2>4
<1>5. c \in Injection(S, 1 .. N)
  <2>1. \A x \in S : c[x] = Cardinality(A[x]) + 1
    OBVIOUS
  <2>2. ASSUME NEW x \in S
        PROVE  Cardinality(A[x]) + 1 \in 1 .. N
    BY <1>0, <1>1
  <2>3. c \in [S -> 1 .. N]
    BY <2>2
  <2>4. ASSUME NEW x \in S, NEW y \in S, c[x] = c[y]
        PROVE  x = y
    <3>1. Cardinality(A[x]) \in Nat /\ Cardinality(A[y]) \in Nat
      BY <1>1
    <3>2. Cardinality(A[x]) + 1 = Cardinality(A[y]) + 1
      BY <2>1, <2>4
    <3>3. Cardinality(A[x]) = Cardinality(A[y])
      BY <3>1, <3>2
    <3>4. QED
      BY <1>3, <3>3
  <2> HIDE DEF c
  <2>5. QED
    BY <2>3, <2>4 DEF Injection, IsInjective
<1>6. IsFiniteSet(1 .. N) /\ Cardinality(1 .. N) = N
  <2>1. 1 \in Int /\ N \in Int
    BY <1>0
  <2>2. IsFiniteSet(1 .. N) /\ Cardinality(1 .. N) = IF 1 > N THEN 0 ELSE N - 1 + 1
    BY <2>1, FS_Interval
  <2>3. QED
    BY <1>0, <2>2
<1>7. c \in Surjection(S, 1 .. N)
  <2> HIDE DEF c, N
  <2>1. Cardinality(S) = Cardinality(1 .. N)
    BY <1>6 DEF N
  <2>2. QED
    BY <1>5, <1>6, <2>1, FS_Injection
<1>8. ASSUME NEW n \in 1 .. N
      PROVE  \E x \in S : Cardinality(A[x]) = n - 1
  <2>1. PICK x \in S : c[x] = n
    BY <1>7 DEF Surjection
  <2>2. Cardinality(A[x]) + 1 = n /\ Cardinality(A[x]) \in Nat
    BY <1>1, <2>1
  <2>3. Cardinality(A[x]) = n - 1
    BY <2>2
  <2>4. QED
    BY <2>3
<1>9. QED
  BY <1>3, <1>4, <1>8

\* What the sort compares, in numbers.
LEMMA BeforeMeans ==
    ASSUME NEW s, Rows(s), NEW i \in DOMAIN s, NEW j \in DOMAIN s
    PROVE  /\ i \in Nat /\ j \in Nat
           /\ s[i].function \in Int /\ s[i].position \in Int
           /\ s[j].function \in Int /\ s[j].position \in Int
           /\ Rank(from_catalog(s[i].phase)) \in Int /\ Rank(from_catalog(s[j].phase)) \in Int
           /\ Before(s, j, i) <=>
                 \/ s[j].function < s[i].function
                 \/ /\ s[j].function = s[i].function
                    /\ \/ Rank(from_catalog(s[j].phase)) < Rank(from_catalog(s[i].phase))
                       \/ /\ Rank(from_catalog(s[j].phase)) = Rank(from_catalog(s[i].phase))
                          /\ \/ s[j].position < s[i].position
                             \/ s[j].position = s[i].position /\ j < i
<1>1. \A text : Rank(from_catalog(text)) \in Int
  BY DEF Rank, from_catalog
<1> DEFINE f == s[i].function
<1> DEFINE g == s[j].function
<1> DEFINE p == s[i].position
<1> DEFINE q == s[j].position
<1> DEFINE a == Rank(from_catalog(s[i].phase))
<1> DEFINE b == Rank(from_catalog(s[j].phase))
<1>2. f \in Int /\ g \in Int /\ p \in Int /\ q \in Int /\ i \in Nat /\ j \in Nat
  BY DEF Rows
<1>3. a \in Int /\ b \in Int
  BY <1>1
<1>4. KeyLess(s[j], s[i]) <=> g < f \/ (g = f /\ (b < a \/ (b = a /\ q < p)))
  BY DEF KeyLess
<1>5. KeyLess(s[i], s[j]) <=> f < g \/ (f = g /\ (a < b \/ (a = b /\ p < q)))
  BY DEF KeyLess
<1>6. Before(s, j, i) <=> KeyLess(s[j], s[i]) \/ (~KeyLess(s[i], s[j]) /\ j < i)
  BY DEF Before
<1> HIDE DEF f, g, p, q, a, b
<1>7. Before(s, j, i) <=> g < f \/ (g = f /\ (b < a \/ (b = a /\ (q < p \/ (q = p /\ j < i)))))
  BY <1>2, <1>3, <1>4, <1>5, <1>6
<1>8. QED
  BY <1>2, <1>3, <1>7 DEF f, g, p, q, a, b

\* It is an order: nothing is ahead of itself, what is ahead of what is ahead is
\* ahead, and of two rows one is ahead of the other.
LEMMA AheadIsAnOrder ==
    ASSUME NEW s, Rows(s)
    PROVE  /\ \A i \in DOMAIN s : i \notin Ahead(s, i)
           /\ \A i, j \in DOMAIN s : j \in Ahead(s, i) => Ahead(s, j) \subseteq Ahead(s, i)
           /\ \A i, j \in DOMAIN s : i # j => i \in Ahead(s, j) \/ j \in Ahead(s, i)
<1>1. ASSUME NEW i \in DOMAIN s
      PROVE  i \notin Ahead(s, i)
  <2>1. ~Before(s, i, i)
    BY BeforeMeans
  <2>2. QED
    BY <2>1 DEF Ahead
<1>2. ASSUME NEW i \in DOMAIN s, NEW j \in DOMAIN s, NEW k \in DOMAIN s,
             Before(s, j, i), Before(s, k, j)
      PROVE  Before(s, k, i)
  <2>1. \/ s[j].function < s[i].function
        \/ /\ s[j].function = s[i].function
           /\ \/ Rank(from_catalog(s[j].phase)) < Rank(from_catalog(s[i].phase))
              \/ /\ Rank(from_catalog(s[j].phase)) = Rank(from_catalog(s[i].phase))
                 /\ \/ s[j].position < s[i].position
                    \/ s[j].position = s[i].position /\ j < i
    BY <1>2, BeforeMeans
  <2>2. \/ s[k].function < s[j].function
        \/ /\ s[k].function = s[j].function
           /\ \/ Rank(from_catalog(s[k].phase)) < Rank(from_catalog(s[j].phase))
              \/ /\ Rank(from_catalog(s[k].phase)) = Rank(from_catalog(s[j].phase))
                 /\ \/ s[k].position < s[j].position
                    \/ s[k].position = s[j].position /\ k < j
    BY <1>2, BeforeMeans
  <2>3. /\ s[i].function \in Int /\ s[j].function \in Int /\ s[k].function \in Int
        /\ Rank(from_catalog(s[i].phase)) \in Int /\ Rank(from_catalog(s[j].phase)) \in Int
        /\ Rank(from_catalog(s[k].phase)) \in Int
        /\ s[i].position \in Int /\ s[j].position \in Int /\ s[k].position \in Int
        /\ i \in Nat /\ j \in Nat /\ k \in Nat
    BY BeforeMeans
  <2>4. \/ s[k].function < s[i].function
        \/ /\ s[k].function = s[i].function
           /\ \/ Rank(from_catalog(s[k].phase)) < Rank(from_catalog(s[i].phase))
              \/ /\ Rank(from_catalog(s[k].phase)) = Rank(from_catalog(s[i].phase))
                 /\ \/ s[k].position < s[i].position
                    \/ s[k].position = s[i].position /\ k < i
    BY <2>1, <2>2, <2>3
  <2>5. QED
    BY <2>4, BeforeMeans
<1>3. ASSUME NEW i \in DOMAIN s, NEW j \in DOMAIN s, i # j
      PROVE  Before(s, i, j) \/ Before(s, j, i)
  <2>1. /\ s[i].function \in Int /\ s[j].function \in Int
        /\ Rank(from_catalog(s[i].phase)) \in Int /\ Rank(from_catalog(s[j].phase)) \in Int
        /\ s[i].position \in Int /\ s[j].position \in Int /\ i \in Nat /\ j \in Nat
    BY BeforeMeans
  <2>2. Before(s, j, i) <=>
           \/ s[j].function < s[i].function
           \/ /\ s[j].function = s[i].function
              /\ \/ Rank(from_catalog(s[j].phase)) < Rank(from_catalog(s[i].phase))
                 \/ /\ Rank(from_catalog(s[j].phase)) = Rank(from_catalog(s[i].phase))
                    /\ \/ s[j].position < s[i].position
                       \/ s[j].position = s[i].position /\ j < i
    BY BeforeMeans
  <2>3. Before(s, i, j) <=>
           \/ s[i].function < s[j].function
           \/ /\ s[i].function = s[j].function
              /\ \/ Rank(from_catalog(s[i].phase)) < Rank(from_catalog(s[j].phase))
                 \/ /\ Rank(from_catalog(s[i].phase)) = Rank(from_catalog(s[j].phase))
                    /\ \/ s[i].position < s[j].position
                       \/ s[i].position = s[j].position /\ i < j
    BY BeforeMeans
  <2>4. QED
    BY <1>3, <2>1, <2>2, <2>3
<1>4. ASSUME NEW i \in DOMAIN s, NEW j \in DOMAIN s, j \in Ahead(s, i)
      PROVE  Ahead(s, j) \subseteq Ahead(s, i)
  <2>1. Before(s, j, i)
    BY <1>4 DEF Ahead
  <2>2. QED
    BY <1>2, <2>1 DEF Ahead
<1>5. ASSUME NEW i \in DOMAIN s, NEW j \in DOMAIN s, i # j
      PROVE  i \in Ahead(s, j) \/ j \in Ahead(s, i)
  BY <1>3, <1>5 DEF Ahead
<1>6. QED
  BY <1>1, <1>4, <1>5

\* The numbers of the rows from one to another.
LEMMA Numbers ==
    ASSUME NEW n \in Nat
    PROVE  IsFiniteSet(1 .. n) /\ Cardinality(1 .. n) = n
<1>1. 1 \in Int /\ n \in Int
  OBVIOUS
<1>2. IsFiniteSet(1 .. n) /\ Cardinality(1 .. n) = IF 1 > n THEN 0 ELSE n - 1 + 1
  BY <1>1, FS_Interval
<1>3. QED
  BY <1>2

\* The sorted rows are the rows, every one once, and none is ahead of one before it.
LEMMA Sorts ==
    ASSUME NEW s, Rows(s)
    PROVE  \E o \in [DOMAIN s -> DOMAIN s] :
              /\ \A m, n \in DOMAIN s : o[m] = o[n] => m = n
              /\ \A i \in DOMAIN s : \E n \in DOMAIN s : o[n] = i
              /\ Sorted(s) = [n \in DOMAIN s |-> s[o[n]]]
              /\ \A m, n \in DOMAIN s : m < n => Before(s, o[m], o[n])
<1> DEFINE S == DOMAIN s
<1> DEFINE N == Len(s)
<1> DEFINE A == [i \in S |-> Ahead(s, i)]
<1> DEFINE o == [n \in S |-> CHOOSE i \in S : Cardinality(Ahead(s, i)) = n - 1]
<1>1. N \in Nat /\ S = 1 .. N
  BY DEF Rows
<1>2. IsFiniteSet(S) /\ Cardinality(S) = N
  BY <1>1, Numbers
<1>3. A \in [S -> SUBSET S] /\ \A i \in S : A[i] = Ahead(s, i)
  BY DEF Ahead
<1>4. /\ \A x \in S : x \notin A[x]
      /\ \A x, y \in S : y \in A[x] => A[y] \subseteq A[x]
      /\ \A x, y \in S : x # y => x \in A[y] \/ y \in A[x]
  BY <1>3, AheadIsAnOrder
<1>5. /\ \A x, y \in S : Cardinality(A[x]) = Cardinality(A[y]) => x = y
      /\ \A x, y \in S : Cardinality(A[x]) < Cardinality(A[y]) => x \in A[y]
      /\ \A n \in 1 .. N : \E x \in S : Cardinality(A[x]) = n - 1
  <2> HIDE DEF S, N, A
  <2>1. QED
    BY <1>2, <1>3, <1>4, Places
<1>6. \A n \in S : o[n] \in S /\ Cardinality(Ahead(s, o[n])) = n - 1
  <2>1. ASSUME NEW n \in S
        PROVE  o[n] \in S /\ Cardinality(Ahead(s, o[n])) = n - 1
    <3>1. \E x \in S : Cardinality(Ahead(s, x)) = n - 1
      BY <1>1, <1>3, <1>5
    <3>2. o[n] = CHOOSE i \in S : Cardinality(Ahead(s, i)) = n - 1
      OBVIOUS
    <3> HIDE DEF o, S, N, A
    <3>3. QED
      BY <3>1, <3>2, Zenon
  <2>2. QED
    BY <2>1
<1>7. Sorted(s) = [n \in S |-> s[o[n]]]
  <2>1. Sorted(s) = [n \in S |-> s[CHOOSE i \in S : Cardinality(Ahead(s, i)) = n - 1]]
    BY DEF Sorted
  <2>2. \A n \in S : o[n] = CHOOSE i \in S : Cardinality(Ahead(s, i)) = n - 1
    OBVIOUS
  <2> HIDE DEF o, S, N, A
  <2>3. QED
    BY <2>1, <2>2, Zenon
<1>8. o = [n \in S |-> o[n]]
  OBVIOUS
<1> HIDE DEF o, S, N, A
<1>9. o \in [S -> S]
  BY <1>6, <1>8
<1>10. ASSUME NEW m \in S, NEW n \in S, o[m] = o[n]
       PROVE  m = n
  <2>1. m - 1 = n - 1 /\ m \in Int /\ n \in Int
    BY <1>1, <1>6, <1>10
  <2>2. QED
    BY <2>1
<1>11. ASSUME NEW m \in S, NEW n \in S, m < n
       PROVE  Before(s, o[m], o[n])
  <2>1. m - 1 < n - 1
    BY <1>1, <1>11
  <2>2. Cardinality(A[o[m]]) < Cardinality(A[o[n]])
    BY <1>3, <1>6, <2>1
  <2>3. o[m] \in Ahead(s, o[n])
    BY <1>3, <1>5, <1>6, <2>2
  <2>4. QED
    BY <2>3 DEF Ahead
<1>12. ASSUME NEW i \in S
       PROVE  \E n \in S : o[n] = i
  <2> DEFINE c == Cardinality(A[i])
  <2>1. c \in Nat /\ c < N
    <3>1. A[i] \in SUBSET S /\ A[i] # S
      BY <1>3, <1>4
    <3>2. IsFiniteSet(A[i]) /\ c <= N /\ c # N
      BY <1>2, <3>1, FS_Subset
    <3>3. c \in Nat
      BY <3>2, FS_CardinalityType
    <3>4. QED
      BY <1>1, <3>2, <3>3
  <2>2. c + 1 \in S /\ (c + 1) - 1 = c
    BY <1>1, <2>1
  <2>3. Cardinality(A[o[c + 1]]) = c /\ o[c + 1] \in S
    BY <1>3, <1>6, <2>2
  <2>4. o[c + 1] = i
    BY <1>5, <2>3
  <2>5. QED
    BY <2>2, <2>4
<1>13. QED
  BY <1>7, <1>9, <1>10, <1>11, <1>12, Zenon DEF S

\* Where the rows of a group stand.
RowsOf(s, g) == {n \in DOMAIN s : GroupOf(s[n]) = g}

\* Rows of one group that stand together are one invocation.
LEMMA OneInvocation ==
    ASSUME NEW s, Len(s) \in Nat, DOMAIN s = 1 .. Len(s), NEW g,
           NEW G, G = RowsOf(s, g), G # {},
           \A a, b \in G : \A c \in DOMAIN s : a < c /\ c < b => c \in G
    PROVE  \E a, m \in 1 .. Len(s) :
              /\ a <= m /\ G = a .. m
              /\ \A n \in G : n \in Beginnings(s) <=> n = a
              /\ EndOf(s, a) = m
<1> DEFINE N == Len(s)
<1>0. N \in Nat /\ DOMAIN s = 1 .. N /\ G \subseteq 1 .. N
  BY DEF RowsOf
<1> DEFINE B == Beginnings(s)
<1>1. \A n \in 1 .. N : n \in B <=> n = 1 \/ GroupOf(s[n - 1]) # GroupOf(s[n])
  BY <1>0 DEF Beginnings
<1>2. \A n \in 1 .. N : n \in G <=> GroupOf(s[n]) = g
  BY <1>0 DEF RowsOf
<1>3. EndOf(s, 0) = EndOf(s, 0) /\ \A a : EndOf(s, a) =
         CHOOSE m \in a .. N : (\A k \in a + 1 .. m : k \notin B) /\ (m = N \/ m + 1 \in B)
  BY Zenon DEF EndOf
<1> HIDE DEF N, B
<1>4. PICK a \in G : \A n \in G : a <= n
  <2>1. G \subseteq Nat /\ G # {}
    BY <1>0
  <2>2. QED
    BY <2>1, Least
<1> DEFINE T == {k \in a + 1 .. N + 1 : k \notin G}
<1>5. PICK e \in T : \A k \in T : e <= k
  <2>1. T \subseteq Nat /\ N + 1 \in T
    BY <1>0
  <2>2. T \subseteq Nat /\ T # {}
    BY <2>1
  <2> HIDE DEF T
  <2>3. QED
    BY <2>2, Least
<1>6. PICK m \in 1 .. N : m = e - 1 /\ a <= m
  BY <1>0, <1>4
<1>7. a \in 1 .. N /\ e \in Nat /\ e = m + 1 /\ e \notin G /\ m \in Nat /\ a \in Nat
  BY <1>0, <1>4, <1>6
<1>8. ASSUME NEW n \in a .. m
      PROVE  n \in G
  <2>1. CASE n = a
    BY <2>1
  <2>2. CASE n # a
    <3>1. n \in a + 1 .. N + 1 /\ ~(e <= n)
      BY <1>0, <1>7, <2>2
    <3>2. QED
      BY <1>5, <3>1
  <2>3. QED
    BY <2>1, <2>2
<1>9. ASSUME NEW n \in G
      PROVE  n \in a .. m
  <2>1. n \in 1 .. N /\ a <= n /\ n # e
    BY <1>0, <1>4, <1>7
  <2>2. ~(e < n)
    <3>1. SUFFICES ASSUME e < n
                   PROVE  FALSE
      OBVIOUS
    <3>2. e \in DOMAIN s /\ a < e
      BY <1>0, <1>7, <2>1, <3>1
    <3>3. e \in G
      BY <3>1, <3>2
    <3>4. QED
      BY <1>7, <3>3
  <2>3. QED
    BY <1>7, <2>1, <2>2
<1>10. G = a .. m
  BY <1>8, <1>9
<1>11. ASSUME NEW n \in G
       PROVE  n \in B <=> n = a
  <2>1. n \in 1 .. N /\ n \in a .. m
    BY <1>0, <1>10
  <2>2. CASE n = a
    <3>1. CASE a = 1
      BY <1>1, <2>1, <2>2, <3>1
    <3>2. CASE a # 1
      <4>1. a - 1 \in 1 .. N /\ a - 1 \notin a .. m
        BY <1>0, <1>7, <3>2
      <4>2. QED
        BY <1>1, <1>2, <1>10, <2>1, <2>2, <4>1
    <3>3. QED
      BY <3>1, <3>2
  <2>3. CASE n # a
    <3>1. n - 1 \in a .. m /\ n # 1 /\ n - 1 \in 1 .. N
      BY <1>0, <1>7, <2>1, <2>3
    <3>2. n - 1 \in G
      BY <1>10, <3>1
    <3>3. QED
      BY <1>1, <1>2, <2>1, <2>3, <3>1, <3>2
  <2>4. QED
    BY <2>2, <2>3
<1>12. m = N \/ m + 1 \in B
  <2>1. SUFFICES ASSUME m # N
                 PROVE  m + 1 \in B
    OBVIOUS
  <2>2. m + 1 \in 1 .. N /\ m + 1 # 1 /\ (m + 1) - 1 = m /\ m \in a .. m
    BY <1>0, <1>6, <1>7, <2>1
  <2>3. m \in G /\ m + 1 \notin G
    BY <1>7, <1>10, <2>2
  <2>4. QED
    BY <1>1, <1>2, <2>2, <2>3
<1>13. \A k \in a + 1 .. m : k \notin B
  <2>1. ASSUME NEW k \in a + 1 .. m
        PROVE  k \notin B
    <3>1. k \in a .. m /\ k # a
      BY <1>7
    <3>2. QED
      BY <1>10, <1>11, <3>1
  <2>2. QED
    BY <2>1
<1>14. EndOf(s, a) = m
  <2>1. m \in a .. N
    BY <1>0, <1>7
  <2>2. ASSUME NEW l \in a .. N, \A k \in a + 1 .. l : k \notin B, l = N \/ l + 1 \in B
        PROVE  l = m
    <3>1. ~(l < m)
      <4>1. SUFFICES ASSUME l < m
                     PROVE  FALSE
        OBVIOUS
      <4>2. l # N /\ l + 1 \in a + 1 .. m
        BY <1>0, <1>7, <4>1
      <4>3. QED
        BY <1>13, <2>2, <4>2
    <3>2. ~(m < l)
      <4>1. SUFFICES ASSUME m < l
                     PROVE  FALSE
        OBVIOUS
      <4>2. m # N /\ m + 1 \in a + 1 .. l
        BY <1>0, <1>7, <4>1
      <4>3. QED
        BY <1>12, <2>2, <4>2
    <3>3. QED
      BY <1>0, <1>7, <3>1, <3>2
  <2>3. \A l \in a .. N : (\A k \in a + 1 .. l : k \notin B) /\ (l = N \/ l + 1 \in B) => l = m
    BY <2>2
  <2>4. (\A k \in a + 1 .. m : k \notin B) /\ (m = N \/ m + 1 \in B)
    BY <1>12, <1>13
  <2>5. m = CHOOSE l \in a .. N : (\A k \in a + 1 .. l : k \notin B) /\ (l = N \/ l + 1 \in B)
    BY <2>1, <2>3, <2>4, Zenon
  <2>6. QED
    BY <1>3, <2>5
<1>15. QED
  BY <1>6, <1>7, <1>10, <1>11, <1>14 DEF N, B

\* What has a lesser number.
Below(S, p, x) == {y \in S : p[y] < p[x]}

\* Every member of S, once, in the order of its number.
InOrderOf(S, n, pi, p) ==
    /\ n \in Nat /\ pi \in [1 .. n -> S]
    /\ \A x \in S : \E k \in 1 .. n : pi[k] = x
    /\ \A x \in S : p[x] \in Int
    /\ \A k, l \in 1 .. n : k < l => p[pi[k]] < p[pi[l]]

\* Numbers that increase with their places: as many are less than one as stand
\* before it.
LEMMA Ordinals ==
    ASSUME NEW S, NEW n, NEW pi, NEW p, InOrderOf(S, n, pi, p)
    PROVE  /\ IsFiniteSet(S) /\ Cardinality(S) = n
           /\ \A l \in 1 .. n : Cardinality(Below(S, p, pi[l])) = l - 1
<1>0. /\ n \in Nat /\ pi \in [1 .. n -> S]
      /\ \A x \in S : \E k \in 1 .. n : pi[k] = x
      /\ \A x \in S : p[x] \in Int
      /\ \A k, l \in 1 .. n : k < l => p[pi[k]] < p[pi[l]]
  BY DEF InOrderOf
<1> USE <1>0
<1>1. \A k, l \in 1 .. n : p[pi[k]] < p[pi[l]] => k < l
  <2> SUFFICES ASSUME NEW k \in 1 .. n, NEW l \in 1 .. n, p[pi[k]] < p[pi[l]], ~(k < l)
               PROVE  FALSE
    OBVIOUS
  <2>1. p[pi[k]] \in Int /\ p[pi[l]] \in Int
    OBVIOUS
  <2>2. k = l \/ l < k
    OBVIOUS
  <2>3. CASE k = l
    BY <2>1, <2>3
  <2>4. CASE l < k
    BY <2>1, <2>4
  <2>5. QED
    BY <2>2, <2>3, <2>4
<1>2. \A k, l \in 1 .. n : pi[k] = pi[l] => k = l
  <2> SUFFICES ASSUME NEW k \in 1 .. n, NEW l \in 1 .. n, pi[k] = pi[l], k # l
               PROVE  FALSE
    OBVIOUS
  <2>1. p[pi[k]] \in Int /\ p[pi[k]] = p[pi[l]]
    OBVIOUS
  <2>2. k < l \/ l < k
    OBVIOUS
  <2>3. QED
    BY <2>1, <2>2
<1>3. ASSUME NEW h \in Nat, h <= n, NEW U, U = {pi[k] : k \in 1 .. h}
      PROVE  IsFiniteSet(U) /\ Cardinality(U) = h
  <2> DEFINE f == [k \in 1 .. h |-> pi[k]]
  <2>1. \A k \in 1 .. h : k \in 1 .. n
    BY <1>3
  <2>2. f \in [1 .. h -> U] /\ \A k \in 1 .. h : f[k] = pi[k]
    BY <1>3
  <2>3. \A k, l \in 1 .. h : f[k] = f[l] => k = l
    BY <1>2, <2>1, <2>2
  <2>4. \A u \in U : \E k \in 1 .. h : f[k] = u
    BY <1>3, <2>2
  <2> HIDE DEF f
  <2>5. f \in Bijection(1 .. h, U)
    BY <2>2, <2>3, <2>4 DEF Bijection, Injection, Surjection, IsInjective
  <2>6. ExistsBijection(1 .. h, U)
    BY <2>5 DEF ExistsBijection
  <2>7. IsFiniteSet(1 .. h) /\ Cardinality(1 .. h) = h
    BY Numbers
  <2>8. QED
    BY <2>6, <2>7, FS_Bijection
<1>4. S = {pi[k] : k \in 1 .. n}
  OBVIOUS
<1>5. ASSUME NEW l \in 1 .. n
      PROVE  Cardinality(Below(S, p, pi[l])) = l - 1
  <2> DEFINE U == {y \in S : p[y] < p[pi[l]]}
  <2>1. ASSUME NEW y \in U
        PROVE  y \in {pi[k] : k \in 1 .. l - 1}
    <3>1. PICK k \in 1 .. n : pi[k] = y
      OBVIOUS
    <3>2. k < l
      BY <1>1, <3>1
    <3>3. k \in 1 .. l - 1
      BY <3>2
    <3>4. QED
      BY <3>1, <3>3
  <2>2. ASSUME NEW k \in 1 .. l - 1
        PROVE  pi[k] \in U
    <3>1. k \in 1 .. n /\ k < l
      OBVIOUS
    <3>2. QED
      BY <3>1
  <2>3. U = {pi[k] : k \in 1 .. l - 1}
    BY <2>1, <2>2
  <2>4. l - 1 \in Nat /\ l - 1 <= n
    OBVIOUS
  <2> HIDE DEF U
  <2>5. Cardinality(U) = l - 1
    BY <1>3, <2>3, <2>4
  <2>6. QED
    BY <2>5 DEF U, Below
<1>6. n <= n
  OBVIOUS
<1>7. QED
  BY <1>3, <1>4, <1>5, <1>6

\* The phases are told apart by their rank.
LEMMA RanksDiffer ==
    \A a, b : Rank(from_catalog(a)) = Rank(from_catalog(b)) => from_catalog(a) = from_catalog(b)
<1>1. \A a : from_catalog(a) \in Phases
  BY DEF from_catalog, Phases
<1>2. Rank("Preset") = 0 /\ Rank("Main") = 1 /\ Rank("Reset") = 2
  BY DEF Rank
<1>3. \A p, q \in Phases : Rank(p) = Rank(q) => p = q
  BY <1>2 DEF Phases
<1>4. QED
  BY <1>1, <1>3

\* In the sorted rows those of a group stand together, in the order of their positions.
LEMMA GroupStandsTogether ==
    ASSUME NEW s, Rows(s), NEW o \in [DOMAIN s -> DOMAIN s],
           \A m, n \in DOMAIN s : m < n => Before(s, o[m], o[n]),
           NEW a \in DOMAIN s, NEW b \in DOMAIN s, a < b, GroupOf(s[o[a]]) = GroupOf(s[o[b]])
    PROVE  /\ s[o[a]].position <= s[o[b]].position
           /\ \A c \in DOMAIN s : a < c /\ c < b => GroupOf(s[o[c]]) = GroupOf(s[o[a]])
<1>1. s[o[a]].function = s[o[b]].function /\ from_catalog(s[o[a]].phase) = from_catalog(s[o[b]].phase)
  BY DEF GroupOf
<1>2. s[o[a]].position <= s[o[b]].position
  <2> PICK i \in DOMAIN s : i = o[a]
    OBVIOUS
  <2> PICK j \in DOMAIN s : j = o[b]
    OBVIOUS
  <2>1. Before(s, i, j)
    OBVIOUS
  <2>2. s[i].function = s[j].function /\ Rank(from_catalog(s[i].phase)) = Rank(from_catalog(s[j].phase))
    BY <1>1
  <2>3. s[i].position \in Int /\ s[j].position \in Int /\ s[i].function \in Int
        /\ Rank(from_catalog(s[i].phase)) \in Int
    BY BeforeMeans
  <2>4. s[i].position < s[j].position \/ s[i].position = s[j].position
    BY <2>1, <2>2, <2>3, BeforeMeans
  <2>5. QED
    BY <2>3, <2>4
<1>3. ASSUME NEW c \in DOMAIN s, a < c, c < b
      PROVE  GroupOf(s[o[c]]) = GroupOf(s[o[a]])
  <2> PICK i \in DOMAIN s : i = o[a]
    OBVIOUS
  <2> PICK j \in DOMAIN s : j = o[b]
    OBVIOUS
  <2> PICK k \in DOMAIN s : k = o[c]
    OBVIOUS
  <2>1. Before(s, i, k) /\ Before(s, k, j)
    BY <1>3
  <2>2. /\ s[i].function < s[k].function \/
           (s[i].function = s[k].function
            /\ (Rank(from_catalog(s[i].phase)) < Rank(from_catalog(s[k].phase))
                \/ Rank(from_catalog(s[i].phase)) = Rank(from_catalog(s[k].phase))))
        /\ s[i].function \in Int /\ s[k].function \in Int
        /\ Rank(from_catalog(s[i].phase)) \in Int /\ Rank(from_catalog(s[k].phase)) \in Int
    BY <2>1, BeforeMeans
  <2>3. /\ s[k].function < s[j].function \/
           (s[k].function = s[j].function
            /\ (Rank(from_catalog(s[k].phase)) < Rank(from_catalog(s[j].phase))
                \/ Rank(from_catalog(s[k].phase)) = Rank(from_catalog(s[j].phase))))
        /\ s[j].function \in Int /\ Rank(from_catalog(s[j].phase)) \in Int
    BY <2>1, BeforeMeans
  <2>4. s[i].function = s[j].function /\ Rank(from_catalog(s[i].phase)) = Rank(from_catalog(s[j].phase))
    BY <1>1
  <2>5. s[k].function = s[i].function /\ Rank(from_catalog(s[k].phase)) = Rank(from_catalog(s[i].phase))
    BY <2>2, <2>3, <2>4
  <2>6. from_catalog(s[k].phase) = from_catalog(s[i].phase)
    BY <2>5, RanksDiffer
  <2>7. QED
    BY <2>5, <2>6 DEF GroupOf
<1>4. QED
  BY <1>2, <1>3

\* The rows as they are handed over.
Handed(order) == [i \in DOMAIN Catalog |-> Catalog[order[i]]]

MatchesIn(offer, phase) == {n \in DOMAIN offer : Wanted(offer[n], phase)}

\* The first invocation of the requested function and a phase has the values of its
\* rows, by position.
LEMMA FirstIsWhole ==
    ASSUME NEW phase, NEW order \in Orders, NEW offer, offer = invocations(Handed(order)),
           NEW M, M = MatchesIn(offer, phase), M # {}
    PROVE  offer[CHOOSE n \in M : \A m \in M : n <= m].args = CatalogArgs(phase)
<1> DEFINE given == Handed(order)
<1> DEFINE D == DOMAIN Catalog
<1> DEFINE N == Len(Catalog)
<1>1. /\ N \in Nat /\ D = 1 .. N /\ order \in [D -> D]
      /\ \A i \in D : Catalog[i].function \in Int /\ Catalog[i].position \in Int
      /\ \A i, j \in D : order[i] = order[j] => i = j
      /\ \A i, j \in D : GroupOf(Catalog[i]) = GroupOf(Catalog[j])
                         /\ Catalog[i].position = Catalog[j].position => i = j
  BY RunnerAssumption
<1>2. \A i \in D : given[i] = Catalog[order[i]]
  BY DEF Handed
<1>3. DOMAIN given = D /\ Len(given) = N
  <2>1. DOMAIN given = 1 .. N
    BY <1>1 DEF Handed
  <2>2. given \in [1 .. N -> {Catalog[order[i]] : i \in D}]
    BY <1>1 DEF Handed
  <2> HIDE DEF given
  <2>3. given \in Seq({Catalog[order[i]] : i \in D}) /\ Len(given) = N
    BY <1>1, <2>2
  <2>4. QED
    BY <1>1, <2>1, <2>3
<1>4. Rows(given)
  BY <1>1, <1>2, <1>3 DEF Rows
<1>5. \A i \in D : \E j \in D : order[j] = i
  <2>1. IsFiniteSet(D) /\ order \in Injection(D, D)
    BY <1>1, Numbers DEF Injection, IsInjective
  <2>2. order \in Surjection(D, D)
    BY <2>1, FS_Injection
  <2>3. QED
    BY <2>2 DEF Surjection
<1>a. offer = invocations(given)
  OBVIOUS
<1> HIDE DEF given
<1> DEFINE s == Sorted(given)
<1>6. PICK o \in [D -> D] :
         /\ \A m, n \in D : o[m] = o[n] => m = n
         /\ \A i \in D : \E n \in D : o[n] = i
         /\ s = [n \in D |-> given[o[n]]]
         /\ \A m, n \in D : m < n => Before(given, o[m], o[n])
  <2>1. \E o \in [DOMAIN given -> DOMAIN given] :
           /\ \A m, n \in DOMAIN given : o[m] = o[n] => m = n
           /\ \A i \in DOMAIN given : \E n \in DOMAIN given : o[n] = i
           /\ s = [n \in DOMAIN given |-> given[o[n]]]
           /\ \A m, n \in DOMAIN given : m < n => Before(given, o[m], o[n])
    BY <1>4, Sorts
  <2>2. DOMAIN given = D
    BY <1>3
  <2> HIDE DEF D, s
  <2>3. QED
    BY <2>1, <2>2, Zenon
<1>7. DOMAIN s = D /\ Len(s) = N /\ \A n \in D : s[n] = given[o[n]]
  <2> HIDE DEF s
  <2>1. DOMAIN s = D /\ \A n \in D : s[n] = given[o[n]]
    BY <1>6
  <2>2. s \in Seq({given[o[i]] : i \in D}) /\ Len(s) = N
    BY <1>1, <1>6
  <2>3. QED
    BY <2>1, <2>2
<1> DEFINE g == <<FunctionId, phase>>
<1> DEFINE G == {n \in D : GroupOf(s[n]) = g}
<1>8. /\ DOMAIN offer = Beginnings(s) /\ Beginnings(s) \subseteq D
      /\ \A n \in Beginnings(s) :
            /\ Wanted(offer[n], phase) <=> GroupOf(s[n]) = g
            /\ offer[n].args = [k \in 1 .. EndOf(s, n) - n + 1 |-> ArgOf(s[n + k - 1])]
  <2>1. offer = [n \in Beginnings(s) |->
                   [function |-> s[n].function, phase |-> from_catalog(s[n].phase),
                    args |-> [k \in 1 .. EndOf(s, n) - n + 1 |-> ArgOf(s[n + k - 1])]]]
    BY <1>a DEF invocations
  <2>2. Beginnings(s) \subseteq D
    BY <1>7 DEF Beginnings
  <2> HIDE DEF s
  <2>3. \A n \in Beginnings(s) : Wanted(offer[n], phase) <=> GroupOf(s[n]) = g
    BY <2>1 DEF Wanted, GroupOf
  <2>4. DOMAIN offer = Beginnings(s)
    BY <2>1
  <2>5. \A n \in Beginnings(s) :
           offer[n].args = [k \in 1 .. EndOf(s, n) - n + 1 |-> ArgOf(s[n + k - 1])]
    <3>1. SUFFICES ASSUME NEW n \in Beginnings(s)
                   PROVE  offer[n].args = [k \in 1 .. EndOf(s, n) - n + 1 |-> ArgOf(s[n + k - 1])]
      OBVIOUS
    <3>2. offer[n] = [function |-> s[n].function, phase |-> from_catalog(s[n].phase),
                      args |-> [k \in 1 .. EndOf(s, n) - n + 1 |-> ArgOf(s[n + k - 1])]]
      BY <2>1, <3>1
    <3>3. QED
      BY <3>2
  <2>6. QED
    BY <2>2, <2>3, <2>4, <2>5
<1> HIDE DEF s, D, N
<1>9. G # {} /\ M = {n \in Beginnings(s) : n \in G}
  BY <1>8 DEF MatchesIn
<1>10. ASSUME NEW a \in D, NEW b \in D, a < b, GroupOf(s[a]) = g, GroupOf(s[b]) = g
       PROVE  /\ s[a].position < s[b].position
              /\ \A c \in D : a < c /\ c < b => GroupOf(s[c]) = g
  <2>1. GroupOf(given[o[a]]) = g /\ GroupOf(given[o[b]]) = g
    BY <1>7, <1>10
  <2>2. /\ given[o[a]].position <= given[o[b]].position
        /\ \A c \in D : a < c /\ c < b => GroupOf(given[o[c]]) = GroupOf(given[o[a]])
    <3>1. DOMAIN given = D
      BY <1>3
    <3>2. /\ o \in [DOMAIN given -> DOMAIN given] /\ a \in DOMAIN given /\ b \in DOMAIN given
          /\ \A l, n \in DOMAIN given : l < n => Before(given, o[l], o[n])
      BY <1>6, <1>10, <3>1
    <3>3. a < b /\ GroupOf(given[o[a]]) = GroupOf(given[o[b]])
      BY <1>10, <2>1
    <3>4. /\ given[o[a]].position <= given[o[b]].position
          /\ \A c \in DOMAIN given : a < c /\ c < b => GroupOf(given[o[c]]) = GroupOf(given[o[a]])
      BY <1>4, <3>2, <3>3, GroupStandsTogether
    <3>5. QED
      BY <3>1, <3>4
  <2>3. \A c \in D : a < c /\ c < b => GroupOf(s[c]) = g
    BY <1>7, <2>1, <2>2
  <2>4. given[o[a]].position # given[o[b]].position
    <3>1. SUFFICES ASSUME given[o[a]].position = given[o[b]].position
                   PROVE  FALSE
      OBVIOUS
    <3>2. o[a] \in D /\ o[b] \in D /\ order[o[a]] \in D /\ order[o[b]] \in D
      BY <1>1, <1>6, <1>10
    <3>3. given[o[a]] = Catalog[order[o[a]]] /\ given[o[b]] = Catalog[order[o[b]]]
      BY <1>2, <3>2
    <3>4. order[o[a]] = order[o[b]]
      <4>1. GroupOf(Catalog[order[o[a]]]) = GroupOf(Catalog[order[o[b]]])
        BY <2>1, <3>3
      <4>2. Catalog[order[o[a]]].position = Catalog[order[o[b]]].position
        BY <3>1, <3>3
      <4>3. \A i, j \in D : GroupOf(Catalog[i]) = GroupOf(Catalog[j])
                            /\ Catalog[i].position = Catalog[j].position => i = j
        BY <1>1
      <4>4. QED
        BY <3>2, <4>1, <4>2, <4>3
    <3>5. a = b
      BY <1>1, <1>6, <3>2, <3>4
    <3>6. a \in Int /\ b \in Int
      BY <1>1
    <3>7. QED
      BY <1>10, <3>5, <3>6
  <2>5. given[o[a]].position \in Int /\ given[o[b]].position \in Int
    BY <1>3, <1>4, <1>6 DEF Rows
  <2>6. s[a].position < s[b].position
    <3>1. s[a].position = given[o[a]].position /\ s[b].position = given[o[b]].position
      BY <1>7, <1>10
    <3>2. \A x, y \in Int : x <= y /\ x # y => x < y
      OBVIOUS
    <3>3. given[o[a]].position < given[o[b]].position
      BY <2>2, <2>4, <2>5, <3>2
    <3>4. QED
      BY <3>1, <3>3
  <2>7. QED
    BY <2>3, <2>6
<1>11. PICK a, m \in 1 .. N : /\ a <= m /\ G = a .. m
                              /\ \A n \in G : n \in Beginnings(s) <=> n = a
                              /\ EndOf(s, a) = m
  <2>1. Len(s) = N /\ N \in Nat /\ DOMAIN s = 1 .. N
    BY <1>1, <1>7
  <2>2. G = RowsOf(s, g)
    BY <1>7 DEF RowsOf
  <2>3. \A b, d \in G : \A c \in DOMAIN s : b < c /\ c < d => c \in G
    <3>1. SUFFICES ASSUME NEW b \in G, NEW d \in G, NEW c \in DOMAIN s, b < c, c < d
                   PROVE  c \in G
      OBVIOUS
    <3>2. b \in D /\ d \in D /\ c \in D /\ GroupOf(s[b]) = g /\ GroupOf(s[d]) = g
      BY <1>7
    <3>3. b < d
      BY <1>1, <3>1, <3>2
    <3>4. GroupOf(s[c]) = g
      BY <1>10, <3>1, <3>2, <3>3
    <3>5. QED
      BY <3>2, <3>4
  <2>4. Len(s) \in Nat /\ DOMAIN s = 1 .. Len(s) /\ G # {}
    BY <1>9, <2>1
  <2> HIDE DEF G, g
  <2>5. \E a, m \in 1 .. Len(s) :
           /\ a <= m /\ G = a .. m
           /\ \A n \in G : n \in Beginnings(s) <=> n = a
           /\ EndOf(s, a) = m
    BY <2>2, <2>3, <2>4, OneInvocation
  <2>6. QED
    BY <2>1, <2>5
<1>12. a \in Nat /\ m \in Nat /\ a \in G /\ a \in Beginnings(s) /\ M = {a}
  <2>1. a \in Nat /\ m \in Nat /\ a \in a .. m
    BY <1>1, <1>11
  <2>2. a \in G
    BY <1>11, <2>1
  <2> HIDE DEF G
  <2>3. QED
    BY <1>9, <1>11, <2>1, <2>2
<1> DEFINE K == m - a + 1
<1>13. (CHOOSE n \in M : \A l \in M : n <= l) = a
  <2>1. a <= a
    BY <1>12
  <2>2. M = {a}
    BY <1>12
  <2>3. QED
    BY <2>1, <2>2
<1>14. offer[a].args = [k \in 1 .. K |-> ArgOf(s[a + k - 1])]
  BY <1>8, <1>11, <1>12
<1>15. K \in Nat /\ \A k \in 1 .. K : a + k - 1 \in a .. m
  BY <1>11, <1>12
<1> DEFINE pi == [k \in 1 .. K |-> order[o[a + k - 1]]]
<1> DEFINE p == [i \in D |-> Catalog[i].position]
<1>16. ASSUME NEW k \in 1 .. K
       PROVE  /\ pi[k] = order[o[a + k - 1]] /\ pi[k] \in Own(phase)
              /\ a + k - 1 \in D /\ s[a + k - 1] = Catalog[pi[k]] /\ GroupOf(s[a + k - 1]) = g
  <2>1. a + k - 1 \in G
    BY <1>11, <1>15
  <2>2. a + k - 1 \in D /\ GroupOf(s[a + k - 1]) = g
    BY <2>1
  <2>3. pi[k] = order[o[a + k - 1]]
    OBVIOUS
  <2> PICK n \in D : n = a + k - 1
    BY <2>2
  <2>4. o[n] \in D /\ order[o[n]] \in D /\ s[n] = Catalog[order[o[n]]]
    BY <1>1, <1>2, <1>6, <1>7
  <2>5. pi[k] \in D /\ s[a + k - 1] = Catalog[pi[k]]
    BY <2>3, <2>4
  <2>6. GroupOf(Catalog[pi[k]]) = g
    BY <2>2, <2>5
  <2>7. pi[k] \in Own(phase)
    BY <2>5, <2>6 DEF Own, GroupOf, D
  <2>8. QED
    BY <2>2, <2>3, <2>5, <2>7
<1>17. \A i \in Own(phase) : i \in D /\ GroupOf(Catalog[i]) = g /\ p[i] = Catalog[i].position /\ p[i] \in Int
  BY <1>1 DEF Own, GroupOf, D
<1>18. ASSUME NEW i \in Own(phase)
       PROVE  \E k \in 1 .. K : pi[k] = i
  <2>1. PICK j \in D : order[j] = i
    BY <1>5, <1>17
  <2>2. PICK n \in D : o[n] = j
    BY <1>6
  <2>3. s[n] = Catalog[i]
    BY <1>2, <1>7, <2>1, <2>2
  <2>4. n \in G
    BY <1>17, <2>3
  <2>5. n \in a .. m
    BY <1>11, <2>4
  <2>6. n - a + 1 \in 1 .. K /\ a + (n - a + 1) - 1 = n
    BY <1>12, <2>5
  <2> PICK k \in 1 .. K : k = n - a + 1
    BY <2>6
  <2>7. pi[k] = order[o[n]]
    BY <2>6
  <2>8. QED
    BY <2>1, <2>2, <2>7
<1>19. ASSUME NEW k \in 1 .. K, NEW l \in 1 .. K, k < l
       PROVE  p[pi[k]] < p[pi[l]]
  <2>1. a + k - 1 < a + l - 1
    BY <1>12, <1>15, <1>19
  <2>2. s[a + k - 1].position < s[a + l - 1].position
    BY <1>10, <1>16, <2>1
  <2>3. p[pi[k]] = Catalog[pi[k]].position /\ p[pi[l]] = Catalog[pi[l]].position
    BY <1>16, <1>17
  <2>4. QED
    BY <1>16, <2>2, <2>3
<1>20. pi \in [1 .. K -> Own(phase)]
  BY <1>16
<1> HIDE DEF pi, p, K, G
<1>21. /\ Cardinality(Own(phase)) = K
       /\ \A l \in 1 .. K : Cardinality(Below(Own(phase), p, pi[l])) = l - 1
  <2>1. K \in Nat
    BY <1>15
  <2>2. \A x \in Own(phase) : p[x] \in Int
    BY <1>17
  <2>3. \A x \in Own(phase) : \E k \in 1 .. K : pi[k] = x
    BY <1>18
  <2>4. \A k, l \in 1 .. K : k < l => p[pi[k]] < p[pi[l]]
    BY <1>19
  <2>5. InOrderOf(Own(phase), K, pi, p)
    BY <1>20, <2>1, <2>2, <2>3, <2>4 DEF InOrderOf
  <2>6. IsFiniteSet(Own(phase)) /\ Cardinality(Own(phase)) = K
    BY <2>5, Ordinals
  <2>7. \A l \in 1 .. K : Cardinality(Below(Own(phase), p, pi[l])) = l - 1
    BY <2>5, Ordinals
  <2>8. QED
    BY <2>6, <2>7
<1>22. ASSUME NEW l \in 1 .. K
       PROVE  (CHOOSE i \in Own(phase) :
                 Cardinality({j \in Own(phase) : Catalog[j].position < Catalog[i].position}) = l - 1)
              = pi[l]
  <2> DEFINE R(i) == Cardinality({j \in Own(phase) : Catalog[j].position < Catalog[i].position})
  <2>1. ASSUME NEW k \in 1 .. K
        PROVE  R(pi[k]) = k - 1
    <3>1. {j \in Own(phase) : Catalog[j].position < Catalog[pi[k]].position}
          = Below(Own(phase), p, pi[k])
      BY <1>16, <1>17 DEF Below
    <3>2. QED
      BY <1>21, <3>1
  <2>2. ASSUME NEW i \in Own(phase), R(i) = l - 1
        PROVE  i = pi[l]
    <3>1. PICK k \in 1 .. K : pi[k] = i
      BY <1>18
    <3>2. R(i) = k - 1
      BY <2>1, <3>1
    <3> HIDE DEF R
    <3>3. k = l
      BY <1>15, <2>2, <3>2
    <3>4. QED
      BY <3>1, <3>3
  <2>3. pi[l] \in Own(phase) /\ R(pi[l]) = l - 1
    BY <1>16, <2>1
  <2>4. (CHOOSE i \in Own(phase) : R(i) = l - 1) = pi[l]
    <3> HIDE DEF R
    <3>1. QED
      BY <2>2, <2>3
  <2>5. QED
    BY <2>4
<1>23. CatalogArgs(phase) = [l \in 1 .. K |-> ArgOf(Catalog[pi[l]])]
  <2>1. CatalogArgs(phase) = [l \in 1 .. K |-> ArgOf(Catalog[
           CHOOSE i \in Own(phase) :
              Cardinality({j \in Own(phase) : Catalog[j].position < Catalog[i].position}) = l - 1])]
    BY <1>21 DEF CatalogArgs
  <2>2. QED
    BY <1>22, <2>1
<1>24. offer[a].args = [l \in 1 .. K |-> ArgOf(Catalog[pi[l]])]
  BY <1>14, <1>16 DEF K
<1>25. QED
  BY <1>13, <1>23, <1>24

-----------------------------------------------------------------------------
(***************************************************************************)
(* What is sent.                                                           *)
(***************************************************************************)

\* What is on its way to the ECU is all the arguments of a phase.
Asked ==
    /\ \E order \in Orders : offered = invocations(Handed(order))
    /\ \A i \in 1 .. Len(inbox[Target]) :
          inbox[Target][i].data.args = CatalogArgs(inbox[Target][i].data.phase)

\* Nothing more is on its way.
LEMMA AskedStays ==
    ASSUME Asked, offered' = offered, inbox' = inbox
    PROVE  Asked'
<1>1. \A order \in Orders : invocations(Handed(order))' = invocations(Handed(order))
  OBVIOUS
<1>2. (\E order \in Orders : offered = invocations(Handed(order)))'
  BY <1>1 DEF Asked
<1>3. (\A i \in 1 .. Len(inbox[Target]) :
          inbox[Target][i].data.args = CatalogArgs(inbox[Target][i].data.phase))'
  BY DEF Asked
<1>4. QED
  BY <1>2, <1>3 DEF Asked

\* The next phase is sent with its arguments, or nothing is.
LEMMA AskedGoesOn ==
    ASSUME LinkInv, Asked, NEW attempted, NEW bad, GoOn(attempted, bad), offered' = offered
    PROVE  Asked'
<1> PICK left : left = StillToRun(attempted, bad)
  OBVIOUS
<1>1. CASE left = {}
  <2>1. inbox' = inbox
    BY <1>1 DEF GoOn, TakeAnswer
  <2>2. QED
    BY <2>1, AskedStays
<1>2. CASE left # {}
  <2> PICK phase : phase = NextOf(left)
    OBVIOUS
  <2> PICK data : data = [phase |-> phase, args |-> Picked(phase).args]
    OBVIOUS
  <2>1. Ask(Target, "2F", data)
    BY <1>2 DEF GoOn
  <2>2. phase \in left
    <3>1. left \in SUBSET Phases
      BY DEF StillToRun
    <3>2. QED
      BY <1>2, <3>1, NextIsFirst
  <2>3. data.args = CatalogArgs(data.phase)
    <3> PICK order \in Orders : offered = invocations(Handed(order))
      BY DEF Asked
    <3> PICK M : M = MatchesIn(offered, phase)
      OBVIOUS
    <3>1. M # {} /\ Picked(phase) = offered[CHOOSE n \in M : \A m \in M : n <= m]
      BY <2>2 DEF StillToRun, Defined, Matches, MatchesIn, Picked
    <3>2. Picked(phase).args = CatalogArgs(phase)
      BY <3>1, FirstIsWhole
    <3>3. QED
      BY <3>2
  <2> PICK q : q = [target |-> Target, sid |-> "2F", data |-> data, serial |-> asked + 1]
    OBVIOUS
  <2>4. IsSequence(inbox[Target]) /\ inbox'[Target] = Append(inbox[Target], q)
    <3>1. Target \in Targets
      BY RunnerAssumption
    <3>2. IsSequence(inbox[Target]) /\ inbox = [t \in Targets |-> inbox[t]]
      BY <3>1 DEF LinkInv, LinkTyped, Queues
    <3>3. inbox' = [inbox EXCEPT ![Target] = Append(inbox[Target], q)]
      BY <2>1 DEF Ask
    <3>4. QED
      BY <3>1, <3>2, <3>3
  <2> PICK box : box = inbox[Target]
    OBVIOUS
  <2> PICK n : n = Len(box)
    OBVIOUS
  <2>5. /\ n \in Nat /\ Len(inbox'[Target]) = n + 1 /\ \A i \in 1 .. n : inbox'[Target][i] = box[i]
        /\ inbox'[Target][n + 1] = q
    BY <2>4, Appended DEF IsSequence
  <2>6. ASSUME NEW i \in 1 .. Len(inbox'[Target])
        PROVE  inbox'[Target][i].data.args = CatalogArgs(inbox'[Target][i].data.phase)
    <3>1. CASE i \in 1 .. n
      <4>1. inbox'[Target][i] = box[i]
        BY <2>5, <3>1
      <4>2. box[i].data.args = CatalogArgs(box[i].data.phase)
        BY <3>1 DEF Asked
      <4>3. QED
        BY <4>1, <4>2
    <3>2. CASE i = n + 1
      <4>1. inbox'[Target][i].data = data
        BY <2>5, <3>2
      <4>2. QED
        BY <2>3, <4>1
    <3>3. QED
      BY <2>5, <3>1, <3>2
  <2>7. \E order \in Orders : offered' = invocations(Handed(order))
    BY DEF Asked
  <2>8. QED
    BY <2>6, <2>7 DEF Asked
<1>3. QED
  BY <1>1, <1>2

\* The ECU takes its next request.
LEMMA AskedIsTaken ==
    ASSUME LinkInv, Asked, NEW t \in Targets, Handles(t), offered' = offered
    PROVE  Asked'
<1>1. /\ Target \in Targets /\ inbox = [u \in Targets |-> inbox[u]]
      /\ inbox' = [inbox EXCEPT ![t] = Tail(inbox[t])] /\ inbox[t] # <<>>
  BY RunnerAssumption DEF LinkInv, LinkTyped, Handles
<1>2. CASE t = Target
  <2> PICK box : box = inbox[Target]
    OBVIOUS
  <2>1. IsSequence(box) /\ box # <<>> /\ inbox'[Target] = Tail(box)
    BY <1>1, <1>2 DEF LinkInv, Queues
  <2> PICK n : n = Len(box)
    OBVIOUS
  <2>2. n \in Nat /\ Len(Tail(box)) = n - 1 /\ \A i \in 1 .. n - 1 : Tail(box)[i] = box[i + 1]
    BY <2>1, Taken DEF IsSequence
  <2>3. ASSUME NEW i \in 1 .. Len(inbox'[Target])
        PROVE  inbox'[Target][i].data.args = CatalogArgs(inbox'[Target][i].data.phase)
    <3>1. i \in 1 .. n - 1 /\ i + 1 \in 1 .. n
      BY <2>1, <2>2
    <3>2. inbox'[Target][i] = box[i + 1]
      BY <2>1, <2>2, <3>1
    <3>3. box[i + 1].data.args = CatalogArgs(box[i + 1].data.phase)
      BY <3>1 DEF Asked
    <3>4. QED
      BY <3>2, <3>3
  <2>4. \E order \in Orders : offered' = invocations(Handed(order))
    BY DEF Asked
  <2>5. QED
    BY <2>3, <2>4 DEF Asked
<1>3. CASE t # Target
  <2>1. inbox'[Target] = inbox[Target]
    BY <1>1, <1>3
  <2>2. \E order \in Orders : offered' = invocations(Handed(order))
    BY DEF Asked
  <2>3. QED
    BY <2>1, <2>2 DEF Asked
<1>4. QED
  BY <1>2, <1>3

-----------------------------------------------------------------------------
(***************************************************************************)
(* The theorems.                                                           *)
(***************************************************************************)

\* The inductive invariant: a run that is between phases asks nothing, what passed
\* held, the phases attempted are a beginning of the lifecycle, and without a
\* request given up the component does what the last reply says (runner.rs).
THEOREM RunnerInvariant == Spec => []IInv
<1>1. Init => IInv
  <2> SUFFICES ASSUME Init
               PROVE  IInv
    OBVIOUS
  <2>1. /\ LinkInit /\ stage = "idle" /\ preconditions = <<>> /\ phases = <<>> /\ failed = FALSE
        /\ report = Nothing
    BY DEF Init
  <2>2. IsSequence(<<>>) /\ Len(<<>>) = 0
    <3>1. <<>> \in Seq({}) /\ Len(<<>>) = 0
      BY EmptySeq
    <3>2. QED
      BY <3>1, Listed
  <2>3. LinkInv
    BY <2>1, LinkStarts
  <2>4. Waits /\ Reported /\ TeardownIsHonest
    BY <2>1 DEF Waits, Reported, TeardownIsHonest, LinkInit, Phases
  <2>5. Allowed /\ Lifecycle
    <3>1. IsSequence(preconditions) /\ Len(preconditions) = 0 /\ IsSequence(phases)
      BY <2>1, <2>2
    <3>2. stage \notin Phases
      BY <2>1 DEF Phases
    <3>3. Allowed
      BY <3>1, <3>2 DEF Allowed, Running
    <3>4. Lifecycle
      BY <2>1, <3>1, <3>2 DEF Lifecycle
    <3>5. QED
      BY <3>3, <3>4
  <2>6. Carried
    BY <2>1, <2>2 DEF Carried, LinkInit
  <2>7. QED
    BY <2>3, <2>4, <2>5, <2>6 DEF IInv
<1>2. IInv /\ [Next]_vars => IInv'
  <2> SUFFICES ASSUME IInv, [Next]_vars
               PROVE  IInv'
    OBVIOUS
  <2>1. CASE RunService
    BY <2>1, Begins
  <2>2. CASE Check
    BY <2>2, Checks
  <2>3. CASE Decide
    BY <2>3, Decides
  <2>4. CASE TakePhase
    BY <2>4, TakesPhase
  <2>5. CASE Drop
    BY <2>5, Drops
  <2>6. CASE VehicleChanges
    BY <2>6, Changes
  <2>7. CASE GiveUp /\ UNCHANGED <<runVars, worldVars>>
    BY <2>7, Fails
  <2>8. CASE (\E t \in Targets : Deliver(t)) /\ UNCHANGED <<runVars, worldVars>>
    BY <2>8, Arrives
  <2>9. CASE \E t \in Targets : EcuActs(t) \/ EcuRefuses(t)
    BY <2>9, Serves
  <2>10. CASE UNCHANGED vars
    <3>1. UNCHANGED linkVars /\ UNCHANGED runVars /\ component' = component
      BY <2>10 DEF vars, worldVars
    <3>2. LinkInv'
      BY <3>1, LinkStutters DEF IInv
    <3>3. Waits' /\ Carried'
      BY <3>1 DEF IInv, Waits, Carried, linkVars, runVars
    <3>4. TeardownIsHonest'
      BY <3>1, ReportStands DEF runVars, linkVars
    <3>5. QED
      BY <3>1, <3>2, <3>3, <3>4, RunUnmoved DEF IInv
  <2>11. QED
    BY <2>1, <2>2, <2>3, <2>4, <2>5, <2>6, <2>7, <2>8, <2>9, <2>10 DEF Next, Finished
<1>3. QED
  BY <1>1, <1>2, PTL DEF Spec

\* Nothing is sent past a precondition that resolved and failed, and none passes
\* that did not hold when it was read (precondition.rs:109-113, 173-220).
THEOREM SendsOnlyIfAllowed == Spec => []SentOnlyIfAllowed
<1>1. IInv => SentOnlyIfAllowed
  <2> SUFFICES ASSUME IInv, Running, NEW i \in DOMAIN preconditions
               PROVE  /\ preconditions[i].verdict # "failed"
                      /\ preconditions[i].verdict = "passed" => preconditions[i].held
    BY DEF SentOnlyIfAllowed
  <2>1. i \in 1 .. Len(preconditions)
    BY DEF IInv, Allowed, IsSequence
  <2>2. QED
    BY <2>1 DEF IInv, Allowed, Blocks
<1>2. QED
  BY <1>1, RunnerInvariant, PTL

\* The function is actuated only after its Preset, if it has one, was reported done
\* in the same run (runner.rs:101-111).
THEOREM ActuatesPrepared == Spec => []UnpreparedIsNotActuated
<1>1. IInv => UnpreparedIsNotActuated
  <2> SUFFICES ASSUME IInv, stage = "Main", Defined("Preset")
               PROVE  \E i \in DOMAIN phases : phases[i].phase = "Preset" /\ ~phases[i].error
    BY DEF UnpreparedIsNotActuated
  <2>1. /\ ~failed /\ "Preset" \notin StillToRun(phases, failed) /\ IsSequence(phases)
        /\ \A i \in 1 .. Len(phases) : ~phases[i].error
    BY DEF IInv, Lifecycle, Phases
  <2>2. "Preset" \in Ran(phases)
    BY <2>1 DEF StillToRun, Phases
  <2>3. DOMAIN phases = 1 .. Len(phases)
    BY <2>1 DEF IsSequence
  <2>4. QED
    BY <2>1, <2>2, <2>3 DEF Ran
<1>2. QED
  BY <1>1, RunnerInvariant, PTL

\* A run that sent anything has run the teardown the function defines, and without
\* a request given up a teardown that ran leaves the component safe
\* (runner.rs:80-84, 113-136).
THEOREM ReportsTeardown == Spec => []TeardownIsHonest
<1>1. IInv => TeardownIsHonest
  BY DEF IInv
<1>2. QED
  BY <1>1, RunnerInvariant, PTL

\* What the ECU is sent is all the arguments of a phase of the requested function,
\* in the order of their positions, however the rows were handed over and whatever
\* other functions the job carries (runner.rs:67-76, 92-96, phase.rs:57-102).
THEOREM SendsOnlyTheFunction == Spec => []OnlyTheRequestedFunction
<1>1. Init => Asked
  <2> SUFFICES ASSUME Init
               PROVE  Asked
    OBVIOUS
  <2>1. \E order \in Orders : offered = invocations(Handed(order))
    BY DEF Init, Handed
  <2>2. inbox[Target] = <<>>
    BY RunnerAssumption DEF Init, LinkInit
  <2>3. \A i \in 1 .. Len(inbox[Target]) : FALSE
    BY <2>2
  <2>4. QED
    BY <2>1, <2>3 DEF Asked
<1>2. IInv /\ Asked /\ [Next]_vars => Asked'
  <2> SUFFICES ASSUME IInv, Asked, [Next]_vars
               PROVE  Asked'
    OBVIOUS
  <2>0. LinkInv
    BY DEF IInv
  <2>1. CASE RunService \/ Check \/ Drop \/ VehicleChanges \/ UNCHANGED vars
    <3>1. offered' = offered /\ inbox' = inbox
      BY <2>1 DEF RunService, Check, Drop, VehicleChanges, vars, runVars, linkVars, Abandon
    <3>2. QED
      BY <3>1, AskedStays
  <2>2. CASE Decide
    <3>1. offered' = offered /\ (UNCHANGED linkVars \/ GoOn(<<>>, FALSE))
      BY <2>2 DEF Decide
    <3>2. CASE UNCHANGED linkVars
      BY <3>1, <3>2, AskedStays DEF linkVars
    <3>3. CASE GoOn(<<>>, FALSE)
      BY <2>0, <3>1, <3>3, AskedGoesOn
    <3>4. QED
      BY <3>1, <3>2, <3>3
  <2>3. CASE TakePhase
    <3>1. offered' = offered /\ \E attempted, bad : GoOn(attempted, bad)
      BY <2>3, Zenon DEF TakePhase
    <3>2. QED
      BY <2>0, <3>1, AskedGoesOn
  <2>4. CASE (GiveUp \/ \E t \in Targets : Deliver(t)) /\ UNCHANGED <<runVars, worldVars>>
    <3>1. offered' = offered /\ inbox' = inbox
      BY <2>4 DEF GiveUp, Deliver, runVars
    <3>2. QED
      BY <3>1, AskedStays
  <2>5. CASE \E t \in Targets : EcuActs(t) \/ EcuRefuses(t)
    <3>1. PICK t \in Targets : Handles(t) /\ offered' = offered
      BY <2>5 DEF EcuActs, EcuRefuses, runVars
    <3>2. QED
      BY <2>0, <3>1, AskedIsTaken
  <2>6. QED
    BY <2>1, <2>2, <2>3, <2>4, <2>5 DEF Next, Finished
<1>3. IInv /\ Asked => OnlyTheRequestedFunction
  <2> SUFFICES ASSUME IInv, Asked
               PROVE  OnlyTheRequestedFunction
    OBVIOUS
  <2>1. IsSequence(inbox[Target])
    BY RunnerAssumption DEF IInv, LinkInv, Queues
  <2>2. DOMAIN inbox[Target] = 1 .. Len(inbox[Target])
    BY <2>1 DEF IsSequence
  <2>3. QED
    BY <2>2 DEF Asked, OnlyTheRequestedFunction
<1>4. QED
  BY <1>1, <1>2, <1>3, RunnerInvariant, PTL DEF Spec

=============================================================================
