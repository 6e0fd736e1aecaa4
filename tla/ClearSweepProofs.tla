-------------------------- MODULE ClearSweepProofs --------------------------
(***************************************************************************)
(* The whole-car clear: what its reports claim was done since they were    *)
(* begun, nothing unrecorded is erased, and no ECU is reset whose clears   *)
(* all failed.                                                             *)
(***************************************************************************)
EXTENDS ClearSweep, EcuLinkProofs, WellFoundedInduction

USE ClearAssumption

Clearing == {"pre_read", "enter", "clear", "post_read"}
Resetting == {"reset_enter", "reset"}

\* A report has the fields of one.
IsRecord(r) ==
    r = [address |-> r.address, before |-> r.before, after_relevant |-> r.after_relevant,
         verified_clean |-> r.verified_clean, reset_performed |-> r.reset_performed,
         error |-> r.error, stored |-> r.stored, clears |-> r.clears, resets |-> r.resets,
         read_after |-> r.read_after, suspect |-> r.suspect]

\* It is about the address of its place, and counts no more than its ECU.
IsReport(i) ==
    /\ IsRecord(reports[i])
    /\ reports[i].address = Addresses[i]
    /\ reports[i].clears \in Nat /\ reports[i].clears <= clears[reports[i].address]
    /\ reports[i].resets \in Nat /\ reports[i].resets <= resets[reports[i].address]

Typed ==
    /\ sweeps \in Nat
    /\ clears \in [Targets -> Nat] /\ resets \in [Targets -> Nat]
    /\ memory = [t \in Targets |-> memory[t]]
    /\ IsSequence(reports) /\ Len(reports) <= Len(Addresses)
    /\ \A i \in 1 .. Len(reports) : IsReport(i)

\* What a stage asks, and of whom.
IsOfStage(q) ==
    /\ stage \in Clearing => q.target = Current.address
    /\ stage \in Resetting => q.target = reports[First(to_reset)].address
    /\ stage \in {"pre_read", "post_read"} => q.sid = "19"
    /\ stage \in {"enter", "reset_enter"} => q.sid = "10"
    /\ stage = "clear" => q.sid = "14"
    /\ stage = "reset" => q.sid = "11"

Awaits ==
    /\ stage \in {"idle"} \union Clearing \union Resetting
    /\ stage = "idle" => open = NoRequest /\ answer = NoAnswer
    /\ open # NoRequest => IsOfStage(open)
    /\ answer # NoAnswer => IsOfStage(answer.request)

\* The resets begin once every address has its report, and only where one of
\* them has no error.
ResetPass ==
    stage \in Resetting =>
        /\ Len(reports) = Len(Addresses)
        /\ to_reset # {}
        /\ \A i \in to_reset : /\ i \in 1 .. Len(reports) /\ reports[i].error = "none"
                               /\ reports[i].address # Gateway

\* A report begun while its ECU owed nothing goes on only while it owes nothing.
Failed == answer # NoAnswer /\ answer.kind = "failed"
Punctual ==
    stage \in Clearing => Len(reports) > 0 /\ (Current.suspect \/ Failed \/ ~Late(Current.address))

\* Whoever says that a clear or a reset was executed says so since a report was
\* begun at which nothing was owed.
DoneSince(kind, cause, i) ==
    kind = "ok" /\ cause.target = reports[i].address =>
        /\ cause.sid = "14" => clears[reports[i].address] > reports[i].clears
        /\ cause.sid = "11" => resets[reports[i].address] > reports[i].resets

Fresh ==
    \A i \in 1 .. Len(reports) : ~reports[i].suspect =>
        /\ \A k \in 1 .. Len(outbox[reports[i].address]) :
              DoneSince(outbox[reports[i].address][k].kind,
                        outbox[reports[i].address][k].cause, i)
        /\ answer # NoAnswer => DoneSince(answer.kind, answer.cause, i)

\* The first read takes what was stored, and no clear can come between.
HoldsStored(faults) == Current.stored \subseteq faults
Recording ==
    stage = "pre_read" /\ ~Current.suspect =>
        /\ ~Failed => HoldsStored(memory[Current.address])
        /\ \A k \in 1 .. Len(outbox[Current.address]) :
              outbox[Current.address][k].kind = "ok" /\ outbox[Current.address][k].cause = open =>
                 HoldsStored(outbox[Current.address][k].content.faults)
        /\ answer # NoAnswer /\ answer.kind = "ok" /\ answer.cause = answer.request =>
              HoldsStored(answer.content.faults)

\* The second read is taken after the clear.
Verifying ==
    stage = "post_read" /\ ~Current.suspect =>
        /\ clears[Current.address] > Current.clears
        /\ \A k \in 1 .. Len(outbox[Current.address]) :
              outbox[Current.address][k].kind = "ok" /\ outbox[Current.address][k].cause = open =>
                 outbox[Current.address][k].content.clears > Current.clears
        /\ answer # NoAnswer /\ answer.kind = "ok" /\ answer.cause = answer.request =>
              answer.content.clears > Current.clears

\* What was stored is on record before a clear is sent, whenever it is executed.
Recorded(i) == reports[i].suspect \/ reports[i].stored \subseteq reports[i].before

KnownClear(data) ==
    /\ data[1] \in Nat /\ data[1] <= sweeps
    /\ data[1] = sweeps => data[2] \in 1 .. Len(reports) /\ Recorded(data[2])

ClearsAreKnown ==
    /\ stage \in {"enter", "clear", "post_read"} => Recorded(Len(reports))
    /\ \A t \in Targets : \A k \in 1 .. Len(inbox[t]) :
          inbox[t][k].sid = "14" => KnownClear(inbox[t][k].data)
    /\ \A e \in erased : KnownClear(e.report)

IInv ==
    /\ LinkInv
    /\ Typed
    /\ Awaits
    /\ ResetPass
    /\ Punctual
    /\ Fresh
    /\ Recording
    /\ Verifying
    /\ ClearsAreKnown
    /\ ReportsAreBacked

-----------------------------------------------------------------------------
(***************************************************************************)
(* Reports.                                                                *)
(***************************************************************************)

\* A report that went on: its history is what it was, and what it had on record
\* is still there.
Continues(new, old) ==
    /\ IsRecord(new)
    /\ new.address = old.address /\ new.stored = old.stored /\ new.clears = old.clears
    /\ new.resets = old.resets /\ new.suspect = old.suspect
    /\ old.suspect \/ (old.stored \subseteq old.before => new.stored \subseteq new.before)

\* What one of them claims is backed.
Backed(report, executed) ==
    ~report.suspect =>
        /\ report.verified_clean => report.read_after > report.clears
        /\ report.reset_performed = "ok" => executed > report.resets

\* What the steps write into a report.
LEMMA Edits ==
    ASSUME NEW r, IsRecord(r), NEW x
    PROVE  /\ Continues(r, r)
           /\ \A new : new = [r EXCEPT !.error = x] =>
                 /\ Continues(new, r) /\ new.before = r.before
                 /\ new.verified_clean = r.verified_clean /\ new.read_after = r.read_after
                 /\ new.reset_performed = r.reset_performed
           /\ \A new : new = [r EXCEPT !.reset_performed = x] =>
                 /\ Continues(new, r) /\ new.before = r.before /\ new.error = r.error
                 /\ new.verified_clean = r.verified_clean /\ new.read_after = r.read_after
                 /\ new.reset_performed = x
<1> USE DEF IsRecord, Continues
<1>1. Continues(r, r)
  OBVIOUS
<1>2. ASSUME NEW new, new = [r EXCEPT !.error = x]
      PROVE  /\ Continues(new, r) /\ new.before = r.before
             /\ new.verified_clean = r.verified_clean /\ new.read_after = r.read_after
             /\ new.reset_performed = r.reset_performed
  BY <1>2
<1>3. ASSUME NEW new, new = [r EXCEPT !.reset_performed = x]
      PROVE  /\ Continues(new, r) /\ new.before = r.before /\ new.error = r.error
             /\ new.verified_clean = r.verified_clean /\ new.read_after = r.read_after
             /\ new.reset_performed = x
  BY <1>3
<1>4. QED
  BY <1>1, <1>2, <1>3

\* The first of a list of reports is one of them.
LEMMA FirstIsListed ==
    ASSUME NEW S \in SUBSET Nat, S # {}
    PROVE  First(S) \in S
<1>1. PICK m \in S : \A k \in S : <<k, m>> \notin OpToRel(<, Nat)
  BY WFMin, NatLessThanWellFounded, Zenon
<1>2. \A k \in S : ~(k < m)
  BY <1>1, Zenon DEF OpToRel
<1>3. \A k \in S : m <= k
  BY <1>2
<1>4. QED
  BY <1>3, Zenon DEF First

\* An ECU that is asked nothing and owes nothing late owes nothing.
LEMMA NothingOwed ==
    ASSUME LinkInv, NEW t \in Targets, ~Late(t)
    PROVE  /\ \A k \in 1 .. Len(inbox[t]) : open # NoRequest /\ inbox[t][k] = open
           /\ \A k \in 1 .. Len(outbox[t]) : open # NoRequest /\ outbox[t][k].cause = open
<1>1. \A q : Owed(t, q) => q = open /\ q # NoRequest
  BY DEF LinkInv, LinkTyped, Owed, NoRequest
<1>2. QED
  BY <1>1 DEF LinkInv, Queues

\* A request that is sent joins its queue, and nothing else does.
LEMMA Joins ==
    ASSUME LinkInv, NEW t, NEW sid, NEW data, Ask(t, sid, data)
    PROVE  \A u \in Targets : \A k \in 1 .. Len(inbox'[u]) :
              inbox'[u][k] = open' \/ \E j \in 1 .. Len(inbox[u]) : inbox'[u][k] = inbox[u][j]
<1>1. inbox' = [inbox EXCEPT ![t] = Append(inbox[t], open')]
  BY DEF Ask
<1> PICK q : q = open'
  OBVIOUS
<1>2. ASSUME NEW u \in Targets
      PROVE  IsSequence(inbox[u]) /\ (inbox'[u] = inbox[u] \/ inbox'[u] = Append(inbox[u], q))
  BY <1>1 DEF LinkInv, LinkTyped, Queues
<1>3. ASSUME NEW u \in Targets, NEW k \in 1 .. Len(inbox'[u])
      PROVE  inbox'[u][k] = q \/ \E j \in 1 .. Len(inbox[u]) : inbox'[u][k] = inbox[u][j]
  <2>1. CASE inbox'[u] = inbox[u]
    BY <2>1
  <2>2. CASE inbox'[u] = Append(inbox[u], q)
    <3>1. /\ Len(inbox[u]) \in Nat /\ Len(inbox'[u]) = Len(inbox[u]) + 1
          /\ \A i \in 1 .. Len(inbox[u]) : inbox'[u][i] = inbox[u][i]
          /\ inbox'[u][Len(inbox[u]) + 1] = q
      BY <1>2, <2>2, Appended DEF IsSequence
    <3>2. QED
      BY <3>1
  <2>3. QED
    BY <1>2, <2>1, <2>2
<1>4. QED
  BY <1>3

\* A request that is handled leaves its queue.
LEMMA Leaves ==
    ASSUME LinkInv, NEW t \in Targets, Handles(t)
    PROVE  /\ 1 \in 1 .. Len(inbox[t]) /\ Head(inbox[t]) = inbox[t][1]
           /\ \A u \in Targets : \A k \in 1 .. Len(inbox'[u]) :
                 \E j \in 1 .. Len(inbox[u]) : inbox'[u][k] = inbox[u][j]
<1>1. /\ inbox[t] # <<>> /\ IsSequence(inbox[t])
      /\ \A u \in Targets : inbox'[u] = IF u = t THEN Tail(inbox[t]) ELSE inbox[u]
  BY DEF Handles, LinkInv, LinkTyped, Queues
<1>2. /\ Len(inbox[t]) \in Nat /\ Len(inbox[t]) > 0 /\ Head(inbox[t]) = inbox[t][1]
      /\ Len(Tail(inbox[t])) = Len(inbox[t]) - 1
      /\ \A i \in 1 .. Len(inbox[t]) - 1 : Tail(inbox[t])[i] = inbox[t][i + 1]
  BY <1>1, Taken DEF IsSequence
<1>3. ASSUME NEW u \in Targets, NEW k \in 1 .. Len(inbox'[u])
      PROVE  \E j \in 1 .. Len(inbox[u]) : inbox'[u][k] = inbox[u][j]
  <2>1. CASE u = t
    <3>1. inbox'[u] = Tail(inbox[t]) /\ k \in 1 .. Len(inbox[t]) - 1
      BY <1>1, <1>2, <2>1
    <3>2. k + 1 \in 1 .. Len(inbox[t]) /\ inbox'[u][k] = inbox[t][k + 1]
      BY <1>2, <3>1
    <3>3. QED
      BY <2>1, <3>2
  <2>2. CASE u # t
    BY <1>1, <2>2
  <2>3. QED
    BY <2>1, <2>2
<1>4. QED
  BY <1>2, <1>3

-----------------------------------------------------------------------------
(***************************************************************************)
(* The steps.                                                              *)
(***************************************************************************)

\* In the beginning.
LEMMA Starts ==
    ASSUME Init
    PROVE  IInv
<1> USE DEF Init
<1>1. LinkInv
  BY LinkStarts
<1>2. /\ open = NoRequest /\ answer = NoAnswer
      /\ \A t \in Targets : inbox[t] = <<>> /\ outbox[t] = <<>>
  BY DEF LinkInit
<1>3. /\ IsSequence(<<>>) /\ Len(<<>>) = 0
  <2>1. <<>> \in Seq({})
    BY EmptySeq
  <2>2. QED
    BY <2>1, Listed
<1>4. Typed
  BY <1>3 DEF Typed
<1>5. Awaits /\ ResetPass /\ Punctual /\ Recording /\ Verifying
  BY <1>2 DEF Awaits, ResetPass, Punctual, Recording, Verifying, Clearing, Resetting
<1>6. Fresh /\ ReportsAreBacked
  <2>1. DOMAIN reports = {}
    BY <1>3 DEF IsSequence
  <2>2. QED
    BY <1>3, <2>1 DEF Fresh, ReportsAreBacked
<1>7. ClearsAreKnown
  BY <1>2, <1>3 DEF ClearsAreKnown
<1>8. QED
  BY <1>1, <1>4, <1>5, <1>6, <1>7 DEF IInv

\* The reports go on: what was known of them still is.
LEMMA GoOn ==
    ASSUME IInv, sweeps' = sweeps, UNCHANGED <<clears, resets>>,
           Len(reports) <= Len(reports'), IsSequence(reports'),
           \A i \in 1 .. Len(reports) : Continues(reports'[i], reports[i])
    PROVE  /\ \A i \in 1 .. Len(reports) : IsReport(i)' /\ (Recorded(i) => Recorded(i)')
           /\ \A data : KnownClear(data) => KnownClear(data)'
<1>1. \A i \in 1 .. Len(reports) : IsReport(i)'
  BY DEF IInv, Typed, IsReport, Continues
<1>2. \A i \in 1 .. Len(reports) : Recorded(i) => Recorded(i)'
  BY DEF Recorded, Continues
<1>3. Len(reports) \in Nat /\ Len(reports') \in Nat
  BY DEF IInv, Typed, IsSequence
<1>4. ASSUME NEW data, KnownClear(data)
      PROVE  KnownClear(data)'
  BY <1>2, <1>3, <1>4 DEF KnownClear
<1>5. QED
  BY <1>1, <1>2, <1>4

\* A report that is begun.
LEMMA Begun ==
    ASSUME IInv, NEW t \in Targets, NEW r, r = NewReport(t)
    PROVE  /\ IsRecord(r) /\ r.address = t /\ r.stored = memory[t] /\ r.clears = clears[t]
           /\ r.resets = resets[t] /\ r.verified_clean = FALSE /\ r.reset_performed = "none"
           /\ r.before = {} /\ r.suspect = Late(t) /\ r.error = "none"
           /\ Backed(r, resets[t])
<1>1. IsRecord(r)
  BY Zenon DEF NewReport, IsRecord
<1>2. /\ r.address = t /\ r.stored = memory[t] /\ r.clears = clears[t]
      /\ r.resets = resets[t] /\ r.verified_clean = FALSE /\ r.reset_performed = "none"
      /\ r.before = {} /\ r.suspect = Late(t) /\ r.error = "none"
  BY DEF NewReport
<1>3. QED
  BY <1>1, <1>2 DEF Backed

\* The caller takes an answer: the reports go on, and one may be begun.
LEMMA Moves ==
    ASSUME IInv, open = NoRequest, sweeps' = sweeps,
           UNCHANGED ecuVars, UNCHANGED <<outbox, given_up, synced>>, answer' = NoAnswer,
           IsSequence(reports'),
           \A i \in 1 .. Len(reports) : /\ Continues(reports'[i], reports[i])
                                        /\ Backed(reports'[i], resets[reports[i].address]),
           \/ Len(reports') = Len(reports)
           \/ /\ Len(reports') = Len(reports) + 1 /\ Len(reports) < Len(Addresses)
              /\ reports'[Len(reports) + 1] = NewReport(Addresses[Len(reports) + 1])
    PROVE  Typed' /\ Fresh' /\ ReportsAreBacked'
<1>0. /\ memory' = memory /\ clears' = clears /\ resets' = resets
      /\ Len(reports) \in Nat /\ Len(reports') \in Nat /\ Len(reports) <= Len(reports')
      /\ LinkInv /\ Typed /\ Fresh
  <2>1. memory' = memory /\ clears' = clears /\ resets' = resets
    BY DEF ecuVars
  <2>2. Len(reports) \in Nat /\ Len(reports') \in Nat
    BY DEF IInv, Typed, IsSequence
  <2>3. LinkInv /\ Typed /\ Fresh
    BY DEF IInv
  <2>4. QED
    BY <2>1, <2>2, <2>3
<1>1. \A i \in 1 .. Len(reports) : IsReport(i)'
  BY <1>0, GoOn
<1> PICK n : n = Len(reports) + 1
  OBVIOUS
<1>2. ASSUME Len(reports') = n
      PROVE  /\ Addresses[n] \in Targets
             /\ IsReport(n)' /\ reports'[n].address = Addresses[n]
             /\ reports'[n].suspect = Late(Addresses[n])
             /\ Backed(reports'[n], resets[reports'[n].address])
  <2>1. n \in 1 .. Len(Addresses) /\ reports'[n] = NewReport(Addresses[n])
    BY <1>0, <1>2
  <2>2. Addresses[n] \in Targets
    BY <2>1
  <2> PICK r : r = reports'[n]
    OBVIOUS
  <2>3. /\ IsRecord(r) /\ r.address = Addresses[n] /\ r.clears = clears[Addresses[n]]
        /\ r.resets = resets[Addresses[n]] /\ r.suspect = Late(Addresses[n])
        /\ Backed(r, resets[Addresses[n]])
    BY <2>1, <2>2, Begun
  <2>4. clears[Addresses[n]] \in Nat /\ resets[Addresses[n]] \in Nat
    BY <1>0, <2>2 DEF Typed
  <2>5. IsReport(n)'
    <3>1. /\ IsRecord(reports'[n]) /\ reports'[n].address = Addresses[n]
          /\ reports'[n].clears = clears'[Addresses[n]] /\ reports'[n].clears \in Nat
          /\ reports'[n].resets = resets'[Addresses[n]] /\ reports'[n].resets \in Nat
      BY <1>0, <2>3, <2>4
    <3>2. QED
      BY <3>1 DEF IsReport
  <2>6. QED
    BY <2>2, <2>3, <2>5
<1>3. \A i \in 1 .. Len(reports') : i \in 1 .. Len(reports) \/ (i = n /\ Len(reports') = n)
  BY <1>0
<1>4. Typed'
  <2>1. Len(reports') <= Len(Addresses)
    BY <1>0 DEF Typed
  <2>2. \A i \in 1 .. Len(reports') : IsReport(i)'
    BY <1>1, <1>2, <1>3
  <2>3. memory' = [t \in Targets |-> memory'[t]] /\ sweeps' \in Nat
    BY <1>0 DEF Typed
  <2>4. clears' \in [Targets -> Nat] /\ resets' \in [Targets -> Nat]
    BY <1>0 DEF Typed
  <2>5. QED
    BY <2>1, <2>2, <2>3, <2>4 DEF Typed
<1>5. Fresh'
  <2>1. ASSUME NEW i \in 1 .. Len(reports), ~reports'[i].suspect,
               NEW k \in 1 .. Len(outbox'[reports'[i].address])
        PROVE  DoneSince(outbox[reports[i].address][k].kind, outbox[reports[i].address][k].cause, i)'
    <3>1. ~reports[i].suspect /\ k \in 1 .. Len(outbox[reports[i].address])
      BY <2>1 DEF Continues
    <3>2. DoneSince(outbox[reports[i].address][k].kind, outbox[reports[i].address][k].cause, i)
      BY <1>0, <3>1 DEF Fresh
    <3>3. QED
      BY <1>0, <3>2 DEF DoneSince, Continues
  <2>2. ASSUME Len(reports') = n, ~reports'[n].suspect,
               NEW k \in 1 .. Len(outbox'[reports'[n].address])
        PROVE  FALSE
    <3>1. ~Late(Addresses[n]) /\ k \in 1 .. Len(outbox[Addresses[n]])
      BY <1>2, <2>2
    <3>2. QED
      BY <1>0, <1>2, <2>2, <3>1, NothingOwed
  <2>3. QED
    BY <1>3, <2>1, <2>2 DEF Fresh, Continues
<1>6. ReportsAreBacked'
  <2>1. DOMAIN reports' = 1 .. Len(reports')
    BY DEF IsSequence
  <2>2. \A i \in 1 .. Len(reports') : Backed(reports'[i], resets'[reports'[i].address])
    BY <1>0, <1>2, <1>3 DEF Continues
  <2>3. QED
    BY <2>1, <2>2 DEF ReportsAreBacked, Backed
<1>7. QED
  BY <1>4, <1>5, <1>6

-----------------------------------------------------------------------------

\* What is known of the clears on their way.
LEMMA Known ==
    ASSUME IInv, sweeps' = sweeps, UNCHANGED <<clears, resets>>, erased' = erased,
           Len(reports) <= Len(reports'), IsSequence(reports'),
           \A i \in 1 .. Len(reports) : Continues(reports'[i], reports[i]),
           \A u \in Targets : \A k \in 1 .. Len(inbox'[u]) :
              \/ \E j \in 1 .. Len(inbox[u]) : inbox'[u][k] = inbox[u][j]
              \/ inbox'[u][k] = open' /\ (open'.sid = "14" => KnownClear(open.data)')
    PROVE  /\ \A u \in Targets : \A k \in 1 .. Len(inbox'[u]) :
                 inbox'[u][k].sid = "14" => KnownClear(inbox[u][k].data)'
           /\ \A e \in erased' : KnownClear(e.report)'
<1>1. \A data : KnownClear(data) => KnownClear(data)'
  BY GoOn
<1>2. ASSUME NEW u \in Targets, NEW k \in 1 .. Len(inbox'[u]), inbox'[u][k].sid = "14"
      PROVE  \A data : data = inbox'[u][k].data => KnownClear(data)'
  <2>1. CASE \E j \in 1 .. Len(inbox[u]) : inbox'[u][k] = inbox[u][j]
    BY <1>1, <1>2, <2>1 DEF IInv, ClearsAreKnown
  <2>2. CASE inbox'[u][k] = open' /\ (open'.sid = "14" => KnownClear(open.data)')
    BY <1>2, <2>2 DEF KnownClear, Recorded
  <2>3. QED
    BY <2>1, <2>2
<1>3. \A e \in erased' : \A data : data = e.report => KnownClear(data)'
  BY <1>1 DEF IInv, ClearsAreKnown
<1>4. QED
  BY <1>2, <1>3 DEF KnownClear, Recorded

\* A report is begun with its first read.
LEMMA Reads ==
    ASSUME LinkInv, open = NoRequest, NEW t \in Targets, NEW data, Ask(t, "19", data),
           stage' = "pre_read", memory' = memory, IsSequence(reports'),
           Len(reports') > 0, reports'[Len(reports')] = NewReport(t)
    PROVE  /\ LinkInv' /\ Awaits' /\ ResetPass' /\ Punctual' /\ Recording' /\ Verifying'
           /\ open'.sid = "19"
<1>1. LinkInv'
  BY LinkAsks
<1>2. /\ open'.target = t /\ open'.sid = "19" /\ answer' = NoAnswer /\ outbox' = outbox
      /\ given_up' = given_up /\ synced' = synced
  BY DEF Ask
<1> PICK r : r = Current'
  OBVIOUS
<1>3. r.address = t /\ r.suspect = Late(t) /\ r.stored = memory[t]
  BY DEF Current, NewReport
<1>4. Awaits'
  BY <1>2, <1>3 DEF Awaits, IsOfStage, Clearing, Resetting
<1>5. ResetPass' /\ Verifying'
  BY DEF ResetPass, Verifying, Resetting
<1>6. Late(t)' = Late(t)
  BY <1>2 DEF Late
<1>7. Punctual'
  <2>1. r.suspect \/ ~Late(t)'
    BY <1>3, <1>6
  <2>2. r.suspect \/ ~Late(Current.address)'
    BY <1>3, <2>1 DEF Late
  <2>3. QED
    BY <2>2 DEF Punctual
<1>8. Recording'
  <2>1. SUFFICES ASSUME ~r.suspect
                 PROVE  Recording'
    BY DEF Recording
  <2>2. \A k \in 1 .. Len(outbox[t]) : FALSE
    BY <1>3, <2>1, NothingOwed
  <2>3. Current'.address = t /\ memory'[t] = Current'.stored
    BY <1>3
  <2>4. QED
    BY <1>2, <2>2, <2>3 DEF Recording, HoldsStored
<1>9. QED
  BY <1>1, <1>2, <1>4, <1>5, <1>7, <1>8

\* A sequence with another member at one place.
With(s, n, x) == [s EXCEPT ![n] = x]

LEMMA Replaced ==
    ASSUME NEW s, IsSequence(s), NEW n \in 1 .. Len(s), NEW x
    PROVE  /\ IsSequence(With(s, n, x)) /\ Len(With(s, n, x)) = Len(s)
           /\ With(s, n, x)[n] = x
           /\ \A i \in 1 .. Len(s) : i # n => With(s, n, x)[i] = s[i]
<1> DEFINE S == {s[i] : i \in 1 .. Len(s)} \union {x}
<1> PICK r : r = With(s, n, x)
  OBVIOUS
<1>1. s \in Seq(S) /\ x \in S /\ r = [s EXCEPT ![n] = x]
  BY DEF IsSequence, With
<1> HIDE DEF S
<1>2. r \in Seq(S) /\ Len(r) = Len(s)
  BY <1>1
<1>3. IsSequence(r)
  BY <1>2, Listed
<1>4. r[n] = x /\ \A i \in 1 .. Len(s) : i # n => r[i] = s[i]
  BY <1>1
<1>5. QED
  BY <1>2, <1>3, <1>4

\* A sweep begins with the first report.
LEMMA SweepBegins ==
    ASSUME IInv, StartSweep
    PROVE  IInv'
<1>1. /\ open = NoRequest /\ sweeps' = sweeps + 1 /\ stage' = "pre_read"
      /\ reports' = <<NewReport(Addresses[1])>> /\ UNCHANGED ecuVars
      /\ Ask(Addresses[1], "19", <<sweeps', Len(reports')>>)
  BY DEF StartSweep, BeginReport, AskFor, Free
<1>2. /\ memory' = memory /\ clears' = clears /\ resets' = resets /\ erased' = erased
      /\ outbox' = outbox /\ given_up' = given_up /\ answer' = NoAnswer
  BY <1>1 DEF ecuVars, Ask
<1> PICK t : t = Addresses[1]
  OBVIOUS
<1> PICK r : r = NewReport(t)
  OBVIOUS
<1>3. t \in Targets /\ 1 <= Len(Addresses)
  BY EmptySeq
<1>4. IsSequence(reports') /\ Len(reports') = 1 /\ reports'[1] = r /\ DOMAIN reports' = {1}
  <2>1. reports' = <<r>>
    BY <1>1
  <2>2. reports' \in Seq({r}) /\ Len(reports') = 1 /\ reports'[1] = r
    BY <2>1
  <2>3. QED
    BY <2>2, Listed
<1>5. LinkInv /\ Typed /\ sweeps \in Nat
  BY DEF IInv, Typed
<1>6. LinkInv' /\ Awaits' /\ ResetPass' /\ Punctual' /\ Recording' /\ Verifying' /\ open'.sid = "19"
  BY <1>1, <1>2, <1>3, <1>4, <1>5, Reads
<1>7. /\ IsRecord(r) /\ r.address = t /\ r.clears = clears[t] /\ r.resets = resets[t]
      /\ r.suspect = Late(t) /\ Backed(r, resets[t])
  BY <1>3, Begun
<1>8. Typed'
  <2>1. clears[t] \in Nat /\ resets[t] \in Nat
    BY <1>3, <1>5 DEF Typed
  <2>2. IsReport(1)'
    BY <1>2, <1>4, <1>7, <2>1 DEF IsReport
  <2>3. \A i \in 1 .. Len(reports') : i = 1
    BY <1>4
  <2>4. \A i \in 1 .. Len(reports') : IsReport(i)'
    BY <2>2, <2>3
  <2>5. QED
    BY <1>1, <1>2, <1>3, <1>4, <1>5, <2>4 DEF Typed
<1>9. Fresh'
  <2>1. r.suspect \/ \A k \in 1 .. Len(outbox[t]) : FALSE
    BY <1>1, <1>3, <1>5, <1>7, NothingOwed
  <2>2. \A i \in 1 .. Len(reports') : reports'[i] = r
    BY <1>4
  <2>3. QED
    BY <1>2, <1>7, <2>1, <2>2 DEF Fresh
<1>10. ReportsAreBacked'
  <2>1. \A i \in DOMAIN reports' : reports'[i] = r
    BY <1>4
  <2>2. QED
    BY <1>2, <1>7, <2>1 DEF ReportsAreBacked, Backed
<1>11. ClearsAreKnown'
  <2>1. \A data : KnownClear(data) => KnownClear(data)'
    BY <1>1, <1>5 DEF KnownClear
  <2>2. \A u \in Targets : \A k \in 1 .. Len(inbox'[u]) :
           inbox'[u][k] = open' \/ \E j \in 1 .. Len(inbox[u]) : inbox'[u][k] = inbox[u][j]
    BY <1>1, <1>5, Joins
  <2>3. ASSUME NEW u \in Targets, NEW k \in 1 .. Len(inbox'[u]), inbox'[u][k].sid = "14"
        PROVE  \A data : data = inbox'[u][k].data => KnownClear(data)'
    <3>1. PICK j \in 1 .. Len(inbox[u]) : inbox'[u][k] = inbox[u][j]
      BY <1>6, <2>2, <2>3
    <3>2. QED
      BY <2>1, <2>3, <3>1 DEF IInv, ClearsAreKnown
  <2>4. \A e \in erased' : \A data : data = e.report => KnownClear(data)'
    BY <1>2, <2>1 DEF IInv, ClearsAreKnown
  <2>5. QED
    BY <1>1, <2>3, <2>4 DEF ClearsAreKnown
<1>12. QED
  BY <1>6, <1>8, <1>9, <1>10, <1>11 DEF IInv

-----------------------------------------------------------------------------

\* The sweep takes an answer, and where it stands.
LEMMA Stands ==
    ASSUME IInv, answer # NoAnswer
    PROVE  /\ open = NoRequest /\ LinkInv /\ IsSequence(reports) /\ Len(reports) \in Nat
           /\ stage \in Clearing \union Resetting
           /\ \A i \in 1 .. Len(reports) :
                 /\ IsRecord(reports[i]) /\ Continues(reports[i], reports[i])
                 /\ Backed(reports[i], resets[reports[i].address])
                 /\ reports[i].address = Addresses[i] /\ reports[i].address \in Targets
           /\ stage \in Clearing => Len(reports) \in 1 .. Len(reports)
<1>1. open = NoRequest /\ LinkInv /\ IsSequence(reports)
  BY DEF IInv, LinkInv, OpenIsLast, Typed
<1>2. stage \in Clearing \union Resetting
  BY DEF IInv, Awaits
<1>3. Len(reports) \in Nat /\ Len(reports) <= Len(Addresses) /\ DOMAIN reports = 1 .. Len(reports)
  BY <1>1 DEF IInv, Typed, IsSequence
<1>4. \A i \in 1 .. Len(reports) : IsRecord(reports[i]) /\ reports[i].address = Addresses[i]
  BY DEF IInv, Typed, IsReport
<1>5. \A i \in 1 .. Len(reports) : Continues(reports[i], reports[i])
  BY <1>4, Edits
<1>6. \A i \in 1 .. Len(reports) : Backed(reports[i], resets[reports[i].address])
  BY <1>3 DEF IInv, ReportsAreBacked, Backed
<1>7. \A i \in 1 .. Len(reports) : Addresses[i] \in Targets
  <2>1. Addresses \in Seq(Targets) /\ Len(Addresses) \in Nat
    OBVIOUS
  <2>2. \A i \in 1 .. Len(Addresses) : Addresses[i] \in Targets
    BY <2>1, ElementOfSeq
  <2>3. QED
    BY <1>3, <2>2
<1>8. stage \in Clearing => Len(reports) \in 1 .. Len(reports)
  BY <1>3 DEF IInv, Punctual
<1>9. QED
  BY <1>1, <1>2, <1>3, <1>4, <1>5, <1>6, <1>7, <1>8

\* An answer that is no failure is the ECU's own while it owes nothing late.
LEMMA OwnAnswer ==
    ASSUME IInv, answer # NoAnswer, answer.kind = "ok", stage \in Clearing, ~Current.suspect
    PROVE  /\ ~Late(Current.address) /\ answer.cause = answer.request
           /\ answer.request.target = Current.address
<1>1. ~Failed /\ answer.kind # "failed"
  BY DEF Failed
<1>2. ~Late(Current.address) /\ answer.request.target = Current.address
  BY <1>1 DEF IInv, Punctual, Awaits, IsOfStage
<1>3. QED
  BY <1>1, <1>2 DEF IInv, LinkInv, StaleOnlySinceGivenUp

\* The reset of the first of a list begins.
LEMMA Resets ==
    ASSUME LinkInv, open = NoRequest, NEW list, BeginReset(list), list # {},
           IsSequence(reports'), Len(reports') = Len(Addresses),
           \A i \in list : /\ i \in 1 .. Len(reports') /\ reports'[i].error = "none"
                           /\ reports'[i].address # Gateway
    PROVE  /\ LinkInv' /\ Awaits' /\ ResetPass' /\ Punctual' /\ Recording' /\ Verifying'
           /\ open'.sid = "10" /\ answer' = NoAnswer
           /\ stage' = "reset_enter"
           /\ UNCHANGED <<outbox, given_up, synced>>
           /\ \A u \in Targets : \A k \in 1 .. Len(inbox'[u]) :
                inbox'[u][k] = open' \/ \E j \in 1 .. Len(inbox[u]) : inbox'[u][k] = inbox[u][j]
<1> PICK t : t = reports'[First(list)].address
  OBVIOUS
<1> PICK data : data = <<sweeps', Len(reports')>>
  OBVIOUS
<1>1. Ask(t, "10", data) /\ stage' = "reset_enter" /\ to_reset' = list
  BY DEF BeginReset, AskFor
<1>2. LinkInv'
  BY <1>1, LinkAsks
<1>3. /\ open'.target = t /\ open'.sid = "10" /\ answer' = NoAnswer
      /\ UNCHANGED <<outbox, given_up, synced>>
  BY <1>1 DEF Ask
<1>4. Awaits'
  <2>1. t = reports'[First(to_reset')].address
    BY <1>1
  <2>2. IsOfStage(open)'
    BY <1>1, <1>3, <2>1 DEF IsOfStage, Clearing, First
  <2>3. QED
    BY <1>1, <1>3, <2>2 DEF Awaits, Resetting
<1>5. ResetPass'
  BY <1>1 DEF ResetPass
<1>6. Punctual' /\ Recording' /\ Verifying'
  BY <1>1 DEF Punctual, Recording, Verifying, Clearing
<1>7. \A u \in Targets : \A k \in 1 .. Len(inbox'[u]) :
         inbox'[u][k] = open' \/ \E j \in 1 .. Len(inbox[u]) : inbox'[u][k] = inbox[u][j]
  BY <1>1, Joins
<1>8. QED
  BY <1>1, <1>2, <1>3, <1>4, <1>5, <1>6, <1>7

\* The sweep ends.
LEMMA Ends ==
    ASSUME LinkInv, open = NoRequest, EndSweep
    PROVE  /\ LinkInv' /\ Awaits' /\ ResetPass' /\ Punctual' /\ Recording' /\ Verifying'
           /\ answer' = NoAnswer /\ stage' = "idle"
           /\ UNCHANGED <<inbox, outbox, given_up, synced>>
<1>1. /\ stage' = "idle" /\ TakeAnswer /\ answer' = NoAnswer /\ open' = NoRequest
      /\ UNCHANGED <<inbox, outbox, given_up, synced>>
  BY DEF EndSweep, TakeAnswer
<1>2. LinkInv'
  BY <1>1, LinkTakes
<1>3. Awaits'
  BY <1>1 DEF Awaits, Clearing, Resetting
<1>4. ResetPass' /\ Punctual' /\ Recording' /\ Verifying'
  BY <1>1 DEF ResetPass, Punctual, Recording, Verifying, Clearing, Resetting
<1>5. QED
  BY <1>1, <1>2, <1>3, <1>4

\* A report is complete.
LEMMA Completes ==
    ASSUME IInv, stage \in Clearing, answer # NoAnswer, sweeps' = sweeps, UNCHANGED ecuVars,
           NEW report, CompleteReport(report), Continues(report, Current),
           Backed(report, resets[Current.address])
    PROVE  IInv'
<1> PICK n : n = Len(reports)
  OBVIOUS
<1> PICK done : done = [reports EXCEPT ![n] = report]
  OBVIOUS
<1> PICK targets : targets = IF Reset THEN ResetTargets(done) ELSE {}
  OBVIOUS
<1>1. \/ /\ n < Len(Addresses)
         /\ reports' = Append(done, NewReport(Addresses[n + 1]))
         /\ BeginReport(n + 1)
      \/ /\ n = Len(Addresses)
         /\ reports' = done
         /\ IF targets = {} THEN EndSweep ELSE BeginReset(targets)
  BY DEF CompleteReport
<1>2. /\ open = NoRequest /\ LinkInv /\ IsSequence(reports) /\ n \in Nat /\ n \in 1 .. n
      /\ memory' = memory /\ clears' = clears /\ resets' = resets /\ erased' = erased
  BY Stands DEF ecuVars
<1>3. /\ IsSequence(done) /\ Len(done) = n /\ done[n] = report
      /\ \A i \in 1 .. n : i # n => done[i] = reports[i]
  <2>1. n \in 1 .. Len(reports) /\ done = With(reports, n, report)
    BY <1>2 DEF With
  <2>2. IsSequence(reports)
    BY <1>2
  <2>3. IsSequence(With(reports, n, report))
    BY <2>1, <2>2, Replaced
  <2>4. Len(With(reports, n, report)) = Len(reports) /\ With(reports, n, report)[n] = report
    BY <2>1, <2>2, Replaced
  <2>5. \A i \in 1 .. Len(reports) : i # n => With(reports, n, report)[i] = reports[i]
    BY <2>1, <2>2, Replaced
  <2>6. QED
    BY <2>1, <2>3, <2>4, <2>5
<1>4. \A i \in 1 .. n : /\ Continues(done[i], reports[i])
                        /\ Backed(done[i], resets[reports[i].address])
  <2>1. \A i \in 1 .. n : /\ Continues(reports[i], reports[i])
                          /\ Backed(reports[i], resets[reports[i].address])
    BY Stands
  <2>2. QED
    BY <1>3, <2>1 DEF Current
<1>5. CASE /\ n < Len(Addresses)
           /\ reports' = Append(done, NewReport(Addresses[n + 1]))
           /\ BeginReport(n + 1)
  <2> PICK t : t = Addresses[n + 1]
    OBVIOUS
  <2> PICK r : r = NewReport(t)
    OBVIOUS
  <2> PICK data : data = <<sweeps', Len(reports')>>
    OBVIOUS
  <2>1. t \in Targets
    BY <1>2, <1>5, ElementOfSeq
  <2>2. Ask(t, "19", data) /\ stage' = "pre_read"
    BY <1>5 DEF BeginReport, AskFor
  <2>3. /\ IsSequence(reports') /\ Len(reports') = n + 1 /\ reports'[n + 1] = r
        /\ \A i \in 1 .. n : reports'[i] = done[i]
    <3>1. reports' = Append(done, r)
      BY <1>5
    <3>2. QED
      BY <1>3, <3>1, Appended
  <2>4. LinkInv' /\ Awaits' /\ ResetPass' /\ Punctual' /\ Recording' /\ Verifying' /\ open'.sid = "19"
    <3>1. Len(reports') > 0 /\ reports'[Len(reports')] = NewReport(t)
      BY <1>2, <2>3
    <3>2. QED
      BY <1>2, <2>1, <2>2, <2>3, <3>1, Reads
  <2>5. UNCHANGED <<outbox, given_up, synced>> /\ answer' = NoAnswer
    BY <2>2 DEF Ask
  <2>6. \A i \in 1 .. Len(reports) : /\ Continues(reports'[i], reports[i])
                                     /\ Backed(reports'[i], resets[reports[i].address])
    BY <1>4, <2>3
  <2>7. Typed' /\ Fresh' /\ ReportsAreBacked'
    <3>1. /\ Len(reports') = Len(reports) + 1 /\ Len(reports) < Len(Addresses)
          /\ reports'[Len(reports) + 1] = NewReport(Addresses[Len(reports) + 1])
      BY <1>5, <2>3
    <3>2. QED
      BY <1>2, <2>3, <2>5, <2>6, <3>1, Moves
  <2>8. ClearsAreKnown'
    <3>1. \A u \in Targets : \A k \in 1 .. Len(inbox'[u]) :
             inbox'[u][k] = open' \/ \E j \in 1 .. Len(inbox[u]) : inbox'[u][k] = inbox[u][j]
      BY <1>2, <2>2, Joins
    <3>2. Len(reports) <= Len(reports')
      BY <1>2, <2>3
    <3>3. /\ \A u \in Targets : \A k \in 1 .. Len(inbox'[u]) :
                 inbox'[u][k].sid = "14" => KnownClear(inbox[u][k].data)'
          /\ \A e \in erased' : KnownClear(e.report)'
      BY <1>2, <2>3, <2>4, <2>6, <3>1, <3>2, Known
    <3>4. QED
      BY <2>2, <3>3 DEF ClearsAreKnown
  <2>9. QED
    BY <2>4, <2>7, <2>8 DEF IInv
<1>6. CASE /\ n = Len(Addresses)
           /\ reports' = done
           /\ IF targets = {} THEN EndSweep ELSE BeginReset(targets)
  <2>1. /\ IsSequence(reports') /\ Len(reports') = Len(reports)
        /\ \A i \in 1 .. Len(reports) : /\ Continues(reports'[i], reports[i])
                                        /\ Backed(reports'[i], resets[reports[i].address])
    BY <1>3, <1>4, <1>6
  <2>2. /\ LinkInv' /\ Awaits' /\ ResetPass' /\ Punctual' /\ Recording' /\ Verifying'
        /\ answer' = NoAnswer /\ stage' \in {"idle", "reset_enter"}
        /\ UNCHANGED <<outbox, given_up, synced>>
        /\ \A u \in Targets : \A k \in 1 .. Len(inbox'[u]) :
             \/ \E j \in 1 .. Len(inbox[u]) : inbox'[u][k] = inbox[u][j]
             \/ inbox'[u][k] = open' /\ open'.sid = "10"
    <3>1. CASE targets = {}
      <4>1. EndSweep
        BY <1>6, <3>1
      <4>2. inbox' = inbox
        BY <1>2, <4>1, Ends
      <4>3. QED
        BY <1>2, <4>1, <4>2, Ends
    <3>2. CASE targets # {}
      <4>1. BeginReset(targets)
        BY <1>6, <3>2
      <4>2. DOMAIN done = 1 .. n
        BY <1>3 DEF IsSequence
      <4>3. ASSUME NEW i \in targets
            PROVE  i \in 1 .. n /\ done[i].error = "none" /\ done[i].address # Gateway
        BY <4>2 DEF ResetTargets, Cleared, IsResetTarget
      <4>4. QED
        BY <1>2, <1>3, <1>6, <3>2, <4>1, <4>3, Resets
    <3>3. QED
      BY <3>1, <3>2
  <2>3. Typed' /\ Fresh' /\ ReportsAreBacked'
    BY <1>2, <2>1, <2>2, Moves
  <2>4. ClearsAreKnown'
    <3>1. /\ \A u \in Targets : \A k \in 1 .. Len(inbox'[u]) :
                 inbox'[u][k].sid = "14" => KnownClear(inbox[u][k].data)'
          /\ \A e \in erased' : KnownClear(e.report)'
      BY <1>2, <2>1, <2>2, Known
    <3>2. QED
      BY <2>2, <3>1 DEF ClearsAreKnown
  <2>5. QED
    BY <2>2, <2>3, <2>4 DEF IInv
<1>7. QED
  BY <1>1, <1>5, <1>6

-----------------------------------------------------------------------------

\* The sweep goes on with the report it is at.
LEMMA Within ==
    ASSUME IInv, stage \in Clearing, answer # NoAnswer, answer.kind = "ok",
           sweeps' = sweeps, UNCHANGED ecuVars,
           IsSequence(reports'), Len(reports') = Len(reports),
           \A i \in 1 .. Len(reports) : /\ Continues(reports'[i], reports[i])
                                        /\ Backed(reports'[i], resets[reports[i].address]),
           NEW n, n = Len(reports), Recorded(n)',
           NEW t, t = Current.address, NEW sid, NEW data, Ask(t, sid, data),
           data[1] = sweeps', data[2] = n,
           \/ stage' = "enter" /\ sid = "10"
           \/ stage' = "clear" /\ sid = "14"
           \/ stage' = "post_read" /\ sid = "19" /\ (Current.suspect \/ clears[t] > Current.clears)
    PROVE  IInv'
<1> PICK old : old = reports[n]
  OBVIOUS
<1> PICK new : new = reports'[n]
  OBVIOUS
<1>1. /\ open = NoRequest /\ LinkInv /\ IsSequence(reports) /\ n \in Nat /\ n \in 1 .. n
      /\ t \in Targets /\ Continues(new, old) /\ old.address = t
      /\ clears' = clears /\ resets' = resets /\ erased' = erased
  BY Stands DEF ecuVars, Current
<1>2. /\ open'.target = t /\ open'.sid = sid /\ open'.data = data /\ open'.serial = asked + 1
      /\ answer' = NoAnswer /\ outbox' = outbox /\ given_up' = given_up /\ synced' = synced
  BY DEF Ask
<1>3. LinkInv'
  BY <1>1, LinkAsks
<1>4. Current = old /\ Current' = new /\ new.address = t
  BY <1>1 DEF Current, Continues
<1>5. Typed' /\ Fresh' /\ ReportsAreBacked'
  BY <1>1, <1>2, Moves
<1>6. Awaits'
  BY <1>2, <1>4 DEF Awaits, IsOfStage, Clearing, Resetting
<1>7. ResetPass' /\ Recording'
  BY DEF ResetPass, Recording, Resetting
<1>8. Punctual'
  <2>1. new.suspect \/ ~Late(t)
    BY <1>1, <1>4, OwnAnswer DEF Continues
  <2>2. new.suspect \/ ~Late(t)'
    BY <1>2, <2>1 DEF Late
  <2>3. new.suspect \/ ~Late(Current.address)'
    BY <1>4, <2>2 DEF Late
  <2>4. QED
    BY <1>1, <1>4, <2>3 DEF Punctual
<1>9. Verifying'
  <2>1. SUFFICES ASSUME stage' = "post_read", ~new.suspect
                 PROVE  /\ clears[t] > new.clears
                        /\ \A k \in 1 .. Len(outbox[t]) : outbox[t][k].cause # open'
    BY <1>1, <1>2, <1>4 DEF Verifying
  <2>2. clears[t] > new.clears
    BY <1>1, <1>4, <2>1 DEF Continues
  <2>3. \A k \in 1 .. Len(outbox[t]) : outbox[t][k].cause.serial <= asked /\ asked \in Nat
    BY <1>1 DEF LinkInv, LinkTyped, Queues, Owed
  <2>4. QED
    BY <1>2, <2>2, <2>3
<1>10. ClearsAreKnown'
  <2>1. KnownClear(open.data)'
    BY <1>1, <1>2 DEF KnownClear, IInv, Typed
  <2>2. \A u \in Targets : \A k \in 1 .. Len(inbox'[u]) :
           inbox'[u][k] = open' \/ \E j \in 1 .. Len(inbox[u]) : inbox'[u][k] = inbox[u][j]
    BY <1>1, Joins
  <2>3. /\ \A u \in Targets : \A k \in 1 .. Len(inbox'[u]) :
               inbox'[u][k].sid = "14" => KnownClear(inbox[u][k].data)'
        /\ \A e \in erased' : KnownClear(e.report)'
    <3>1. \A i \in 1 .. Len(reports) : Continues(reports'[i], reports[i])
      OBVIOUS
    <3>2. Len(reports) <= Len(reports')
      BY <1>1
    <3>3. QED
      BY <1>1, <2>1, <2>2, <3>1, <3>2, Known
  <2>4. Recorded(Len(reports))'
    BY DEF Recorded
  <2>5. QED
    BY <2>3, <2>4 DEF ClearsAreKnown
<1>11. QED
  BY <1>3, <1>5, <1>6, <1>7, <1>8, <1>9, <1>10 DEF IInv

\* An error completes the report.
LEMMA Fails ==
    ASSUME IInv, stage \in Clearing, answer # NoAnswer, sweeps' = sweeps, UNCHANGED ecuVars,
           NEW error, CompleteReport([Current EXCEPT !.error = error])
    PROVE  IInv'
<1> PICK report : report = [Current EXCEPT !.error = error]
  OBVIOUS
<1>1. IsRecord(Current) /\ Backed(Current, resets[Current.address])
  BY Stands DEF Current
<1>2. /\ Continues(report, Current)
      /\ report.verified_clean = Current.verified_clean /\ report.read_after = Current.read_after
      /\ report.reset_performed = Current.reset_performed
  BY <1>1, Edits
<1>3. Backed(report, resets[Current.address])
  BY <1>1, <1>2 DEF Backed, Continues
<1>4. QED
  BY <1>2, <1>3, Completes

-----------------------------------------------------------------------------

\* The read before the clear: without its record the ECU is not cleared.
LEMMA PreRead ==
    ASSUME IInv, TakePreRead, UNCHANGED ecuVars
    PROVE  IInv'
<1>1. stage = "pre_read" /\ stage \in Clearing /\ answer # NoAnswer /\ sweeps' = sweeps
  BY DEF TakePreRead, Clearing
<1>2. CASE CompleteReport([Current EXCEPT !.error = "pre_read"])
  BY <1>1, <1>2, Fails
<1>3. CASE /\ ~PreReadFailed(answer)
           /\ SetCurrent([Current EXCEPT !.before = IF answer.kind = "ok" THEN answer.content.faults
                                                    ELSE {}])
           /\ stage' = "enter"
           /\ AskFor(Current.address, "10")
  <2> PICK n : n = Len(reports)
    OBVIOUS
  <2> PICK t : t = Current.address
    OBVIOUS
  <2> PICK data : data = <<sweeps', Len(reports')>>
    OBVIOUS
  <2> PICK faults : faults = answer.content.faults
    OBVIOUS
  <2> PICK old : old = Current
    OBVIOUS
  <2> PICK new : new = [old EXCEPT !.before = faults]
    OBVIOUS
  <2>1. answer.kind = "ok"
    BY <1>3 DEF PreReadFailed
  <2>2. reports' = With(reports, n, new)
    BY <1>3, <2>1 DEF SetCurrent, With
  <2>3. /\ IsSequence(reports) /\ n \in 1 .. n /\ IsRecord(old) /\ Backed(old, resets[t])
        /\ \A i \in 1 .. n : /\ Continues(reports[i], reports[i])
                             /\ Backed(reports[i], resets[reports[i].address])
    BY <1>1, Stands DEF Current
  <2>4. /\ IsSequence(reports') /\ Len(reports') = n /\ reports'[n] = new
        /\ \A i \in 1 .. n : i # n => reports'[i] = reports[i]
    <3>1. /\ IsSequence(With(reports, n, new)) /\ Len(With(reports, n, new)) = Len(reports)
          /\ With(reports, n, new)[n] = new
      BY <2>3, Replaced
    <3>2. \A i \in 1 .. Len(reports) : i # n => With(reports, n, new)[i] = reports[i]
      <4>1. IsSequence(reports) /\ n \in 1 .. Len(reports)
        BY <2>3
      <4>2. \A x : \A i \in 1 .. Len(reports) : i # n => With(reports, n, x)[i] = reports[i]
        BY <4>1, Replaced
      <4>3. QED
        BY <4>2
    <3>3. QED
      BY <2>2, <3>1, <3>2
  <2>5. old.suspect \/ old.stored \subseteq faults
    <3>1. SUFFICES ASSUME ~old.suspect
                   PROVE  old.stored \subseteq faults
      OBVIOUS
    <3>2. answer.cause = answer.request
      BY <1>1, <2>1, <3>1, OwnAnswer
    <3>3. QED
      BY <1>1, <2>1, <3>1, <3>2 DEF IInv, Recording, HoldsStored
  <2>6. /\ Continues(new, old) /\ new.before = faults
        /\ new.verified_clean = old.verified_clean /\ new.read_after = old.read_after
        /\ new.reset_performed = old.reset_performed
    <3>1. IsRecord(old) /\ new = [old EXCEPT !.before = faults]
      BY <2>3
    <3>2. QED
      BY <2>5, <3>1 DEF IsRecord, Continues
  <2>7. Backed(new, resets[t])
    BY <2>3, <2>6 DEF Backed, Continues
  <2>8. \A i \in 1 .. Len(reports) : /\ Continues(reports'[i], reports[i])
                                     /\ Backed(reports'[i], resets[reports[i].address])
    BY <2>3, <2>4, <2>6, <2>7 DEF Current
  <2>9. Recorded(n)'
    BY <2>4, <2>5, <2>6 DEF Recorded, Continues
  <2>10. Ask(t, "10", data) /\ data[1] = sweeps' /\ data[2] = n
    BY <1>3, <2>4 DEF AskFor
  <2>11. QED
    BY <1>1, <1>3, <2>1, <2>4, <2>8, <2>9, <2>10, Within
<1>4. QED
  BY <1>2, <1>3 DEF TakePreRead

\* The extended session, and the clear: each step of the report asks the next.
LEMMA Onward ==
    ASSUME IInv, stage \in {"enter", "clear"}, answer # NoAnswer, answer.kind = "ok",
           sweeps' = sweeps, UNCHANGED ecuVars, reports' = reports,
           NEW sid, AskFor(Current.address, sid),
           \/ stage' = "clear" /\ sid = "14"
           \/ stage' = "post_read" /\ sid = "19"
              /\ (Current.suspect \/ clears[Current.address] > Current.clears)
    PROVE  IInv'
<1> PICK n : n = Len(reports)
  OBVIOUS
<1> PICK t : t = Current.address
  OBVIOUS
<1> PICK data : data = <<sweeps', Len(reports')>>
  OBVIOUS
<1>1. stage \in Clearing
  BY DEF Clearing
<1>2. /\ IsSequence(reports) /\ n \in 1 .. n
      /\ \A i \in 1 .. n : /\ Continues(reports[i], reports[i])
                           /\ Backed(reports[i], resets[reports[i].address])
  BY <1>1, Stands
<1>3. Recorded(n)
  BY DEF IInv, ClearsAreKnown
<1>4. Recorded(n)'
  BY <1>3 DEF Recorded
<1>5. Ask(t, sid, data) /\ data[1] = sweeps' /\ data[2] = n
  BY DEF AskFor
<1>6. /\ IsSequence(reports') /\ Len(reports') = Len(reports)
      /\ \A i \in 1 .. Len(reports) : /\ Continues(reports'[i], reports[i])
                                      /\ Backed(reports'[i], resets[reports[i].address])
  BY <1>2
<1>7. QED
  BY <1>1, <1>4, <1>5, <1>6, Within

\* The session of the clear.
LEMMA Enter ==
    ASSUME IInv, TakeEnter, UNCHANGED ecuVars
    PROVE  IInv'
<1>1. /\ stage = "enter" /\ stage \in Clearing /\ answer # NoAnswer /\ sweeps' = sweeps
      /\ stage \in {"enter", "clear"}
  BY DEF TakeEnter, Clearing
<1>2. CASE CompleteReport([Current EXCEPT !.error = "clear"])
  BY <1>1, <1>2, Fails
<1>3. CASE /\ ~ClearRejected(answer)
           /\ stage' = "clear"
           /\ UNCHANGED <<reports, to_reset>>
           /\ AskFor(Current.address, "14")
  <2>1. answer.kind = "ok" /\ reports' = reports
    BY <1>3 DEF ClearRejected
  <2>2. QED
    BY <1>1, <1>3, <2>1, Onward
<1>4. QED
  BY <1>2, <1>3 DEF TakeEnter

\* The clear: it was executed since the report was begun.
LEMMA Clear ==
    ASSUME IInv, TakeClear, UNCHANGED ecuVars
    PROVE  IInv'
<1>1. /\ stage = "clear" /\ stage \in Clearing /\ answer # NoAnswer /\ sweeps' = sweeps
      /\ stage \in {"enter", "clear"}
  BY DEF TakeClear, Clearing
<1>2. CASE CompleteReport([Current EXCEPT !.error = "clear"])
  BY <1>1, <1>2, Fails
<1>3. CASE /\ ~ClearRejected(answer)
           /\ stage' = "post_read"
           /\ UNCHANGED <<reports, to_reset>>
           /\ AskFor(Current.address, "19")
  <2>1. answer.kind = "ok" /\ reports' = reports
    BY <1>3 DEF ClearRejected
  <2>2. Current.suspect \/ clears[Current.address] > Current.clears
    <3>1. SUFFICES ASSUME ~Current.suspect
                   PROVE  clears[Current.address] > Current.clears
      OBVIOUS
    <3>2. answer.cause = answer.request /\ answer.request.target = Current.address
      BY <1>1, <2>1, <3>1, OwnAnswer
    <3>3. answer.request.sid = "14"
      BY <1>1 DEF IInv, Awaits, IsOfStage
    <3>4. DoneSince(answer.kind, answer.cause, Len(reports))
      BY <1>1, <3>1, Stands DEF IInv, Fresh, Current
    <3>5. QED
      BY <2>1, <3>2, <3>3, <3>4 DEF DoneSince, Current
  <2>3. QED
    BY <1>1, <1>3, <2>1, <2>2, Onward
<1>4. QED
  BY <1>2, <1>3 DEF TakeClear

\* The read after the clear.
LEMMA PostRead ==
    ASSUME IInv, TakePostRead, UNCHANGED ecuVars
    PROVE  IInv'
<1>1. stage = "post_read" /\ stage \in Clearing /\ answer # NoAnswer /\ sweeps' = sweeps
  BY DEF TakePostRead, Clearing
<1>2. CASE CompleteReport([Current EXCEPT !.error = "post_read"])
  BY <1>1, <1>2, Fails
<1> PICK after : after = answer.content.faults \cap Relevant
  OBVIOUS
<1> PICK old : old = Current
  OBVIOUS
<1> PICK clean : clean = (after = {})
  OBVIOUS
<1> PICK report : report = [Current EXCEPT !.after_relevant = after, !.verified_clean = after = {},
                                           !.read_after = answer.content.clears]
  OBVIOUS
<1>3. CASE answer.kind = "ok" /\ CompleteReport(report)
  <2>1. IsRecord(Current) /\ Backed(Current, resets[Current.address])
    BY <1>1, Stands DEF Current
  <2>2. /\ Continues(report, Current) /\ report.read_after = answer.content.clears
        /\ report.reset_performed = Current.reset_performed
    <3>1. /\ IsRecord(old)
          /\ report = [old EXCEPT !.after_relevant = after, !.verified_clean = clean,
                                  !.read_after = answer.content.clears]
      BY <2>1
    <3>2. Continues(report, old) /\ report.read_after = answer.content.clears
      BY <3>1 DEF IsRecord, Continues
    <3>3. report.reset_performed = old.reset_performed
      BY <3>1 DEF IsRecord
    <3>4. QED
      BY <3>2, <3>3
  <2>3. Current.suspect \/ answer.content.clears > Current.clears
    BY <1>1, <1>3, OwnAnswer DEF IInv, Verifying
  <2>4. Backed(report, resets[Current.address])
    BY <2>1, <2>2, <2>3 DEF Backed, Continues
  <2>5. QED
    BY <1>1, <1>3, <2>2, <2>4, Completes
<1>4. QED
  BY <1>2, <1>3 DEF TakePostRead

-----------------------------------------------------------------------------

\* The session of a reset.
LEMMA ResetEnter ==
    ASSUME IInv, TakeResetEnter, UNCHANGED ecuVars
    PROVE  IInv'
<1> PICK t : t = reports[First(to_reset)].address
  OBVIOUS
<1> PICK data : data = <<sweeps', Len(reports')>>
  OBVIOUS
<1>1. /\ stage = "reset_enter" /\ answer # NoAnswer /\ stage' = "reset"
      /\ reports' = reports /\ to_reset' = to_reset /\ sweeps' = sweeps
      /\ Ask(t, "11", data)
  BY DEF TakeResetEnter, AskFor
<1>2. /\ open = NoRequest /\ LinkInv /\ IsSequence(reports) /\ Len(reports) \in Nat
      /\ \A i \in 1 .. Len(reports) : /\ Continues(reports[i], reports[i])
                                      /\ Backed(reports[i], resets[reports[i].address])
      /\ clears' = clears /\ resets' = resets /\ erased' = erased
  BY <1>1, Stands DEF ecuVars
<1>3. /\ open'.target = t /\ open'.sid = "11" /\ answer' = NoAnswer
      /\ UNCHANGED <<outbox, given_up, synced>>
  BY <1>1 DEF Ask
<1>4. LinkInv'
  BY <1>1, <1>2, LinkAsks
<1>5. /\ IsSequence(reports') /\ Len(reports') = Len(reports)
      /\ \A i \in 1 .. Len(reports) : /\ Continues(reports'[i], reports[i])
                                      /\ Backed(reports'[i], resets[reports[i].address])
  BY <1>1, <1>2
<1>6. Typed' /\ Fresh' /\ ReportsAreBacked'
  BY <1>1, <1>2, <1>3, <1>5, Moves
<1>7. Awaits'
  <2>1. t = reports'[First(to_reset')].address
    BY <1>1
  <2>2. IsOfStage(open)'
    BY <1>1, <1>3, <2>1 DEF IsOfStage, Clearing, First
  <2>3. QED
    BY <1>1, <1>3, <2>2 DEF Awaits, Resetting
<1>8. ResetPass'
  BY <1>1 DEF IInv, ResetPass, Resetting
<1>9. Punctual' /\ Recording' /\ Verifying'
  BY <1>1 DEF Punctual, Recording, Verifying, Clearing
<1>10. ClearsAreKnown'
  <2>1. \A u \in Targets : \A k \in 1 .. Len(inbox'[u]) :
           inbox'[u][k] = open' \/ \E j \in 1 .. Len(inbox[u]) : inbox'[u][k] = inbox[u][j]
    BY <1>1, <1>2, Joins
  <2>2. /\ \A u \in Targets : \A k \in 1 .. Len(inbox'[u]) :
               inbox'[u][k].sid = "14" => KnownClear(inbox[u][k].data)'
        /\ \A e \in erased' : KnownClear(e.report)'
    BY <1>1, <1>2, <1>3, <1>5, <2>1, Known
  <2>3. QED
    BY <1>1, <2>2 DEF ClearsAreKnown
<1>11. QED
  BY <1>4, <1>6, <1>7, <1>8, <1>9, <1>10 DEF IInv

\* The outcome of a reset, which was executed since the reports were begun.
LEMMA ResetDone ==
    ASSUME IInv, TakeReset, UNCHANGED ecuVars
    PROVE  IInv'
<1> PICK t : t = reports[First(to_reset)].address
  OBVIOUS
<1> PICK outcome : outcome = IF answer.kind = "ok" THEN "ok" ELSE "failed"
  OBVIOUS
<1> PICK left : left = to_reset \ {First(to_reset)}
  OBVIOUS
<1>1. /\ stage \in Resetting /\ answer # NoAnswer /\ sweeps' = sweeps
      /\ stage = "reset_enter" => answer.kind # "ok"
      /\ reports' = [i \in DOMAIN reports |->
                       IF reports[i].address = t
                       THEN [reports[i] EXCEPT !.reset_performed = outcome] ELSE reports[i]]
      /\ IF left = {} THEN EndSweep ELSE BeginReset(left)
  BY DEF TakeReset, Resetting
<1>2. /\ open = NoRequest /\ LinkInv /\ IsSequence(reports) /\ Len(reports) \in Nat
      /\ \A i \in 1 .. Len(reports) :
            /\ IsRecord(reports[i]) /\ Continues(reports[i], reports[i])
            /\ Backed(reports[i], resets[reports[i].address])
            /\ reports[i].address \in Targets
      /\ clears' = clears /\ resets' = resets /\ erased' = erased
  BY <1>1, Stands DEF ecuVars
<1>3. IsSequence(reports') /\ Len(reports') = Len(reports)
  <2>1. DOMAIN reports = 1 .. Len(reports)
    BY <1>2 DEF IsSequence
  <2> PICK n : n = Len(reports)
    OBVIOUS
  <2>2. DOMAIN reports' = 1 .. n /\ n \in Nat
    BY <1>1, <1>2, <2>1
  <2>3. Len(reports') = n
    BY <2>2
  <2>4. reports' = [i \in 1 .. n |-> reports'[i]]
    BY <1>1, <2>1
  <2>5. QED
    BY <2>2, <2>3, <2>4 DEF IsSequence
<1>4. ASSUME NEW i \in 1 .. Len(reports)
      PROVE  /\ Continues(reports'[i], reports[i]) /\ reports'[i].error = reports[i].error
             /\ Backed(reports'[i], resets[reports[i].address])
  <2> PICK old : old = reports[i]
    OBVIOUS
  <2> PICK new : new = reports'[i]
    OBVIOUS
  <2>1. /\ IsRecord(old) /\ Continues(old, old) /\ Backed(old, resets[old.address])
        /\ DOMAIN reports = 1 .. Len(reports)
    BY <1>2 DEF IsSequence
  <2>2. CASE old.address # t
    BY <1>1, <2>1, <2>2
  <2>3. CASE old.address = t
    <3>1. new = [old EXCEPT !.reset_performed = outcome]
      BY <1>1, <2>1, <2>3
    <3>2. /\ Continues(new, old) /\ new.error = old.error
          /\ new.verified_clean = old.verified_clean /\ new.read_after = old.read_after
          /\ new.reset_performed = outcome
      <4>1. IsRecord(old) /\ (old.suspect \/ (old.stored \subseteq old.before => old.stored \subseteq old.before))
        BY <2>1
      <4>2. Continues(new, old)
        BY <3>1, <4>1 DEF IsRecord, Continues
      <4>3. /\ new.error = old.error /\ new.reset_performed = outcome
            /\ new.verified_clean = old.verified_clean /\ new.read_after = old.read_after
        BY <3>1, <4>1 DEF IsRecord
      <4>4. QED
        BY <4>2, <4>3
    <3>3. ASSUME ~old.suspect, outcome = "ok"
          PROVE  resets[old.address] > old.resets
      <4>1. answer.kind = "ok" /\ stage = "reset"
        BY <1>1, <3>3 DEF Resetting
      <4>2. answer.cause.sid = "11" /\ answer.cause.target = t
        BY <1>1, <4>1 DEF IInv, Awaits, IsOfStage, LinkInv, AnswerClaims, Resetting
      <4>3. DoneSince(answer.kind, answer.cause, i)
        BY <1>1, <3>3 DEF IInv, Fresh
      <4>4. QED
        BY <2>3, <4>1, <4>2, <4>3 DEF DoneSince
    <3>4. Backed(new, resets[old.address])
      BY <2>1, <3>2, <3>3 DEF Backed, Continues
    <3>5. QED
      BY <3>2, <3>4
  <2>4. QED
    BY <2>2, <2>3
<1>5. /\ LinkInv' /\ Awaits' /\ ResetPass' /\ Punctual' /\ Recording' /\ Verifying'
      /\ answer' = NoAnswer /\ stage' \in {"idle", "reset_enter"}
      /\ UNCHANGED <<outbox, given_up, synced>>
      /\ \A u \in Targets : \A k \in 1 .. Len(inbox'[u]) :
           \/ \E j \in 1 .. Len(inbox[u]) : inbox'[u][k] = inbox[u][j]
           \/ inbox'[u][k] = open' /\ open'.sid = "10"
  <2>1. CASE left = {}
    <3>1. EndSweep
      BY <1>1, <2>1
    <3>2. inbox' = inbox
      BY <1>2, <3>1, Ends
    <3>3. QED
      BY <1>2, <3>1, <3>2, Ends
  <2>2. CASE left # {}
    <3>1. BeginReset(left)
      BY <1>1, <2>2
    <3>2. Len(reports) = Len(Addresses)
      BY <1>1 DEF IInv, ResetPass
    <3>3. ASSUME NEW i \in left
          PROVE  i \in 1 .. Len(reports) /\ reports[i].error = "none" /\ reports[i].address # Gateway
      BY <1>1 DEF IInv, ResetPass
    <3>4. ASSUME NEW i \in left
          PROVE  /\ i \in 1 .. Len(reports') /\ reports'[i].error = "none"
                 /\ reports'[i].address # Gateway
      BY <1>3, <1>4, <3>3 DEF Continues
    <3>5. QED
      BY <1>2, <1>3, <2>2, <3>1, <3>2, <3>4, Resets
  <2>3. QED
    BY <2>1, <2>2
<1>6. Typed' /\ Fresh' /\ ReportsAreBacked'
  BY <1>1, <1>2, <1>3, <1>4, <1>5, Moves
<1>7. ClearsAreKnown'
  <2>1. /\ \A u \in Targets : \A k \in 1 .. Len(inbox'[u]) :
               inbox'[u][k].sid = "14" => KnownClear(inbox[u][k].data)'
        /\ \A e \in erased' : KnownClear(e.report)'
    <3>1. IsSequence(reports') /\ Len(reports) <= Len(reports')
      BY <1>2, <1>3
    <3>2. \A i \in 1 .. Len(reports) : Continues(reports'[i], reports[i])
      BY <1>4
    <3>3. \A u \in Targets : \A k \in 1 .. Len(inbox'[u]) :
             \/ \E j \in 1 .. Len(inbox[u]) : inbox'[u][k] = inbox[u][j]
             \/ inbox'[u][k] = open' /\ open'.sid # "14"
      BY <1>5
    <3>4. QED
      BY <1>1, <1>2, <3>1, <3>2, <3>3, Known
  <2>2. QED
    BY <1>5, <2>1 DEF ClearsAreKnown
<1>8. QED
  BY <1>5, <1>6, <1>7 DEF IInv

-----------------------------------------------------------------------------

\* What is owed was asked.
LEMMA OwedIsAsked ==
    ASSUME LinkInv, NEW t \in Targets
    PROVE  /\ \A k \in 1 .. Len(inbox[t]) : inbox[t][k] # NoRequest /\ inbox[t][k].target = t
           /\ \A k \in 1 .. Len(outbox[t]) :
                 outbox[t][k].cause # NoRequest /\ outbox[t][k].cause.target = t
<1>1. \A q : Owed(t, q) => q # NoRequest /\ q.target = t
  BY DEF LinkInv, LinkTyped, Owed, NoRequest
<1>2. QED
  BY <1>1 DEF LinkInv, Queues

\* The report at hand is one of them.
LEMMA AtHand ==
    ASSUME IInv, stage \in Clearing
    PROVE  /\ Len(reports) \in 1 .. Len(reports) /\ Current.address \in Targets
           /\ Current = reports[Len(reports)]
<1>1. /\ IsSequence(reports) /\ Len(reports) > 0 /\ Len(reports) <= Len(Addresses)
      /\ \A i \in 1 .. Len(reports) : reports[i].address = Addresses[i]
  BY DEF IInv, Typed, IsReport, Punctual
<1>2. Len(reports) \in 1 .. Len(reports) /\ Len(reports) \in 1 .. Len(Addresses)
  BY <1>1 DEF IsSequence
<1>3. Addresses[Len(reports)] \in Targets
  BY <1>2, ElementOfSeq
<1>4. QED
  BY <1>1, <1>2, <1>3 DEF Current

\* The sweep and the ECUs stand still.
LEMMA Still ==
    ASSUME IInv, UNCHANGED <<sweepVars, ecuVars>>, inbox' = inbox
    PROVE  /\ stage' = stage /\ reports' = reports /\ to_reset' = to_reset
           /\ clears' = clears /\ resets' = resets /\ memory' = memory
           /\ Typed' /\ ResetPass' /\ ClearsAreKnown' /\ ReportsAreBacked'
           /\ Current' = Current
           /\ \A kind, cause, i : DoneSince(kind, cause, i)' <=> DoneSince(kind, cause, i)
           /\ \A q : IsOfStage(q)' <=> IsOfStage(q)
<1>1. /\ stage' = stage /\ reports' = reports /\ to_reset' = to_reset /\ sweeps' = sweeps
      /\ clears' = clears /\ resets' = resets /\ memory' = memory /\ erased' = erased
  BY DEF sweepVars, ecuVars
<1>2. Typed'
  BY <1>1 DEF IInv, Typed, IsReport
<1>3. ResetPass' /\ ReportsAreBacked'
  BY <1>1 DEF IInv, ResetPass, ReportsAreBacked
<1>4. ClearsAreKnown'
  <2>1. \A data : KnownClear(data)' <=> KnownClear(data)
    BY <1>1 DEF KnownClear, Recorded
  <2>2. Recorded(Len(reports))' <=> Recorded(Len(reports))
    BY <1>1 DEF Recorded
  <2>3. /\ \A t \in Targets : \A k \in 1 .. Len(inbox[t]) : \A data : data = inbox[t][k].data =>
             (inbox[t][k].sid = "14" => KnownClear(data)')
        /\ \A e \in erased : \A data : data = e.report => KnownClear(data)'
    BY <2>1 DEF IInv, ClearsAreKnown
  <2>4. /\ \A t \in Targets : \A k \in 1 .. Len(inbox'[t]) :
             inbox'[t][k].sid = "14" => KnownClear(inbox[t][k].data)'
        /\ \A e \in erased' : KnownClear(e.report)'
    BY <1>1, <2>3 DEF KnownClear, Recorded
  <2>5. QED
    BY <1>1, <2>2, <2>4 DEF IInv, ClearsAreKnown
<1>5. /\ Current' = Current
      /\ \A kind, cause, i : DoneSince(kind, cause, i)' <=> DoneSince(kind, cause, i)
  BY <1>1 DEF Current, DoneSince
<1>6. \A q : IsOfStage(q)' <=> IsOfStage(q)
  BY <1>1 DEF IsOfStage, Current, First
<1>7. QED
  BY <1>1, <1>2, <1>3, <1>4, <1>5, <1>6

\* The request that waits fails.
LEMMA GivenUp ==
    ASSUME IInv, GiveUp, UNCHANGED <<sweepVars, ecuVars>>
    PROVE  IInv'
<1>1. /\ open # NoRequest /\ open' = NoRequest /\ outbox' = outbox /\ inbox' = inbox
      /\ answer' # NoAnswer /\ answer'.kind = "failed" /\ answer'.request = open
  BY DEF GiveUp, NoAnswer
<1>2. LinkInv /\ LinkInv'
  BY LinkGivesUp DEF IInv
<1>3. /\ stage' = stage /\ reports' = reports
      /\ clears' = clears /\ resets' = resets /\ memory' = memory
      /\ Typed' /\ ResetPass' /\ ClearsAreKnown' /\ ReportsAreBacked'
      /\ Current' = Current
  BY <1>1, Still
<1>4. Awaits'
  <2>1. \A q : IsOfStage(q)' <=> IsOfStage(q)
    BY <1>1, Still
  <2>2. IsOfStage(open)
    BY <1>1 DEF IInv, Awaits
  <2>3. \A q : q = answer'.request => IsOfStage(q)'
    BY <1>1, <2>1, <2>2
  <2>4. IsOfStage(answer.request)'
    BY <2>3 DEF IsOfStage
  <2>5. QED
    BY <1>1, <1>3, <2>4 DEF IInv, Awaits
<1>5. Punctual'
  BY <1>1, <1>3 DEF IInv, Punctual, Failed
<1>6. Fresh'
  <2>1. \A kind, cause, i : DoneSince(kind, cause, i)' <=> DoneSince(kind, cause, i)
    BY <1>1, Still
  <2>2. \A i : DoneSince(answer.kind, answer.cause, i)'
    BY <1>1 DEF DoneSince
  <2>3. \A i \in 1 .. Len(reports) : ~reports[i].suspect =>
           \A k \in 1 .. Len(outbox[reports[i].address]) :
              DoneSince(outbox[reports[i].address][k].kind,
                        outbox[reports[i].address][k].cause, i)'
    BY <1>1, <1>3 DEF IInv, Fresh, DoneSince
  <2>4. QED
    BY <1>1, <1>3, <2>2, <2>3 DEF Fresh
<1>7. Recording' /\ Verifying'
  <2>1. stage \in Clearing =>
           \A k \in 1 .. Len(outbox[Current.address]) : outbox[Current.address][k].cause # NoRequest
    BY <1>2, AtHand, OwedIsAsked
  <2>2. Failed'
    BY <1>1 DEF Failed
  <2>3. Recording'
    BY <1>1, <1>3, <2>1, <2>2 DEF Recording, Clearing
  <2>4. Verifying'
    BY <1>1, <1>3, <2>1 DEF IInv, Verifying, Clearing
  <2>5. QED
    BY <2>3, <2>4
<1>8. QED
  BY <1>2, <1>3, <1>4, <1>5, <1>6, <1>7 DEF IInv

-----------------------------------------------------------------------------

\* A reply arrives.
LEMMA Delivered ==
    ASSUME IInv, NEW t \in Targets, Deliver(t), UNCHANGED <<sweepVars, ecuVars>>
    PROVE  IInv'
<1> PICK reply : reply = outbox[t][1]
  OBVIOUS
<1>1. LinkInv /\ LinkInv' /\ inbox' = inbox /\ given_up' = given_up
  BY LinkDelivers DEF IInv, Deliver
<1>2. /\ 1 \in 1 .. Len(outbox[t]) /\ reply = Head(outbox[t])
      /\ reply.cause.target = t /\ reply.cause # NoRequest
      /\ \A u \in Targets : \A k \in 1 .. Len(outbox'[u]) :
            \E j \in 1 .. Len(outbox[u]) : outbox'[u][k] = outbox[u][j]
  BY <1>1, Arrival, OwedIsAsked
<1>3. \/ /\ open # NoRequest /\ open.target = t /\ open' = NoRequest
         /\ answer' = [kind |-> reply.kind, request |-> open, cause |-> reply.cause,
                       content |-> reply.content]
         /\ synced' = [synced EXCEPT ![t] = IF reply.cause = open THEN open.serial ELSE synced[t]]
      \/ UNCHANGED <<open, answer, synced>>
  BY <1>2 DEF Deliver, Claims
<1>4. \/ /\ open # NoRequest /\ open.target = t /\ open' = NoRequest
         /\ answer'.kind = reply.kind /\ answer'.request = open /\ answer'.cause = reply.cause
         /\ answer'.content = reply.content /\ answer = NoAnswer
      \/ open' = open /\ answer' = answer
  BY <1>1, <1>3 DEF LinkInv, OpenIsLast
<1>5. /\ stage' = stage /\ reports' = reports
      /\ clears' = clears /\ resets' = resets /\ memory' = memory
      /\ Typed' /\ ResetPass' /\ ClearsAreKnown' /\ ReportsAreBacked'
      /\ Current' = Current
  BY <1>1, Still
<1>6. Awaits'
  <2>1. \A q : IsOfStage(q)' <=> IsOfStage(q)
    BY <1>1, Still
  <2>2. open' # NoRequest => IsOfStage(open)'
    <3>1. open' # NoRequest => IsOfStage(open) /\ open' = open
      BY <1>4 DEF IInv, Awaits
    <3>2. \A q : q = open' => (open' # NoRequest => IsOfStage(q)')
      BY <2>1, <3>1
    <3>3. QED
      BY <3>2 DEF IsOfStage
  <2>3. answer' # NoAnswer => IsOfStage(answer.request)'
    <3>1. answer' # NoAnswer => IsOfStage(answer'.request)
      BY <1>4 DEF IInv, Awaits
    <3>2. \A q : q = answer'.request => (answer' # NoAnswer => IsOfStage(q)')
      BY <2>1, <3>1
    <3>3. QED
      BY <3>2 DEF IsOfStage
  <2>4. stage' = "idle" => open' = NoRequest /\ answer' = NoAnswer
    BY <1>4, <1>5 DEF IInv, Awaits
  <2>5. QED
    BY <1>5, <2>2, <2>3, <2>4 DEF IInv, Awaits
<1>7. Failed => Failed'
  BY <1>4 DEF Failed
<1>8. Punctual'
  <2>1. SUFFICES ASSUME stage \in Clearing
                 PROVE  Len(reports) > 0 /\ (Current.suspect \/ Failed' \/ ~Late(Current.address)')
    BY <1>5 DEF Punctual, Late
  <2> PICK a : a = Current.address
    OBVIOUS
  <2>2. a \in Targets
    BY <2>1, AtHand
  <2>3. synced'[a] >= synced[a] /\ synced[a] \in Nat /\ synced'[a] \in Nat
    <3>1. synced \in [Targets -> Nat] /\ (open # NoRequest => open.serial \in Nat /\ synced[a] < open.serial)
      BY <1>1, <2>2 DEF LinkInv, LinkTyped, OpenIsLast
    <3>2. synced' \in [Targets -> Nat]
      BY <1>1 DEF LinkInv, LinkTyped
    <3>3. CASE UNCHANGED <<open, answer, synced>>
      BY <2>2, <3>1, <3>3
    <3>4. CASE /\ open # NoRequest
               /\ synced' = [synced EXCEPT ![t] = IF reply.cause = open THEN open.serial
                                                  ELSE synced[t]]
      BY <2>2, <3>1, <3>2, <3>4
    <3>5. QED
      BY <1>3, <3>3, <3>4
  <2>4. Late(a)' => Late(a)
    <3>1. SUFFICES ASSUME NEW q \in given_up, q.target = a, q.serial > synced'[a]
                   PROVE  q.serial > synced[a]
      BY <1>1 DEF Late
    <3>2. QED
      <4>1. q.serial \in Nat
        BY <1>1 DEF LinkInv, LinkTyped
      <4>2. QED
        BY <2>3, <3>1, <4>1
  <2>5. ~Late(Current.address) => ~Late(Current.address)'
    BY <1>5, <2>4 DEF Late
  <2>6. QED
    BY <1>7, <2>1, <2>5 DEF IInv, Punctual
<1>9. Fresh'
  <2>1. \A kind, cause, i : DoneSince(kind, cause, i)' <=> DoneSince(kind, cause, i)
    BY <1>1, Still
  <2>2. ASSUME NEW i \in 1 .. Len(reports), ~reports[i].suspect
        PROVE  /\ reports[i].address \in Targets
               /\ \A k \in 1 .. Len(outbox[reports[i].address]) :
                     DoneSince(outbox[reports[i].address][k].kind,
                               outbox[reports[i].address][k].cause, i)
               /\ answer # NoAnswer => DoneSince(answer.kind, answer.cause, i)
    <3>1. reports[i].address = Addresses[i] /\ i \in 1 .. Len(Addresses)
      BY DEF IInv, Typed, IsReport, IsSequence
    <3>2. QED
      BY <2>2, <3>1, ElementOfSeq DEF IInv, Fresh
  <2>3. ASSUME NEW i \in 1 .. Len(reports), ~reports[i].suspect,
               NEW k \in 1 .. Len(outbox'[reports[i].address])
        PROVE  \A kind, cause : kind = outbox'[reports[i].address][k].kind
                                /\ cause = outbox'[reports[i].address][k].cause =>
                                   DoneSince(kind, cause, i)
    <3> PICK a : a = reports[i].address
      OBVIOUS
    <3>1. a \in Targets /\ \A j \in 1 .. Len(outbox[a]) :
             \A kind, cause : kind = outbox[a][j].kind /\ cause = outbox[a][j].cause =>
                                DoneSince(kind, cause, i)
      BY <2>2, <2>3
    <3>2. \A j \in 1 .. Len(outbox'[a]) : \E l \in 1 .. Len(outbox[a]) : outbox'[a][j] = outbox[a][l]
      BY <1>2, <3>1
    <3>3. QED
      BY <2>3, <3>1, <3>2
  <2>4. ASSUME NEW i \in 1 .. Len(reports), ~reports[i].suspect, answer' # NoAnswer
        PROVE  \A kind, cause : kind = answer'.kind /\ cause = answer'.cause =>
                                   DoneSince(kind, cause, i)
    <3>1. DoneSince(reply.kind, reply.cause, i)
      <4>1. CASE reports[i].address = t
        BY <1>2, <2>2, <2>4, <4>1
      <4>2. CASE reports[i].address # t
        BY <1>2, <4>2 DEF DoneSince
      <4>3. QED
        BY <4>1, <4>2
    <3>2. QED
      BY <1>4, <2>2, <2>4, <3>1
  <2>5. QED
    BY <1>5, <2>1, <2>3, <2>4 DEF Fresh, DoneSince
<1>10. ASSUME stage \in {"pre_read", "post_read"}
       PROVE  /\ Current.address \in Targets
              /\ open # NoRequest => open.target = Current.address
              /\ \A k \in 1 .. Len(outbox'[Current.address]) :
                    outbox'[Current.address][k].cause = open' =>
                    \E j \in 1 .. Len(outbox[Current.address]) :
                       /\ outbox'[Current.address][k] = outbox[Current.address][j]
                       /\ outbox[Current.address][j].cause = open
  <2>1. stage \in Clearing
    BY <1>10 DEF Clearing
  <2>2. Current.address \in Targets /\ (open # NoRequest => open.target = Current.address)
    BY <2>1, AtHand DEF IInv, Awaits, IsOfStage
  <2>3. \A j \in 1 .. Len(outbox[Current.address]) : outbox[Current.address][j].cause # NoRequest
    BY <1>1, <2>2, OwedIsAsked
  <2>4. QED
    BY <1>2, <1>4, <2>2, <2>3
<1>11. ASSUME answer' # NoAnswer, answer'.kind = "ok", answer'.cause = answer'.request,
              stage \in {"pre_read", "post_read"}
       PROVE  \/ /\ answer # NoAnswer /\ answer.kind = "ok" /\ answer.cause = answer.request
                 /\ answer.content = answer'.content
              \/ \E j \in 1 .. Len(outbox[Current.address]) :
                    /\ outbox[Current.address][j].kind = "ok"
                    /\ outbox[Current.address][j].cause = open
                    /\ outbox[Current.address][j].content = answer'.content
  BY <1>2, <1>4, <1>10, <1>11
<1>12. Recording'
  <2>1. SUFFICES ASSUME stage = "pre_read", ~Current.suspect
                 PROVE  Recording'
    BY <1>5 DEF Recording
  <2>2. /\ ~Failed => HoldsStored(memory[Current.address])
        /\ \A k \in 1 .. Len(outbox[Current.address]) :
              outbox[Current.address][k].kind = "ok" /\ outbox[Current.address][k].cause = open =>
                 HoldsStored(outbox[Current.address][k].content.faults)
        /\ answer # NoAnswer /\ answer.kind = "ok" /\ answer.cause = answer.request =>
              HoldsStored(answer.content.faults)
    BY <2>1 DEF IInv, Recording
  <2>3. ~Failed' => HoldsStored(memory[Current.address])
    BY <1>7, <2>2
  <2>4. \A k \in 1 .. Len(outbox'[Current.address]) :
           outbox'[Current.address][k].kind = "ok" /\ outbox'[Current.address][k].cause = open' =>
              HoldsStored(outbox'[Current.address][k].content.faults)
    BY <1>10, <2>1, <2>2
  <2>5. answer' # NoAnswer /\ answer'.kind = "ok" /\ answer'.cause = answer'.request =>
           HoldsStored(answer'.content.faults)
    BY <1>11, <2>1, <2>2
  <2>6. QED
    BY <1>5, <2>3, <2>4, <2>5 DEF Recording, HoldsStored
<1>13. Verifying'
  <2>1. SUFFICES ASSUME stage = "post_read", ~Current.suspect
                 PROVE  Verifying'
    BY <1>5 DEF Verifying
  <2>2. /\ clears[Current.address] > Current.clears
        /\ \A k \in 1 .. Len(outbox[Current.address]) :
              outbox[Current.address][k].kind = "ok" /\ outbox[Current.address][k].cause = open =>
                 outbox[Current.address][k].content.clears > Current.clears
        /\ answer # NoAnswer /\ answer.kind = "ok" /\ answer.cause = answer.request =>
              answer.content.clears > Current.clears
    BY <2>1 DEF IInv, Verifying
  <2>3. \A k \in 1 .. Len(outbox'[Current.address]) :
           outbox'[Current.address][k].kind = "ok" /\ outbox'[Current.address][k].cause = open' =>
              outbox'[Current.address][k].content.clears > Current.clears
    BY <1>10, <2>1, <2>2
  <2>4. answer' # NoAnswer /\ answer'.kind = "ok" /\ answer'.cause = answer'.request =>
           answer'.content.clears > Current.clears
    BY <1>11, <2>1, <2>2
  <2>5. QED
    BY <1>5, <2>2, <2>3, <2>4 DEF Verifying
<1>14. QED
  BY <1>1, <1>5, <1>6, <1>8, <1>9, <1>12, <1>13 DEF IInv

-----------------------------------------------------------------------------

\* An ECU handles its next request and replies, or not: a reply to a clear or a
\* reset says that it was executed, a reply to a read what is stored.
LEMMA Handled ==
    ASSUME IInv, NEW t \in Targets, Handles(t), NEW kind, NEW content,
           Replies(t, kind, content) \/ outbox' = outbox,
           UNCHANGED <<asked, open, answer, given_up, synced>>, UNCHANGED sweepVars,
           NEW q, q = Head(inbox[t]),
           clears' \in [Targets -> Nat], \A u \in Targets : clears'[u] >= clears[u],
           resets' \in [Targets -> Nat], \A u \in Targets : resets'[u] >= resets[u],
           memory' = [u \in Targets |-> memory'[u]],
           \A u \in Targets : memory'[u] = memory[u] \/ (u = t /\ q.sid = "14"),
           \A e \in erased' : e \in erased \/ (e.report = q.data /\ q.sid = "14"),
           kind = "ok" /\ q.sid = "14" => clears'[t] > clears[t],
           kind = "ok" /\ q.sid = "11" => resets'[t] > resets[t],
           kind = "ok" /\ q.sid = "19" => content.faults = memory[t] /\ content.clears = clears[t]
    PROVE  IInv'
<1>1. LinkInv /\ LinkInv'
  BY LinkHandles DEF IInv
<1>2. /\ stage' = stage /\ reports' = reports /\ to_reset' = to_reset /\ sweeps' = sweeps
      /\ Current' = Current
  BY DEF sweepVars, Current
<1>3. /\ 1 \in 1 .. Len(inbox[t]) /\ q = inbox[t][1] /\ q # NoRequest /\ q.target = t
      /\ \A u \in Targets : \A k \in 1 .. Len(inbox'[u]) :
            \E j \in 1 .. Len(inbox[u]) : inbox'[u][k] = inbox[u][j]
  <2>1. /\ 1 \in 1 .. Len(inbox[t]) /\ q = inbox[t][1]
        /\ \A u \in Targets : \A k \in 1 .. Len(inbox'[u]) :
              \E j \in 1 .. Len(inbox[u]) : inbox'[u][k] = inbox[u][j]
    BY <1>1, Leaves
  <2>2. q # NoRequest /\ q.target = t
    <3>1. \A k \in 1 .. Len(inbox[t]) : inbox[t][k] # NoRequest /\ inbox[t][k].target = t
      BY <1>1, OwedIsAsked
    <3>2. QED
      BY <2>1, <3>1
  <2>3. QED
    BY <2>1, <2>2
<1>4. \A u \in Targets : \A k \in 1 .. Len(outbox'[u]) :
         \/ \E j \in 1 .. Len(outbox[u]) : outbox'[u][k] = outbox[u][j]
         \/ u = t /\ outbox'[u][k].kind = kind /\ outbox'[u][k].cause = q
                  /\ outbox'[u][k].content = content
  BY <1>1, Sending
<1>5. clears \in [Targets -> Nat] /\ resets \in [Targets -> Nat]
  BY DEF IInv, Typed
<1>6. ASSUME NEW i \in 1 .. Len(reports)
      PROVE  /\ IsReport(i) /\ reports[i].address \in Targets
             /\ clears'[reports[i].address] >= clears[reports[i].address]
             /\ resets'[reports[i].address] >= resets[reports[i].address]
  <2>1. reports[i].address = Addresses[i] /\ i \in 1 .. Len(Addresses) /\ IsReport(i)
    BY DEF IInv, Typed, IsReport, IsSequence
  <2>2. QED
    BY <2>1, ElementOfSeq
<1>7. Typed'
  <2>1. ASSUME NEW i \in 1 .. Len(reports)
        PROVE  IsReport(i)'
    <3> PICK a : a = reports[i].address
      OBVIOUS
    <3>1. /\ IsReport(i) /\ clears[a] \in Nat /\ clears'[a] \in Nat /\ resets[a] \in Nat
          /\ resets'[a] \in Nat /\ clears'[a] >= clears[a] /\ resets'[a] >= resets[a]
      BY <1>5, <1>6
    <3>2. QED
      BY SMTT(60), <1>2, <3>1 DEF IsReport
  <2>2. QED
    BY <1>2, <2>1 DEF IInv, Typed
<1>8. Awaits'
  <2>1. IsOfStage(open)' = IsOfStage(open)
    BY <1>2 DEF IsOfStage, First
  <2>2. IsOfStage(answer.request)' = IsOfStage(answer.request)
    BY <1>2 DEF IsOfStage, First
  <2>3. QED
    BY <1>2, <2>1, <2>2 DEF IInv, Awaits
<1>9. ResetPass' /\ Punctual'
  BY <1>2 DEF IInv, ResetPass, Punctual, Failed, Late
<1>10. Fresh'
  <2>1. ASSUME NEW i \in 1 .. Len(reports), NEW k2, NEW cause, DoneSince(k2, cause, i)
        PROVE  DoneSince(k2, cause, i)'
    <3> PICK a : a = reports[i].address
      OBVIOUS
    <3>1. /\ reports[i].clears \in Nat /\ reports[i].resets \in Nat /\ a \in Targets
          /\ clears[a] \in Nat /\ clears'[a] \in Nat /\ resets[a] \in Nat /\ resets'[a] \in Nat
          /\ clears'[a] >= clears[a] /\ resets'[a] >= resets[a]
      BY <1>5, <1>6 DEF IsReport
    <3>2. QED
      BY SMTT(60), <1>2, <2>1, <3>1 DEF DoneSince
  <2>2. ASSUME NEW i \in 1 .. Len(reports)
        PROVE  DoneSince(kind, q, i)'
    <3> PICK a : a = reports[i].address
      OBVIOUS
    <3>1. /\ reports[i].clears \in Nat /\ reports[i].resets \in Nat /\ a \in Targets
          /\ clears[a] \in Nat /\ clears'[a] \in Nat /\ resets[a] \in Nat /\ resets'[a] \in Nat
          /\ reports[i].clears <= clears[a] /\ reports[i].resets <= resets[a]
      BY <1>5, <1>6 DEF IsReport
    <3>2. a = t /\ kind = "ok" /\ q.sid = "14" => clears'[a] > reports[i].clears
      BY <3>1
    <3>3. a = t /\ kind = "ok" /\ q.sid = "11" => resets'[a] > reports[i].resets
      BY <3>1
    <3>4. QED
      BY <1>2, <1>3, <3>2, <3>3 DEF DoneSince
  <2>3. ASSUME NEW i \in 1 .. Len(reports), ~reports[i].suspect,
               NEW k \in 1 .. Len(outbox'[reports[i].address]),
               NEW k2, NEW cause,
               k2 = outbox'[reports[i].address][k].kind,
               cause = outbox'[reports[i].address][k].cause
        PROVE  DoneSince(k2, cause, i)'
    <3>1. CASE \E j \in 1 .. Len(outbox[reports[i].address]) :
                  outbox'[reports[i].address][k] = outbox[reports[i].address][j]
      <4>1. DoneSince(k2, cause, i)
        BY <2>3, <3>1 DEF IInv, Fresh
      <4>2. QED
        BY <2>1, <4>1
    <3>2. CASE k2 = kind /\ cause = q
      BY <2>2, <3>2
    <3>3. QED
      BY <1>4, <1>6, <2>3, <3>1, <3>2
  <2>4. ASSUME NEW i \in 1 .. Len(reports), ~reports[i].suspect, answer # NoAnswer
        PROVE  DoneSince(answer.kind, answer.cause, i)'
    <3> PICK k2 : k2 = answer.kind
      OBVIOUS
    <3> PICK cause : cause = answer.cause
      OBVIOUS
    <3>1. DoneSince(k2, cause, i)
      BY <2>4 DEF IInv, Fresh
    <3>2. DoneSince(k2, cause, i)'
      BY <2>1, <3>1
    <3>3. k2 = answer'.kind /\ cause = answer'.cause
      OBVIOUS
    <3>4. QED
      BY <3>2, <3>3 DEF DoneSince
  <2>5. ASSUME NEW i \in 1 .. Len(reports), ~reports[i].suspect,
               NEW k \in 1 .. Len(outbox'[reports[i].address])
        PROVE  DoneSince(outbox[reports[i].address][k].kind,
                         outbox[reports[i].address][k].cause, i)'
    <3> PICK k2 : k2 = outbox'[reports[i].address][k].kind
      OBVIOUS
    <3> PICK cause : cause = outbox'[reports[i].address][k].cause
      OBVIOUS
    <3>1. DoneSince(k2, cause, i)'
      BY <2>3, <2>5
    <3>2. QED
      BY <1>2, <3>1 DEF DoneSince
  <2>6. QED
    BY <1>2, <2>4, <2>5 DEF Fresh
<1>11. ReportsAreBacked'
  <2>1. DOMAIN reports = 1 .. Len(reports)
    BY DEF IInv, Typed, IsSequence
  <2>2. \A i \in 1 .. Len(reports) : /\ reports[i].resets \in Nat /\ reports[i].address \in Targets
                                     /\ resets'[reports[i].address] >= resets[reports[i].address]
    BY <1>6 DEF IsReport
  <2>3. ASSUME NEW i \in 1 .. Len(reports), ~reports[i].suspect
        PROVE  /\ reports[i].verified_clean => reports[i].read_after > reports[i].clears
               /\ reports[i].reset_performed = "ok" =>
                     resets'[reports[i].address] > reports[i].resets
    <3> PICK a : a = reports[i].address
      OBVIOUS
    <3>1. /\ reports[i].verified_clean => reports[i].read_after > reports[i].clears
          /\ reports[i].reset_performed = "ok" => resets[a] > reports[i].resets
      BY <2>1, <2>3 DEF IInv, ReportsAreBacked
    <3>2. /\ reports[i].resets \in Nat /\ resets[a] \in Nat /\ resets'[a] \in Nat
          /\ resets'[a] >= resets[a]
      BY <1>5, <2>2
    <3>3. QED
      BY <3>1, <3>2
  <2>4. QED
    BY <1>2, <2>1, <2>3 DEF ReportsAreBacked
<1>12. ASSUME stage \in {"pre_read", "post_read"}, ~Current.suspect
       PROVE  /\ Current.address \in Targets
              /\ ~Failed => ~Late(Current.address)
              /\ open # NoRequest => open.target = Current.address /\ open.sid = "19" /\ ~Failed
  <2>1. stage \in Clearing
    BY <1>12 DEF Clearing
  <2>2. Current.address \in Targets
    BY <2>1, AtHand
  <2>3. ~Failed => ~Late(Current.address)
    BY <1>12, <2>1 DEF IInv, Punctual
  <2>4. open # NoRequest => open.target = Current.address /\ open.sid = "19" /\ ~Failed
    BY <1>1, <1>12, <2>1 DEF IInv, Awaits, IsOfStage, LinkInv, OpenIsLast, Failed
  <2>5. QED
    BY <2>2, <2>3, <2>4
<1>13. Recording'
  <2>1. SUFFICES ASSUME stage = "pre_read", ~Current.suspect
                 PROVE  Recording'
    BY <1>2 DEF Recording
  <2> PICK a : a = Current.address
    OBVIOUS
  <2>2. /\ ~Failed => HoldsStored(memory[a])
        /\ \A k \in 1 .. Len(outbox[a]) :
              outbox[a][k].kind = "ok" /\ outbox[a][k].cause = open =>
                 HoldsStored(outbox[a][k].content.faults)
        /\ answer # NoAnswer /\ answer.kind = "ok" /\ answer.cause = answer.request =>
              HoldsStored(answer.content.faults)
    BY <2>1 DEF IInv, Recording
  <2>3. ~Failed => memory'[a] = memory[a]
    <3>1. SUFFICES ASSUME ~Failed, a = t
                   PROVE  q.sid # "14"
      BY <1>12, <2>1
    <3>2. open # NoRequest /\ q = open
      BY <1>1, <1>3, <1>12, <2>1, <3>1, NothingOwed
    <3>3. QED
      BY <1>12, <2>1, <3>2
  <2>4. \A k \in 1 .. Len(outbox'[a]) :
           outbox'[a][k].kind = "ok" /\ outbox'[a][k].cause = open =>
              HoldsStored(outbox'[a][k].content.faults)
    <3>1. SUFFICES ASSUME NEW k \in 1 .. Len(outbox'[a]), outbox'[a][k].kind = "ok",
                          outbox'[a][k].cause = open
                   PROVE  HoldsStored(outbox'[a][k].content.faults)
      OBVIOUS
    <3>2. CASE \E j \in 1 .. Len(outbox[a]) : outbox'[a][k] = outbox[a][j]
      BY <2>2, <3>1, <3>2
    <3>3. CASE a = t /\ outbox'[a][k].kind = kind /\ outbox'[a][k].cause = q
               /\ outbox'[a][k].content = content
      <4>1. open # NoRequest /\ q.sid = "19" /\ ~Failed /\ kind = "ok"
        BY <1>3, <1>12, <2>1, <3>1, <3>3
      <4>2. content.faults = memory[a] /\ content.clears = clears[a]
        BY <3>3, <4>1
      <4>3. QED
        BY <2>2, <3>3, <4>1, <4>2
    <3>4. QED
      BY <1>4, <1>12, <2>1, <3>2, <3>3
  <2>5. QED
    BY <1>2, <2>2, <2>3, <2>4 DEF Recording, HoldsStored, Failed
<1>14. Verifying'
  <2>1. SUFFICES ASSUME stage = "post_read", ~Current.suspect
                 PROVE  Verifying'
    BY <1>2 DEF Verifying
  <2> PICK a : a = Current.address
    OBVIOUS
  <2>2. /\ clears[a] > Current.clears
        /\ \A k \in 1 .. Len(outbox[a]) :
              outbox[a][k].kind = "ok" /\ outbox[a][k].cause = open =>
                 outbox[a][k].content.clears > Current.clears
        /\ answer # NoAnswer /\ answer.kind = "ok" /\ answer.cause = answer.request =>
              answer.content.clears > Current.clears
    BY <2>1 DEF IInv, Verifying
  <2>3. clears'[a] > Current.clears
    <3>1. Len(reports) \in 1 .. Len(reports) /\ Current = reports[Len(reports)]
      BY <2>1, AtHand DEF Clearing
    <3>2. Current.clears \in Nat /\ a \in Targets
      BY <1>6, <3>1 DEF IsReport
    <3>3. QED
      BY SMTT(60), <1>5, <2>2, <3>2
  <2>4. \A k \in 1 .. Len(outbox'[a]) :
           outbox'[a][k].kind = "ok" /\ outbox'[a][k].cause = open =>
              outbox'[a][k].content.clears > Current.clears
    <3>1. SUFFICES ASSUME NEW k \in 1 .. Len(outbox'[a]), outbox'[a][k].kind = "ok",
                          outbox'[a][k].cause = open
                   PROVE  outbox'[a][k].content.clears > Current.clears
      OBVIOUS
    <3>2. CASE \E j \in 1 .. Len(outbox[a]) : outbox'[a][k] = outbox[a][j]
      BY <2>2, <3>1, <3>2
    <3>3. CASE a = t /\ outbox'[a][k].kind = kind /\ outbox'[a][k].cause = q
               /\ outbox'[a][k].content = content
      <4>1. open # NoRequest /\ q.sid = "19" /\ ~Failed /\ kind = "ok"
        BY <1>3, <1>12, <2>1, <3>1, <3>3
      <4>2. content.faults = memory[a] /\ content.clears = clears[a]
        BY <3>3, <4>1
      <4>3. QED
        BY <2>2, <3>3, <4>1, <4>2
    <3>4. QED
      BY <1>4, <1>12, <2>1, <3>2, <3>3
  <2>5. QED
    BY <1>2, <2>2, <2>3, <2>4 DEF Verifying
<1>15. ClearsAreKnown'
  <2>1. \A data : KnownClear(data)' <=> KnownClear(data)
    BY <1>2 DEF KnownClear, Recorded
  <2>2. Recorded(Len(reports))' <=> Recorded(Len(reports))
    BY <1>2 DEF Recorded
  <2>3. q.sid = "14" => KnownClear(q.data)
    BY <1>3 DEF IInv, ClearsAreKnown
  <2>4. \A u \in Targets : \A k \in 1 .. Len(inbox'[u]) : \A data : data = inbox'[u][k].data =>
           (inbox'[u][k].sid = "14" => KnownClear(data)')
    <3>1. SUFFICES ASSUME NEW u \in Targets, NEW k \in 1 .. Len(inbox'[u]), inbox'[u][k].sid = "14",
                          NEW data, data = inbox'[u][k].data
                   PROVE  KnownClear(data)'
      OBVIOUS
    <3>2. PICK j \in 1 .. Len(inbox[u]) : inbox'[u][k] = inbox[u][j]
      BY <1>3
    <3>3. KnownClear(data)
      BY <3>1, <3>2 DEF IInv, ClearsAreKnown
    <3>4. QED
      BY <2>1, <3>3
  <2>5. \A e \in erased' : \A data : data = e.report => KnownClear(data)'
    BY <2>1, <2>3 DEF IInv, ClearsAreKnown
  <2>6. QED
    BY <1>2, <2>2, <2>4, <2>5 DEF IInv, ClearsAreKnown, KnownClear, Recorded
<1>16. QED
  BY <1>1, <1>7, <1>8, <1>9, <1>10, <1>11, <1>13, <1>14, <1>15 DEF IInv

-----------------------------------------------------------------------------

\* What is owed to a report does not change with what it is not about.
LEMMA Unmoved ==
    ASSUME IInv, reports' = reports, clears' = clears, resets' = resets, outbox' = outbox,
           answer' = answer
    PROVE  Fresh'
<1>1. Fresh
  BY DEF IInv
<1>2. ASSUME NEW i \in 1 .. Len(reports'), ~reports'[i].suspect
      PROVE  /\ \A k \in 1 .. Len(outbox'[reports'[i].address]) :
                   DoneSince(outbox[reports[i].address][k].kind,
                             outbox[reports[i].address][k].cause, i)
             /\ answer' # NoAnswer => DoneSince(answer.kind, answer.cause, i)
  BY <1>1, <1>2 DEF Fresh
<1>3. QED
  BY <1>2 DEF Fresh, DoneSince

\* A fault is stored.
LEMMA Occurs ==
    ASSUME IInv, NEW t \in Targets, FaultOccurs(t)
    PROVE  IInv'
<1>1. /\ UNCHANGED linkVars /\ stage' = stage /\ reports' = reports /\ to_reset' = to_reset
      /\ sweeps' = sweeps /\ clears' = clears /\ resets' = resets /\ erased' = erased
      /\ Current' = Current
  BY DEF FaultOccurs, sweepVars, Current
<1>2. PICK f : memory' = [memory EXCEPT ![t] = @ \cup {f}]
  BY DEF FaultOccurs
<1>3. /\ memory' = [u \in Targets |-> memory'[u]]
      /\ \A u \in Targets : memory[u] \subseteq memory'[u]
  BY <1>2 DEF IInv, Typed
<1>4. LinkInv'
  BY <1>1, LinkStutters DEF IInv
<1>5. /\ open' = open /\ answer' = answer /\ inbox' = inbox /\ outbox' = outbox
      /\ given_up' = given_up /\ synced' = synced
  BY <1>1 DEF linkVars
<1>6. Typed'
  BY <1>1, <1>3 DEF IInv, Typed, IsReport
<1>7. Awaits' /\ ResetPass' /\ Punctual'
  BY <1>1, <1>5 DEF IInv, Awaits, IsOfStage, First, ResetPass, Punctual, Failed, Late
<1>8. Fresh' /\ Verifying' /\ ReportsAreBacked'
  <2>1. Fresh'
    BY <1>1, <1>5, Unmoved
  <2>2. Verifying'
    BY <1>1, <1>5 DEF IInv, Verifying
  <2>3. ReportsAreBacked'
    BY <1>1 DEF IInv, ReportsAreBacked
  <2>4. QED
    BY <2>1, <2>2, <2>3
<1>9. Recording'
  <2>1. SUFFICES ASSUME stage = "pre_read"
                 PROVE  Recording'
    BY <1>1 DEF Recording
  <2>2. Current.address \in Targets
    BY <2>1, AtHand DEF Clearing
  <2>3. memory[Current.address] \subseteq memory'[Current.address]
    BY <1>3, <2>2
  <2>4. QED
    BY <1>1, <1>5, <2>3 DEF IInv, Recording, HoldsStored, Failed
<1>10. ClearsAreKnown'
  BY <1>1, <1>5 DEF IInv, ClearsAreKnown, KnownClear, Recorded
<1>11. QED
  BY <1>4, <1>6, <1>7, <1>8, <1>9, <1>10 DEF IInv

\* An ECU does what the request says, or refuses.
LEMMA EcuActs ==
    ASSUME IInv, NEW t \in Targets, EcuStep(t)
    PROVE  IInv'
<1> PICK q : q = Head(inbox[t])
  OBVIOUS
<1>1. /\ Handles(t) /\ UNCHANGED <<asked, open, answer, given_up, synced>>
      /\ UNCHANGED sweepVars
  BY DEF EcuStep, EcuReads, EcuEntersSession, EcuClears, EcuResets, EcuRefuses, Did
<1>2. /\ clears \in [Targets -> Nat] /\ resets \in [Targets -> Nat]
      /\ memory = [u \in Targets |-> memory[u]]
      /\ \A u \in Targets : clears[u] >= clears[u] /\ resets[u] >= resets[u]
  BY DEF IInv, Typed
<1>3. CASE EcuReads(t)
  <2> PICK content : content = [faults |-> memory[t], clears |-> clears[t]]
    OBVIOUS
  <2>1. /\ q.sid = "19" /\ Replies(t, "ok", content)
        /\ memory' = memory /\ clears' = clears /\ resets' = resets /\ erased' = erased
        /\ content.faults = memory[t] /\ content.clears = clears[t]
    BY <1>3 DEF EcuReads, Did, RequestOf, ecuVars
  <2>2. QED
    BY <1>1, <1>2, <2>1, Handled
<1>4. CASE EcuEntersSession(t)
  <2>1. /\ q.sid = "10" /\ (Replies(t, "ok", Nothing) \/ outbox' = outbox)
        /\ memory' = memory /\ clears' = clears /\ resets' = resets /\ erased' = erased
    BY <1>4 DEF EcuEntersSession, Did, RequestOf, ReplyOrSilence
  <2>2. QED
    BY <1>1, <1>2, <2>1, Handled
<1>5. CASE EcuClears(t)
  <2>1. /\ q.sid = "14" /\ (Replies(t, "ok", Nothing) \/ outbox' = outbox)
        /\ memory' = [memory EXCEPT ![t] = {}] /\ clears' = [clears EXCEPT ![t] = clears[t] + 1]
        /\ erased' = erased \cup {[report |-> q.data, faults |-> memory[t]]}
        /\ resets' = resets
    BY <1>5 DEF EcuClears, Did, RequestOf, ReplyOrSilence
  <2>2. /\ clears' \in [Targets -> Nat] /\ clears'[t] > clears[t]
        /\ \A u \in Targets : clears'[u] >= clears[u]
    BY <1>2, <2>1
  <2>3. /\ memory' = [u \in Targets |-> memory'[u]]
        /\ \A u \in Targets : memory'[u] = memory[u] \/ u = t
    BY <1>2, <2>1
  <2>4. \A e \in erased' : e \in erased \/ e.report = q.data
    BY <2>1
  <2>5. QED
    BY <1>1, <1>2, <2>1, <2>2, <2>3, <2>4, Handled
<1>6. CASE EcuResets(t)
  <2>1. /\ q.sid = "11" /\ (Replies(t, "ok", Nothing) \/ outbox' = outbox)
        /\ resets' = [resets EXCEPT ![t] = resets[t] + 1]
        /\ memory' = memory /\ clears' = clears /\ erased' = erased
    BY <1>6 DEF EcuResets, Did, RequestOf, ReplyOrSilence
  <2>2. /\ resets' \in [Targets -> Nat] /\ resets'[t] > resets[t]
        /\ \A u \in Targets : resets'[u] >= resets[u]
    BY <1>2, <2>1
  <2>3. QED
    BY <1>1, <1>2, <2>1, <2>2, Handled
<1>7. CASE EcuRefuses(t)
  <2> PICK kind : kind = "negative"
    OBVIOUS
  <2>1. /\ kind # "ok" /\ (Replies(t, kind, Nothing) \/ outbox' = outbox)
        /\ memory' = memory /\ clears' = clears /\ resets' = resets /\ erased' = erased
    BY <1>7 DEF EcuRefuses, ReplyOrSilence, ecuVars
  <2>2. QED
    BY <1>1, <1>2, <2>1, Handled
<1>8. QED
  BY <1>3, <1>4, <1>5, <1>6, <1>7 DEF EcuStep

\* Every step keeps the invariant.
LEMMA Steps ==
    ASSUME IInv, [Next]_vars
    PROVE  IInv'
<1>1. CASE StartSweep
  BY <1>1, SweepBegins
<1>2. CASE SweepStep
  BY <1>2, PreRead, Enter, Clear, PostRead, ResetEnter, ResetDone DEF SweepStep
<1>3. CASE GiveUp /\ UNCHANGED <<sweepVars, ecuVars>>
  BY <1>3, GivenUp
<1>4. CASE (\E t \in Targets : Deliver(t)) /\ UNCHANGED <<sweepVars, ecuVars>>
  BY <1>4, Delivered
<1>5. CASE \E t \in Targets : EcuStep(t)
  BY <1>5, EcuActs
<1>6. CASE \E t \in Targets : FaultOccurs(t)
  BY <1>6, Occurs
<1>7. CASE UNCHANGED vars
  <2>1. UNCHANGED linkVars /\ UNCHANGED <<sweepVars, ecuVars>>
    BY <1>7 DEF vars
  <2>2. /\ LinkInv' /\ open' = open /\ answer' = answer /\ inbox' = inbox /\ outbox' = outbox
        /\ given_up' = given_up /\ synced' = synced
    BY <2>1, LinkStutters DEF IInv, linkVars
  <2>3. /\ stage' = stage /\ reports' = reports /\ to_reset' = to_reset
        /\ clears' = clears /\ resets' = resets /\ memory' = memory
        /\ Typed' /\ ResetPass' /\ ClearsAreKnown' /\ ReportsAreBacked' /\ Current' = Current
    BY <2>1, <2>2, Still
  <2>4. Awaits' /\ Punctual'
    BY <2>2, <2>3 DEF IInv, Awaits, IsOfStage, First, Punctual, Failed, Late
  <2>5. Fresh' /\ Recording' /\ Verifying'
    <3>1. Fresh'
      BY <2>2, <2>3, Unmoved
    <3>2. Recording'
      BY <2>2, <2>3 DEF IInv, Recording, HoldsStored, Failed
    <3>3. Verifying'
      BY <2>2, <2>3 DEF IInv, Verifying
    <3>4. QED
      BY <3>1, <3>2, <3>3
  <2>6. QED
    BY <2>2, <2>3, <2>4, <2>5 DEF IInv
<1>8. QED
  BY <1>1, <1>2, <1>3, <1>4, <1>5, <1>6, <1>7 DEF Next, Finished

-----------------------------------------------------------------------------
(***************************************************************************)
(* The theorems, for every list of addresses and every number of sweeps.   *)
(***************************************************************************)

\* The invariant of a sweep that meets late replies, its own and those of the
\* sweeps before it: what is on its way was asked of that ECU, in order; what a
\* stage waits for; what a report begun at a punctual ECU may conclude from it.
THEOREM SweepInvariant == Spec => []IInv
<1>1. Init => IInv
  BY Starts
<1>2. IInv /\ [Next]_vars => IInv'
  BY Steps
<1>3. QED
  BY <1>1, <1>2, PTL DEF Spec

\* Wherever nothing late was owed when a report was begun, verified_clean rests
\* on a read taken after a clear that the report's ECU executed since, and a
\* performed reset on a reset it executed since (scan.rs:119-154, 191-206).
THEOREM ReportsTellWhatWasDone == Spec => []ReportsAreBacked
<1>1. IInv => ReportsAreBacked
  BY DEF IInv
<1>2. QED
  BY <1>1, SweepInvariant, PTL

\* No clear erases what its report does not record, however late it is executed
\* (scan.rs:41-43, 119-140).
THEOREM NothingUnrecordedIsErased == Spec => []ErasedIsRecordedUnlessLate
<1>1. ASSUME IInv, NEW e \in erased, NEW i \in DOMAIN reports, e.report = Number(i)
      PROVE  reports[i].suspect \/ reports[i].stored \subseteq reports[i].before
  <2>1. KnownClear(e.report) /\ e.report[1] = sweeps /\ e.report[2] = i
    <3>1. KnownClear(e.report)
      BY <1>1 DEF IInv, ClearsAreKnown
    <3>2. e.report = <<sweeps, i>>
      BY <1>1 DEF Number
    <3>3. QED
      BY <3>1, <3>2
  <2>2. QED
    BY <2>1 DEF KnownClear, Recorded
<1>2. IInv => ErasedIsRecordedUnlessLate
  BY <1>1 DEF ErasedIsRecordedUnlessLate
<1>3. QED
  BY <1>2, SweepInvariant, PTL

\* Only an ECU with a successful clear is reset, never the gateway, and only
\* once every address has its report (scan.rs:50-51, 165-190).
THEOREM OnlyClearedAreReset == Spec => []FailedClearIsNeverReset
<1>1. ASSUME IInv, open # NoRequest, stage \in {"reset_enter", "reset"}
      PROVE  /\ open.target # Gateway
             /\ Len(reports) = Len(Addresses)
             /\ \E i \in DOMAIN reports :
                   reports[i].address = open.target /\ reports[i].error = "none"
  <2>1. stage \in Resetting
    BY <1>1 DEF Resetting
  <2>2. /\ Len(reports) = Len(Addresses) /\ to_reset # {} /\ IsSequence(reports)
        /\ \A i \in to_reset : /\ i \in 1 .. Len(reports) /\ reports[i].error = "none"
                               /\ reports[i].address # Gateway
    BY <1>1, <2>1 DEF IInv, ResetPass, Typed
  <2>3. to_reset \in SUBSET Nat
    BY <2>2
  <2>4. First(to_reset) \in to_reset
    BY <2>2, <2>3, FirstIsListed
  <2>5. open.target = reports[First(to_reset)].address
    BY <1>1, <2>1 DEF IInv, Awaits, IsOfStage
  <2>6. DOMAIN reports = 1 .. Len(reports)
    BY <2>2 DEF IsSequence
  <2>7. QED
    BY <2>2, <2>4, <2>5, <2>6
<1>2. IInv => FailedClearIsNeverReset
  BY <1>1 DEF FailedClearIsNeverReset
<1>3. QED
  BY <1>2, SweepInvariant, PTL

=============================================================================
