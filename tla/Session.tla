------------------------------ MODULE Session ------------------------------
(***************************************************************************)
(* The demultiplexed UDS session of crates/client/src/session.rs.          *)
(*                                                                         *)
(* Many request futures share one HSFZ socket.  Each registers a slot in a *)
(* per-target table, writes its frame under the writer lock and waits on   *)
(* its own channel; one reader task routes every frame to the slot of the  *)
(* frame's source address, and one keepalive task writes TesterPresent     *)
(* frames through the same lock.                                           *)
(*                                                                         *)
(* A member of Requests is one call of `request_with_timeout`, so every    *)
(* channel (`rx`, `tx`) has the name of the request that created it.  The  *)
(* field `cause` of a frame or of an outcome is history: it names the      *)
(* request whose frame made the ECU speak.  HSFZ carries no such id, and   *)
(* no guard of the session's own actions reads it, except through the      *)
(* bytes SidOf(cause) that a UDS response really echoes.                   *)
(*                                                                         *)
(* Definitions that precede an operator and carry its name and a suffix    *)
(* are plausible faults of it; nothing in this module uses them.           *)
(***************************************************************************)
EXTENDS Naturals, Sequences, FiniteSets

CONSTANTS
    Requests,          \* the calls of request_with_timeout, one future each
    Targets,           \* ECU addresses
    Gateway,           \* the address the keepalive targets
    Sids,              \* UDS service ids
    TesterPresent,     \* the service id 0x3E
    Calls,             \* the calls the callers may make: a target, a service id and
                       \* the data (a DID, a DTC) the call asks about
    Keepalive,         \* names the keepalive task, as a writer and as a cause
    Nobody,            \* no holder of the writer lock, no cause
    NoSlot,            \* no entry in the pending table
    MaxPendingTicks,   \* MAX_PENDING_TICKS (10 in the code)
    EcuPendingLimit,   \* bound: NRC 0x78 replies an ECU sends per request
    Faults,            \* bound: the faults that occur, of "cancel", "link", "reader"
    KeepaliveLimit     \* bound: keepalive frames and NAKs in transit

ASSUME SessionAssumption ==
    /\ Gateway \in Targets
    /\ \A c \in Calls : c.target \in Targets /\ c.sid \in Sids
    /\ TesterPresent \in Sids
    /\ Keepalive \notin Requests
    /\ Nobody \notin Requests \cup {Keepalive}
    /\ MaxPendingTicks \in Nat
    /\ EcuPendingLimit \in Nat
    /\ KeepaliveLimit \in Nat
    /\ NoSlot \notin [request_sid : Sids, generation : Nat, tx : Requests]

VARIABLES
    \* One entry per request future
    pc,                \* where the future stands
    call,              \* its arguments
    generation,        \* the generation it minted
    ticks,             \* NRC 0x78 deliveries it has received
    chan,              \* its delivery channel
    outcome,           \* what it returns
    \* Shared by the futures and the two tasks
    next_generation,
    pending,           \* the slot table, keyed by target
    writer,            \* the holder of the writer lock
    reader,
    keepalive,
    \* The socket and what lies behind it
    link,
    torn,              \* a write was abandoned inside a frame
    inbox,             \* frames each ECU has yet to handle
    nagged,            \* NRC 0x78 replies sent for the head of the inbox
    outbox             \* each ECU's replies the reader has yet to read

futureVars == <<pc, call, generation, ticks, chan, outcome>>
wireVars   == <<link, torn, inbox, nagged, outbox>>
vars == <<futureVars, next_generation, pending, writer, reader, keepalive, wireVars>>

-----------------------------------------------------------------------------
Causes    == Requests \cup {Keepalive}
PCs       == {"idle", "minted", "locking", "writing", "waiting", "returning", "done"}
Slots     == [request_sid : Sids, generation : Nat, tx : Requests]
Outcomes  == [kind : {"none", "ok", "negative", "in_flight", "closed", "timeout",
                      "io_error", "cancelled"},
              cause : Causes \cup {Nobody}]
Delivery  == [type : {"pending", "final"}, result : Outcomes]
Frames    == [kind : {"positive", "negative", "response_pending", "other"}, cause : Causes]

Result(kind, cause) == [kind |-> kind, cause |-> cause]
Pending      == [type |-> "pending", result |-> Result("none", Nobody)]
Final(result) == [type |-> "final", result |-> result]

\* The keepalive frame is 3E 80 to the gateway.
TargetOf(c) == IF c = Keepalive THEN Gateway ELSE call[c].target
SidOf(c)    == IF c = Keepalive THEN TesterPresent ELSE call[c].sid

Target(r) == call[r].target
SessionDropped == keepalive = "aborted"

\* A future that has registered and whose SlotGuard has not run.
Guarded(r) == pc[r] \in {"locking", "writing", "waiting", "returning"}
\* The channel of r holds its final delivery.
FinalIn(deliveries) == \E i \in DOMAIN deliveries : deliveries[i].type = "final"
HasFinal(r) == FinalIn(chan[r])

Init ==
    /\ pc = [r \in Requests |-> "idle"]
    /\ call \in [Requests -> Calls]
    /\ generation = [r \in Requests |-> 0]
    /\ ticks = [r \in Requests |-> 0]
    /\ chan = [r \in Requests |-> <<>>]
    /\ outcome = [r \in Requests |-> Result("none", Nobody)]
    /\ next_generation = 0
    /\ pending = [t \in Targets |-> NoSlot]
    /\ writer = Nobody
    /\ reader = "running"
    /\ keepalive = "ticking"
    /\ link = "up"
    /\ torn = FALSE
    /\ inbox = [t \in Targets |-> <<>>]
    /\ nagged = [t \in Targets |-> 0]
    /\ outbox = [t \in Targets |-> <<>>]


-----------------------------------------------------------------------------
(***************************************************************************)
(* The request future.                                                     *)
(***************************************************************************)

\* fetch_add on next_generation; another future may register in between.
Mint(r) ==
    /\ ~SessionDropped
    /\ pc[r] = "idle"
    /\ pc' = [pc EXCEPT ![r] = "minted"]
    /\ generation' = [generation EXCEPT ![r] = next_generation]
    /\ next_generation' = next_generation + 1
    /\ UNCHANGED <<call, ticks, chan, outcome, pending, writer, reader, keepalive, wireVars>>

SlotTakenUnchecked(r) == FALSE

\* A second request in flight to the same target is refused.
SlotTaken(r) == pending[Target(r)] # NoSlot

\* One critical section on the table.  A refused call returns before it has a
\* guard, so it never touches the slot it met.
Register(r) ==
    /\ pc[r] = "minted"
    /\ IF SlotTaken(r)
       THEN /\ pc' = [pc EXCEPT ![r] = "done"]
            /\ outcome' = [outcome EXCEPT ![r] = Result("in_flight", Nobody)]
            /\ generation' = [generation EXCEPT ![r] = 0]
            /\ UNCHANGED pending
       ELSE /\ pc' = [pc EXCEPT ![r] = "locking"]
            /\ pending' = [pending EXCEPT ![Target(r)] =
                              [request_sid |-> call[r].sid,
                               generation  |-> generation[r],
                               tx          |-> r]]
            /\ UNCHANGED <<generation, outcome>>
    /\ UNCHANGED <<call, ticks, chan, next_generation, writer, reader,
                   keepalive, wireVars>>

LockWriter(r) ==
    /\ pc[r] = "locking"
    /\ writer = Nobody
    /\ writer' = r
    /\ pc' = [pc EXCEPT ![r] = "writing"]
    /\ UNCHANGED <<call, generation, ticks, chan, outcome, next_generation, pending,
                   reader, keepalive, wireVars>>

\* A whole frame entered the socket.  It reaches the ECU if the link is up and
\* no earlier frame was cut short; a write to a dead peer may still succeed.
Transmit(c) ==
    /\ inbox' = IF link = "up" /\ ~torn
                THEN [inbox EXCEPT ![TargetOf(c)] = Append(@, c)]
                ELSE inbox
    /\ UNCHANGED <<link, torn, nagged, outbox>>

WriteFrame(r) ==
    /\ pc[r] = "writing"
    /\ writer' = Nobody
    /\ \/ /\ Transmit(r)
          /\ pc' = [pc EXCEPT ![r] = "waiting"]
          /\ UNCHANGED outcome
       \/ /\ link = "down"
          /\ pc' = [pc EXCEPT ![r] = "returning"]
          /\ outcome' = [outcome EXCEPT ![r] = Result("io_error", Nobody)]
          /\ UNCHANGED wireVars
    /\ UNCHANGED <<call, generation, ticks, chan, next_generation, pending, reader,
                   keepalive>>

GivesUpNever(r) == FALSE

\* One more NRC 0x78 than a request puts up with.
GivesUp(r) == ticks[r] + 1 > MaxPendingTicks

\* rx.recv() inside the timeout: a queued delivery wins over the deadline.
Receive(r) ==
    /\ pc[r] = "waiting"
    /\ chan[r] # <<>>
    /\ chan' = [chan EXCEPT ![r] = Tail(@)]
    /\ LET delivery == Head(chan[r]) IN
       \/ /\ delivery.type = "final"
          /\ pc' = [pc EXCEPT ![r] = "returning"]
          /\ outcome' = [outcome EXCEPT ![r] = delivery.result]
          /\ UNCHANGED ticks
       \/ /\ delivery.type = "pending"
          /\ ticks' = [ticks EXCEPT ![r] = @ + 1]
          /\ IF GivesUp(r)
             THEN /\ pc' = [pc EXCEPT ![r] = "returning"]
                  /\ outcome' = [outcome EXCEPT ![r] = Result("timeout", Nobody)]
             ELSE UNCHANGED <<pc, outcome>>
    /\ UNCHANGED <<call, generation, next_generation, pending, writer, reader,
                   keepalive, wireVars>>

TimeOutWhileReading(r) ==
    /\ reader = "running"
    /\ pc[r] = "waiting"
    /\ chan[r] = <<>>
    /\ pc' = [pc EXCEPT ![r] = "returning"]
    /\ outcome' = [outcome EXCEPT ![r] = Result("timeout", Nobody)]
    /\ UNCHANGED <<call, generation, ticks, chan, next_generation, pending, writer,
                   reader, keepalive, wireVars>>

\* The deadline passed with nothing queued.
TimeOut(r) ==
    /\ pc[r] = "waiting"
    /\ chan[r] = <<>>
    /\ pc' = [pc EXCEPT ![r] = "returning"]
    /\ outcome' = [outcome EXCEPT ![r] = Result("timeout", Nobody)]
    /\ UNCHANGED <<call, generation, ticks, chan, next_generation, pending, writer,
                   reader, keepalive, wireVars>>

\* The caller drops the future at one of its awaits.  Dropped inside write_all,
\* it frees the lock with either none or a part of the frame in the socket.
Cancel(r) ==
    /\ "cancel" \in Faults
    /\ pc[r] \in {"locking", "writing", "waiting"}
    /\ pc' = [pc EXCEPT ![r] = "returning"]
    /\ outcome' = [outcome EXCEPT ![r] = Result("cancelled", Nobody)]
    /\ writer' = IF pc[r] = "writing" THEN Nobody ELSE writer
    /\ torn' \in IF pc[r] = "writing" THEN {torn, TRUE} ELSE {torn}
    /\ UNCHANGED <<call, generation, ticks, chan, next_generation, pending, reader,
                   keepalive, link, inbox, nagged, outbox>>

OwnsSlotByTarget(r) == pending[Target(r)] # NoSlot

\* The generation check of SlotGuard: the slot is still the one r registered.
OwnsSlot(r) ==
    /\ pending[Target(r)] # NoSlot
    /\ pending[Target(r)].generation = generation[r]

DropGuardForgotten(r) ==
    /\ pc[r] = "returning"
    /\ pc' = [pc EXCEPT ![r] = "done"]
    /\ generation' = [generation EXCEPT ![r] = 0]
    /\ ticks' = [ticks EXCEPT ![r] = 0]
    /\ chan' = [chan EXCEPT ![r] = <<>>]
    /\ UNCHANGED <<call, outcome, next_generation, pending, writer, reader, keepalive,
                   wireVars>>

\* The drop of the SlotGuard, then of the other locals.  It is a step of its own:
\* between the decision to return and the drop, the reader may free the slot and
\* a newer request to the same target may take it.
DropGuard(r) ==
    /\ pc[r] = "returning"
    /\ pc' = [pc EXCEPT ![r] = "done"]
    /\ pending' = IF OwnsSlot(r)
                  THEN [pending EXCEPT ![Target(r)] = NoSlot]
                  ELSE pending
    /\ generation' = [generation EXCEPT ![r] = 0]
    /\ ticks' = [ticks EXCEPT ![r] = 0]
    /\ chan' = [chan EXCEPT ![r] = <<>>]
    /\ UNCHANGED <<call, outcome, next_generation, writer, reader, keepalive, wireVars>>

-----------------------------------------------------------------------------
(***************************************************************************)
(* The reader task.                                                        *)
(***************************************************************************)

EchoesAnySid(f, slot) == TRUE

\* A positive response carries the request's service id plus 0x40 and a negative
\* one repeats it; either byte must match the slot.
EchoesSid(f, slot) == SidOf(f.cause) = slot.request_sid

FreedSlotKept(t) == pending

FreedSlot(t) == [pending EXCEPT ![t] = NoSlot]

\* route_frame, one critical section on the table.
RouteFrame(t) ==
    /\ reader = "running"
    /\ outbox[t] # <<>>
    /\ outbox' = [outbox EXCEPT ![t] = Tail(@)]
    /\ LET f       == Head(outbox[t])
           slot    == pending[t]
           matches == /\ f.kind # "other"
                      /\ slot # NoSlot
                      /\ EchoesSid(f, slot)
       IN  \/ /\ matches /\ f.kind = "positive"
              /\ pending' = FreedSlot(t)
              /\ chan' = [chan EXCEPT ![slot.tx] = Append(@, Final(Result("ok", f.cause)))]
           \/ /\ matches /\ f.kind = "negative"
              /\ pending' = FreedSlot(t)
              /\ chan' = [chan EXCEPT ![slot.tx] = Append(@, Final(Result("negative", f.cause)))]
           \/ /\ matches /\ f.kind = "response_pending"
              /\ chan' = [chan EXCEPT ![slot.tx] = Append(@, Pending)]
              /\ UNCHANGED pending
           \/ /\ ~matches
              /\ UNCHANGED <<pending, chan>>
    /\ UNCHANGED <<pc, call, generation, ticks, outcome, next_generation, writer, reader,
                   keepalive, link, torn, inbox, nagged>>

SendersInTable == {pending[t].tx : t \in {u \in Targets : pending[u] # NoSlot}}

DrainedSilently == chan

\* map.drain(): every waiter is failed with ConnectionClosed.
Drained == [r \in Requests |->
              IF r \in SendersInTable
              THEN Append(chan[r], Final(Result("closed", Nobody)))
              ELSE chan[r]]

\* read_frame failed: the peer closed, a frame was malformed or oversized, or
\* nothing came for READER_IDLE_CAP.  The last two leave the write half open.
ReaderEnds ==
    /\ "reader" \in Faults
    /\ reader = "running"
    /\ reader' = "ended"
    /\ chan' = Drained
    /\ pending' = [t \in Targets |-> NoSlot]
    /\ UNCHANGED <<pc, call, generation, ticks, outcome, next_generation, writer,
                   keepalive, wireVars>>

-----------------------------------------------------------------------------
(***************************************************************************)
(* The keepalive task, and the end of the session.                         *)
(***************************************************************************)

KeepalivesInTransit ==
    Cardinality({i \in DOMAIN inbox[Gateway] : inbox[Gateway][i] = Keepalive})
      + Cardinality({i \in DOMAIN outbox[Gateway] : outbox[Gateway][i].cause = Keepalive})

\* The interval elapsed and the task got the lock.
KeepaliveTick ==
    /\ keepalive = "ticking"
    /\ KeepalivesInTransit < KeepaliveLimit
    /\ writer = Nobody
    /\ writer' = Keepalive
    /\ keepalive' = "writing"
    /\ UNCHANGED <<futureVars, next_generation, pending, reader, wireVars>>

\* The first failed write ends the task.
KeepaliveWrite ==
    /\ keepalive = "writing"
    /\ writer' = Nobody
    /\ \/ /\ Transmit(Keepalive)
          /\ keepalive' = "ticking"
       \/ /\ link = "down"
          /\ keepalive' = "stopped"
          /\ UNCHANGED wireVars
    /\ UNCHANGED <<futureVars, next_generation, pending, reader>>

\* Drop for Session.  Every future borrows the session, so none is alive; with
\* both tasks the two halves of the socket go.
DropSession ==
    /\ ~SessionDropped
    /\ \A r \in Requests : pc[r] \in {"idle", "done"}
    /\ keepalive' = "aborted"
    /\ reader' = "aborted"
    /\ writer' = Nobody
    /\ link' = "down"
    /\ UNCHANGED <<futureVars, next_generation, pending, torn, inbox, nagged, outbox>>

-----------------------------------------------------------------------------
(***************************************************************************)
(* The socket and the ECUs behind the gateway.  An ECU handles its         *)
(* requests one at a time, in order, after any delay.                      *)
(***************************************************************************)

LinkDown ==
    /\ "link" \in Faults
    /\ link = "up"
    /\ link' = "down"
    /\ UNCHANGED <<futureVars, next_generation, pending, writer, reader, keepalive,
                   torn, inbox, nagged, outbox>>

EcuSends(t, kind) ==
    outbox' = [outbox EXCEPT ![t] = Append(@, [kind |-> kind, cause |-> Head(inbox[t])])]

EcuBusy(t) ==
    /\ link = "up"
    /\ inbox[t] # <<>>
    /\ nagged[t] < EcuPendingLimit
    /\ Head(inbox[t]) # Keepalive
    /\ nagged' = [nagged EXCEPT ![t] = @ + 1]
    /\ EcuSends(t, "response_pending")
    /\ UNCHANGED <<futureVars, next_generation, pending, writer, reader, keepalive,
                   link, torn, inbox>>

\* The final response, nothing at all, or only the gateway's 0x02 ack.  The
\* positive response to 3E 80 is suppressed.
EcuFinishes(t) ==
    /\ link = "up"
    /\ inbox[t] # <<>>
    /\ inbox' = [inbox EXCEPT ![t] = Tail(@)]
    /\ nagged' = [nagged EXCEPT ![t] = 0]
    /\ \/ Head(inbox[t]) # Keepalive /\ EcuSends(t, "positive")
       \/ EcuSends(t, "negative")
       \/ EcuSends(t, "other")
       \/ UNCHANGED outbox
    /\ UNCHANGED <<futureVars, next_generation, pending, writer, reader, keepalive,
                   link, torn>>

-----------------------------------------------------------------------------
RequestStep(r) ==
    \/ Mint(r) \/ Register(r) \/ LockWriter(r) \/ WriteFrame(r)
    \/ Receive(r) \/ TimeOut(r) \/ Cancel(r) \/ DropGuard(r)

TargetStep(t) == RouteFrame(t) \/ EcuBusy(t) \/ EcuFinishes(t)

\* The session is gone: nothing of it runs any more.
Closed == SessionDropped /\ UNCHANGED vars

Next ==
    \/ \E r \in Requests : RequestStep(r)
    \/ \E t \in Targets : TargetStep(t)
    \/ ReaderEnds \/ KeepaliveTick \/ KeepaliveWrite \/ DropSession \/ LinkDown
    \/ Closed

Spec == Init /\ [][Next]_vars

\* The runtime polls every ready future and task, and the timer fires; the
\* tokio mutex is FIFO, so a future waiting for the lock is not overtaken for
\* ever; a started write ends, because the socket takes it or breaks.  Nothing
\* is assumed of the reader, the peer, the keepalive timer or the callers.
Fairness ==
    /\ \A r \in Requests :
         /\ WF_vars(Register(r)) /\ SF_vars(LockWriter(r)) /\ WF_vars(WriteFrame(r))
         /\ WF_vars(Receive(r)) /\ WF_vars(TimeOut(r)) /\ WF_vars(DropGuard(r))
    /\ WF_vars(KeepaliveWrite)

FairSpec == Spec /\ Fairness

-----------------------------------------------------------------------------
(***************************************************************************)
(* Properties.                                                             *)
(***************************************************************************)

\* Every variable keeps its type (the structs of session.rs:64-127), and a
\* request stops counting NRC 0x78 one past the limit (session.rs:250-254).
TypeOK ==
    /\ pc \in [Requests -> PCs]
    /\ call \in [Requests -> Calls]
    /\ generation \in [Requests -> Nat]
    /\ ticks \in [Requests -> 0 .. MaxPendingTicks + 1]
    /\ \A r \in Requests : ticks[r] > MaxPendingTicks => pc[r] = "returning"
    /\ chan \in [Requests -> Seq(Delivery)]
    /\ outcome \in [Requests -> Outcomes]
    /\ next_generation \in Nat
    /\ pending \in [Targets -> Slots \cup {NoSlot}]
    /\ writer \in Requests \cup {Keepalive, Nobody}
    /\ reader \in {"running", "ended", "aborted"}
    /\ keepalive \in {"ticking", "writing", "stopped", "aborted"}
    /\ link \in {"up", "down"}
    /\ torn \in BOOLEAN
    /\ inbox \in [Targets -> Seq(Causes)]
    /\ nagged \in [Targets -> Nat]
    /\ outbox \in [Targets -> Seq(Frames)]

\* A slot in the table belongs to a request that is still alive, for its target
\* and its generation: no exit path, cancellation and a failed write included,
\* leaves a slot behind that would answer RequestInFlight for ever
\* (SlotGuard, session.rs:85-107).
NoLeakedSlot ==
    \A t \in Targets : pending[t] # NoSlot =>
        LET r == pending[t].tx IN
        /\ Guarded(r)
        /\ Target(r) = t
        /\ pending[t].generation = generation[r]
        /\ pending[t].request_sid = call[r].sid

\* A request that still waits for its final delivery holds its own slot: no guard
\* of an older request to the same target has evicted it, and the drain left
\* nobody out.  So the closed-channel branch session.rs:256 is never taken.
WaiterHoldsItsSlot ==
    \A r \in Requests :
        pc[r] \in {"locking", "writing", "waiting"} /\ ~HasFinal(r) =>
            /\ pending[Target(r)] # NoSlot
            /\ pending[Target(r)].tx = r

\* At most one request per target is outstanding (session.rs:12-13).
OneRequestPerTarget ==
    \A q, r \in Requests :
        /\ {pc[q], pc[r]} \subseteq {"locking", "writing", "waiting"}
        /\ Target(q) = Target(r)
        /\ ~HasFinal(q) /\ ~HasFinal(r)
        => q = r

\* The reader frees the slot with the final delivery, so a channel carries at
\* most one, and nothing after it (session.rs:317-336).
EndsWithFinal(deliveries) ==
    \A i \in DOMAIN deliveries : deliveries[i].type = "final" => i = Len(deliveries)

FinalIsLast == \A r \in Requests : EndsWithFinal(chan[r])

\* What r was given, in its channel or as its outcome.
ResultsOf(r) ==
    {outcome[r]} \cup {chan[r][i].result : i \in DOMAIN chan[r]}

\* Whatever the interleaving of requests, late replies and keepalive NAKs, a
\* response answers a request to the ECU it came from and for the service it
\* names (session.rs:16-20).
AnswersOwnTargetAndService ==
    \A r \in Requests : \A result \in ResultsOf(r) :
        result.kind \in {"ok", "negative"} =>
            /\ TargetOf(result.cause) = Target(r)
            /\ SidOf(result.cause) = call[r].sid

\* r went without its own answer: it was given up, or it was a TesterPresent
\* and the refusal of a keepalive frame was taken for its answer.
Abandoned(r) ==
    \/ outcome[r].kind \in {"timeout", "cancelled"}
    \/ \E result \in ResultsOf(r) : result.cause = Keepalive

\* A request gets the response to another one only if some request to the same
\* ECU, for the same service, went without its own; as long as nobody times
\* out, is cancelled or shares the keepalive's service, every answer is the
\* caller's own (session.rs:20-28).
StaleOnlyAfterAbandon ==
    \A r \in Requests :
        outcome[r].kind \in {"ok", "negative"} /\ outcome[r].cause \notin {r, Keepalive} =>
            \E b \in Requests \ {r} :
                Abandoned(b) /\ Target(b) = Target(r) /\ call[b].sid = call[r].sid

\* The parts that make the slot discipline inductive: live requests have
\* distinct generations, a slot's request has not been answered yet, and what
\* travels to or from an ECU was addressed to it.
Minted(r) == pc[r] = "minted" \/ Guarded(r)

GenerationsDistinct ==
    \A r \in Requests : Minted(r) =>
        /\ generation[r] < next_generation
        /\ \A q \in Requests : Minted(q) /\ generation[q] = generation[r] => q = r

SlotAwaitsItsFinal ==
    \A t \in Targets : pending[t] # NoSlot => ~HasFinal(pending[t].tx)

\* A future that has no guard yet, or no longer, has an empty channel.
QuietOutsideGuard ==
    \A r \in Requests : ~Guarded(r) => chan[r] = <<>>

SlotDiscipline ==
    /\ NoLeakedSlot
    /\ WaiterHoldsItsSlot
    /\ GenerationsDistinct
    /\ SlotAwaitsItsFinal
    /\ QuietOutsideGuard

WireIsAddressed ==
    \A t \in Targets :
        /\ \A i \in DOMAIN inbox[t] : TargetOf(inbox[t][i]) = t
        /\ \A i \in DOMAIN outbox[t] : TargetOf(outbox[t][i].cause) = t

\* The inductive invariant of the session's safety proof (SessionProofs): the
\* slot table, the channels and the wire agree in every state of
\* session.rs:199-341.
IInv ==
    /\ TypeOK
    /\ SlotDiscipline
    /\ FinalIsLast
    /\ WireIsAddressed
    /\ AnswersOwnTargetAndService

\* A slot leaves the table in two ways only: its own request is leaving, or its
\* request is being sent its final delivery; it is never overwritten
\* (session.rs:97-107, 159-163, 317-336).
SlotFreedByItsOwner ==
    [][\A t \in Targets :
         pending[t] # NoSlot /\ pending'[t] # pending[t] =>
            LET r == pending[t].tx IN
            /\ pending'[t] = NoSlot
            /\ \/ pc'[r] = "done"
               \/ Len(chan'[r]) > Len(chan[r])]_vars

\* Every request returns, whatever the ECU, the reader and the other callers do
\* (session.rs:157, 245-259).
EveryRequestReturns ==
    \A r \in Requests : pc[r] = "minted" ~> pc[r] = "done"

\* The documented error of a request whose reader has ended is ConnectionClosed
\* (session.rs:183-186): none may report a timeout instead.
EndedReaderIsReported ==
    [][\A r \in Requests :
         reader = "ended" /\ pc[r] = "waiting" /\ chan[r] = <<>> =>
            outcome'[r].kind # "timeout"]_vars

-----------------------------------------------------------------------------
(***************************************************************************)
(* The session implements Exchange.  A call is open while it owns a slot;  *)
(* it is offered the final delivery from the moment the reader sends it.   *)
(***************************************************************************)
OwnsItsSlot(r) == pending[Target(r)] # NoSlot /\ pending[Target(r)].tx = r

PhaseOf(r) ==
    CASE pc[r] \in {"idle", "minted"}            -> "idle"
      [] pc[r] = "done"                          -> "done"
      [] Guarded(r) /\ OwnsItsSlot(r)            -> "open"
      [] Guarded(r) /\ ~OwnsItsSlot(r)           -> "offered"

OfferOf(r) ==
    IF PhaseOf(r) # "offered" THEN Result("none", Nobody)
    ELSE IF HasFinal(r) THEN chan[r][Len(chan[r])].result
    ELSE outcome[r]

Promise == INSTANCE Exchange WITH
    phase   <- [r \in Requests |-> PhaseOf(r)],
    offer   <- [r \in Requests |-> OfferOf(r)],
    outcome <- [r \in Requests |-> IF pc[r] = "done" THEN outcome[r] ELSE Result("none", Nobody)]

\* Every behaviour of the session is one Exchange allows: exclusive targets, no
\* answer from another ECU or service, no answer out of nothing.
ImplementsExchange == Promise!Spec

=============================================================================
