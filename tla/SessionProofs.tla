--------------------------- MODULE SessionProofs ---------------------------
(***************************************************************************)
(* Proofs about Session, for any number of requests, targets, services and *)
(* pending replies: its type invariant; by the inductive invariant IInv    *)
(* the safety of the slot table and of response routing; and by an account *)
(* of the channels and the wire that Session implements Exchange.          *)
(***************************************************************************)
EXTENDS Session, TLAPS

USE SessionAssumption

-----------------------------------------------------------------------------
(***************************************************************************)
(* Typing.                                                                 *)
(***************************************************************************)

\* The target and the service of every cause are of their types.
LEMMA CauseTyping ==
    ASSUME TypeOK, NEW c \in Causes
    PROVE  TargetOf(c) \in Targets /\ SidOf(c) \in Sids
BY DEF TypeOK, Causes, TargetOf, SidOf

\* A result with no cause, or with one, is an outcome.
LEMMA ResultTyping ==
    ASSUME NEW c \in Causes \cup {Nobody},
           NEW k \in {"none", "ok", "negative", "in_flight", "closed", "timeout",
                      "io_error", "cancelled"}
    PROVE  /\ Result(k, c) \in Outcomes
           /\ Final(Result(k, c)) \in Delivery
           /\ Pending \in Delivery
BY DEF Result, Final, Pending, Outcomes, Delivery

\* The initial states are well typed (Session::start, session.rs:146-176).
LEMMA InitTyped == Init => TypeOK
<1> SUFFICES ASSUME Init PROVE TypeOK
  OBVIOUS
<1>1. Result("none", Nobody) \in Outcomes
  BY ResultTyping
<1>2. pc \in [Requests -> PCs] /\ outcome \in [Requests -> Outcomes]
  BY <1>1 DEF Init, PCs
<1>3. /\ ticks \in [Requests -> 0 .. MaxPendingTicks + 1]
      /\ \A r \in Requests : ~(ticks[r] > MaxPendingTicks)
  BY DEF Init
<1>4. /\ chan \in [Requests -> Seq(Delivery)]
      /\ inbox \in [Targets -> Seq(Causes)]
      /\ outbox \in [Targets -> Seq(Frames)]
  BY DEF Init
<1>5. pending \in [Targets -> Slots \cup {NoSlot}]
  BY DEF Init
<1>6. QED
  BY <1>2, <1>3, <1>4, <1>5 DEF Init, TypeOK

\* Steps of one request future keep the types (session.rs:199-259).
LEMMA RequestTyped ==
    ASSUME TypeOK, NEW r \in Requests, RequestStep(r)
    PROVE  TypeOK'
<1> USE DEF TypeOK, PCs
<1>1. /\ Result("in_flight", Nobody) \in Outcomes
      /\ Result("timeout", Nobody) \in Outcomes
      /\ Result("cancelled", Nobody) \in Outcomes
      /\ Result("io_error", Nobody) \in Outcomes
  BY ResultTyping
<1>2. CASE Mint(r)
  BY <1>2 DEF Mint, wireVars
<1>3. CASE Register(r)
  <2>1. Target(r) \in Targets /\ call[r].sid \in Sids
    BY DEF Target
  <2>2. [request_sid |-> call[r].sid, generation |-> generation[r], tx |-> r] \in Slots
    BY <2>1 DEF Slots
  <2>3. pending' \in [Targets -> Slots \cup {NoSlot}]
    BY <1>3, <2>1, <2>2 DEF Register
  <2>4. /\ outcome' \in [Requests -> Outcomes]
        /\ pc' \in [Requests -> PCs]
        /\ generation' \in [Requests -> Nat]
    <3>1. CASE SlotTaken(r)
      <4>1. /\ pc' = [pc EXCEPT ![r] = "done"]
            /\ outcome' = [outcome EXCEPT ![r] = Result("in_flight", Nobody)]
            /\ generation' = [generation EXCEPT ![r] = 0]
        BY <1>3, <3>1 DEF Register
      <4>2. QED
        BY <1>1, <4>1
    <3>2. CASE ~SlotTaken(r)
      BY <1>3, <3>2 DEF Register
    <3>3. QED
      BY <3>1, <3>2
  <2>5. \A q \in Requests : ticks'[q] > MaxPendingTicks => pc'[q] = "returning"
    BY <1>3 DEF Register
  <2>6. QED
    BY <1>3, <2>3, <2>4, <2>5 DEF Register, wireVars
<1>4. CASE LockWriter(r)
  BY <1>4 DEF LockWriter, wireVars
<1>5. CASE WriteFrame(r)
  <2>1. CASE Transmit(r) /\ pc' = [pc EXCEPT ![r] = "waiting"] /\ UNCHANGED outcome
    <3>1. TargetOf(r) \in Targets /\ r \in Causes
      BY CauseTyping DEF Causes
    <3>2. inbox' \in [Targets -> Seq(Causes)]
      BY <2>1, <3>1 DEF Transmit
    <3>3. QED
      BY <1>5, <2>1, <3>2 DEF WriteFrame, Transmit
  <2>2. CASE pc' = [pc EXCEPT ![r] = "returning"]
             /\ outcome' = [outcome EXCEPT ![r] = Result("io_error", Nobody)]
             /\ UNCHANGED wireVars
    BY <1>1, <1>5, <2>2 DEF WriteFrame, wireVars
  <2>3. QED
    BY <1>5, <2>1, <2>2 DEF WriteFrame
<1>6. CASE Receive(r)
  <2>1. chan[r] \in Seq(Delivery) /\ chan[r] # <<>>
    BY <1>6 DEF Receive
  <2>2. Head(chan[r]) \in Delivery /\ Tail(chan[r]) \in Seq(Delivery)
    BY <2>1
  <2>3. Head(chan[r]).result \in Outcomes
    BY <2>2 DEF Delivery
  <2>4. pc[r] = "waiting" /\ ticks[r] \in 0 .. MaxPendingTicks
    BY <1>6 DEF Receive
  <2>5. CASE Head(chan[r]).type = "final"
    BY <1>6, <2>2, <2>3, <2>4, <2>5 DEF Receive, wireVars
  <2>6. CASE Head(chan[r]).type = "pending"
    <3>1. /\ pc' \in [Requests -> PCs]
          /\ outcome' \in [Requests -> Outcomes]
          /\ chan' \in [Requests -> Seq(Delivery)]
      <4>1. CASE GivesUp(r)
        <5>1. /\ pc' = [pc EXCEPT ![r] = "returning"]
              /\ outcome' = [outcome EXCEPT ![r] = Result("timeout", Nobody)]
              /\ chan' = [chan EXCEPT ![r] = Tail(@)]
          BY <1>6, <2>6, <4>1 DEF Receive
        <5>2. QED
          BY <1>1, <2>2, <5>1
      <4>2. CASE ~GivesUp(r)
        BY <1>6, <2>2, <2>6, <4>2 DEF Receive
      <4>3. QED
        BY <4>1, <4>2
    <3>2. ticks' = [ticks EXCEPT ![r] = @ + 1] /\ ticks[r] + 1 \in 0 .. MaxPendingTicks + 1
      BY <1>6, <2>4, <2>6 DEF Receive
    <3>3. \A q \in Requests : ticks'[q] > MaxPendingTicks => pc'[q] = "returning"
      BY <1>6, <2>4, <2>6, <3>2 DEF Receive, GivesUp
    <3>4. QED
      BY <1>6, <3>1, <3>2, <3>3 DEF Receive, wireVars
  <2>7. QED
    BY <1>6, <2>5, <2>6 DEF Receive
<1>7. CASE TimeOut(r)
  BY <1>1, <1>7 DEF TimeOut, wireVars
<1>8. CASE Cancel(r)
  BY <1>1, <1>8 DEF Cancel
<1>9. CASE DropGuard(r)
  BY SMTT(60), <1>9 DEF DropGuard, wireVars, Target
<1>10. QED
  BY <1>2, <1>3, <1>4, <1>5, <1>6, <1>7, <1>8, <1>9 DEF RequestStep


\* Steps of the reader, of the keepalive task and of what surrounds them keep
\* the types (session.rs:129-164, 299-364).
LEMMA OtherTyped ==
    ASSUME TypeOK,
           \/ \E t \in Targets : TargetStep(t)
           \/ ReaderEnds \/ KeepaliveTick \/ KeepaliveWrite \/ DropSession \/ LinkDown
           \/ Closed
    PROVE  TypeOK'
<1> USE DEF TypeOK
<1>1. ASSUME NEW t \in Targets, RouteFrame(t)
      PROVE  TypeOK'
  <2>1. outbox[t] \in Seq(Frames) /\ outbox[t] # <<>>
    BY <1>1 DEF RouteFrame
  <2>2. Head(outbox[t]) \in Frames /\ Tail(outbox[t]) \in Seq(Frames)
    BY <2>1
  <2>3. Head(outbox[t]).cause \in Causes
    BY <2>2 DEF Frames
  <2>4. outbox' \in [Targets -> Seq(Frames)]
    BY <1>1, <2>2 DEF RouteFrame
  <2>5. pending' \in [Targets -> Slots \cup {NoSlot}]
    BY <1>1 DEF RouteFrame, FreedSlot
  <2>6. chan' \in [Requests -> Seq(Delivery)]
    <3>1. CASE UNCHANGED chan
      BY <3>1
    <3>2. CASE \E d \in Delivery : /\ pending[t] # NoSlot
                                  /\ chan' = [chan EXCEPT ![pending[t].tx] = Append(@, d)]
      <4>1. PICK d \in Delivery : /\ pending[t] # NoSlot
                                  /\ chan' = [chan EXCEPT ![pending[t].tx] = Append(@, d)]
        BY <3>2
      <4>2. pending[t].tx \in Requests
        BY <4>1 DEF Slots
      <4>3. Append(chan[pending[t].tx], d) \in Seq(Delivery)
        BY <4>2
      <4>4. QED
        BY <4>1, <4>2, <4>3
    <3>3. /\ Final(Result("ok", Head(outbox[t]).cause)) \in Delivery
          /\ Final(Result("negative", Head(outbox[t]).cause)) \in Delivery
          /\ Pending \in Delivery
      BY <2>3, ResultTyping
    <3>4. QED
      BY <1>1, <3>1, <3>2, <3>3 DEF RouteFrame
  <2>7. QED
    BY <1>1, <2>4, <2>5, <2>6 DEF RouteFrame
<1>2. ASSUME NEW t \in Targets, EcuBusy(t) \/ EcuFinishes(t)
      PROVE  TypeOK'
  <2>1. inbox[t] \in Seq(Causes) /\ inbox[t] # <<>>
    BY <1>2 DEF EcuBusy, EcuFinishes
  <2>2. Head(inbox[t]) \in Causes /\ Tail(inbox[t]) \in Seq(Causes)
    BY <2>1
  <2>3. \A kind \in {"positive", "negative", "response_pending", "other"} :
          EcuSends(t, kind) => outbox' \in [Targets -> Seq(Frames)]
    <3> SUFFICES ASSUME NEW kind \in {"positive", "negative", "response_pending", "other"},
                        EcuSends(t, kind)
                 PROVE  outbox' \in [Targets -> Seq(Frames)]
      OBVIOUS
    <3>1. [kind |-> kind, cause |-> Head(inbox[t])] \in Frames
      BY <2>2 DEF Frames
    <3>2. QED
      BY <3>1 DEF EcuSends
  <2>4. outbox' \in [Targets -> Seq(Frames)]
    BY <1>2, <2>3 DEF EcuBusy, EcuFinishes
  <2>5. inbox' \in [Targets -> Seq(Causes)] /\ nagged' \in [Targets -> Nat]
    <3>1. CASE EcuBusy(t)
      BY <3>1 DEF EcuBusy
    <3>2. CASE EcuFinishes(t)
      BY <2>2, <3>2 DEF EcuFinishes
    <3>3. QED
      BY <1>2, <3>1, <3>2
  <2>6. UNCHANGED <<futureVars, next_generation, pending, writer, reader, keepalive, link, torn>>
    BY <1>2 DEF EcuBusy, EcuFinishes
  <2>7. QED
    BY <2>4, <2>5, <2>6 DEF futureVars
<1>3. ASSUME ReaderEnds
      PROVE  TypeOK'
  <2>1. Final(Result("closed", Nobody)) \in Delivery
    BY ResultTyping
  <2>2. \A r \in Requests : Append(chan[r], Final(Result("closed", Nobody))) \in Seq(Delivery)
    BY <2>1
  <2>3. chan' \in [Requests -> Seq(Delivery)]
    BY <1>3, <2>2 DEF ReaderEnds, Drained
  <2>4. QED
    BY <1>3, <2>3 DEF ReaderEnds, wireVars
<1>4. ASSUME KeepaliveTick \/ DropSession \/ LinkDown \/ Closed
      PROVE  TypeOK'
  BY <1>4 DEF KeepaliveTick, DropSession, LinkDown, Closed, vars, futureVars, wireVars
<1>5. ASSUME KeepaliveWrite
      PROVE  TypeOK'
  <2>1. TargetOf(Keepalive) \in Targets /\ Keepalive \in Causes
    BY DEF TargetOf, Causes
  <2>2. inbox' \in [Targets -> Seq(Causes)]
    <3>1. CASE Transmit(Keepalive)
      BY <2>1, <3>1 DEF Transmit
    <3>2. CASE UNCHANGED wireVars
      BY <3>2 DEF wireVars
    <3>3. QED
      BY <1>5, <3>1, <3>2 DEF KeepaliveWrite
  <2>3. /\ UNCHANGED <<link, torn, nagged, outbox>>
        /\ keepalive' \in {"ticking", "stopped"}
    BY <1>5 DEF KeepaliveWrite, Transmit, wireVars
  <2>4. QED
    BY <1>5, <2>2, <2>3 DEF KeepaliveWrite, futureVars
<1>6. QED
  BY <1>1, <1>2, <1>3, <1>4, <1>5 DEF TargetStep

\* The session keeps its types whatever the peers, the callers and the faults.
THEOREM TypeCorrect == Spec => []TypeOK
<1>1. TypeOK /\ [Next]_vars => TypeOK'
  <2>1. CASE UNCHANGED vars
    BY <2>1 DEF TypeOK, vars, futureVars, wireVars
  <2>2. QED
    BY <2>1, RequestTyped, OtherTyped DEF Next
<1>2. QED
  BY <1>1, InitTyped, PTL DEF Spec

-----------------------------------------------------------------------------
(***************************************************************************)
(* Channels.                                                               *)
(***************************************************************************)

\* An empty channel holds no final delivery.
LEMMA EmptyChannel == ~FinalIn(<<>>) /\ EndsWithFinal(<<>>)
BY DEF FinalIn, EndsWithFinal

\* Sending adds exactly the delivery sent, behind the others.
LEMMA AppendToChannel ==
    ASSUME NEW s \in Seq(Delivery), NEW d \in Delivery
    PROVE  /\ FinalIn(Append(s, d)) <=> FinalIn(s) \/ d.type = "final"
           /\ ~FinalIn(s) => EndsWithFinal(Append(s, d))
           /\ Len(Append(s, d)) > Len(s)
           /\ \A i \in DOMAIN Append(s, d) : Append(s, d)[i] = d \/ \E j \in DOMAIN s : Append(s, d)[i] = s[j]
<1>1. /\ Len(Append(s, d)) = Len(s) + 1
      /\ Append(s, d)[Len(s) + 1] = d
      /\ \A i \in 1 .. Len(s) : Append(s, d)[i] = s[i]
      /\ DOMAIN s = 1 .. Len(s) /\ DOMAIN Append(s, d) = 1 .. Len(s) + 1
      /\ Len(s) \in Nat
  OBVIOUS
<1>2. QED
  BY <1>1 DEF FinalIn, EndsWithFinal

\* Receiving removes exactly the first delivery.
LEMMA TailOfChannel ==
    ASSUME NEW s \in Seq(Delivery), s # <<>>
    PROVE  /\ FinalIn(s) <=> Head(s).type = "final" \/ FinalIn(Tail(s))
           /\ EndsWithFinal(s) => EndsWithFinal(Tail(s))
           /\ \A i \in DOMAIN Tail(s) : \E j \in DOMAIN s : Tail(s)[i] = s[j]
           /\ \E j \in DOMAIN s : Head(s) = s[j]
<1>1. /\ Len(s) \in Nat \ {0}
      /\ Len(Tail(s)) = Len(s) - 1
      /\ Head(s) = s[1]
      /\ \A i \in 1 .. Len(s) - 1 : Tail(s)[i] = s[i + 1]
      /\ DOMAIN s = 1 .. Len(s) /\ DOMAIN Tail(s) = 1 .. Len(s) - 1
  OBVIOUS
<1>2. \A j \in 1 .. Len(s) : j = 1 \/ (j - 1 \in 1 .. Len(s) - 1 /\ Tail(s)[j - 1] = s[j])
  BY <1>1
<1>3. \A i \in 1 .. Len(s) - 1 : i + 1 \in 1 .. Len(s)
  BY <1>1
<1>4. FinalIn(s) <=> Head(s).type = "final" \/ FinalIn(Tail(s))
  <2>1. ASSUME FinalIn(s) PROVE Head(s).type = "final" \/ FinalIn(Tail(s))
    <3>1. PICK j \in 1 .. Len(s) : s[j].type = "final"
      BY <1>1, <2>1 DEF FinalIn
    <3>2. QED
      BY <1>1, <1>2, <3>1 DEF FinalIn
  <2>2. ASSUME Head(s).type = "final" PROVE FinalIn(s)
    BY <1>1, <2>2 DEF FinalIn
  <2>3. ASSUME FinalIn(Tail(s)) PROVE FinalIn(s)
    <3>1. PICK i \in 1 .. Len(s) - 1 : Tail(s)[i].type = "final"
      BY <1>1, <2>3 DEF FinalIn
    <3>2. s[i + 1].type = "final" /\ i + 1 \in 1 .. Len(s)
      BY <1>1, <1>3, <3>1
    <3>3. QED
      BY <1>1, <3>2 DEF FinalIn
  <2>4. QED
    BY <2>1, <2>2, <2>3
<1>5. EndsWithFinal(s) => EndsWithFinal(Tail(s))
  <2> SUFFICES ASSUME EndsWithFinal(s), NEW i \in 1 .. Len(s) - 1, Tail(s)[i].type = "final"
               PROVE  i = Len(s) - 1
    BY <1>1 DEF EndsWithFinal
  <2>1. s[i + 1].type = "final" /\ i + 1 \in 1 .. Len(s)
    BY <1>1, <1>3
  <2>2. i + 1 = Len(s)
    BY <1>1, <2>1 DEF EndsWithFinal
  <2>3. Len(s) \in Nat /\ i \in Nat
    BY <1>1
  <2>4. QED
    BY <2>2, <2>3
<1>6. QED
  BY <1>1, <1>3, <1>4, <1>5

-----------------------------------------------------------------------------
(***************************************************************************)
(* The slot table.                                                         *)
(***************************************************************************)

\* A future that moves on while it keeps its guard disturbs no slot
\* (session.rs:241-259).
LEMMA GuardedMove ==
    ASSUME TypeOK, SlotDiscipline,
           NEW r \in Requests, NEW to \in {"writing", "waiting", "returning"},
           pc[r] \in {"locking", "writing", "waiting"},
           pc' = [pc EXCEPT ![r] = to],
           UNCHANGED <<call, generation, next_generation, pending, chan>>
    PROVE  SlotDiscipline'
<1>1. /\ \A q \in Requests : Guarded(q)' <=> Guarded(q)
      /\ \A q \in Requests : Minted(q)' <=> Minted(q)
      /\ \A q \in Requests : Target(q)' = Target(q) /\ (HasFinal(q)' <=> HasFinal(q))
      /\ \A q \in Requests : pc'[q] \in {"locking", "writing", "waiting"} =>
                               pc[q] \in {"locking", "writing", "waiting"}
  BY DEF TypeOK, Guarded, Minted, Target, HasFinal
<1>2. \A t \in Targets : pending[t] # NoSlot => pending[t].tx \in Requests
  BY DEF TypeOK, Slots
<1>3. NoLeakedSlot'
  BY <1>1, <1>2 DEF SlotDiscipline, NoLeakedSlot
<1>4. WaiterHoldsItsSlot'
  BY <1>1 DEF SlotDiscipline, WaiterHoldsItsSlot
<1>5. GenerationsDistinct'
  BY <1>1 DEF SlotDiscipline, GenerationsDistinct
<1>6. SlotAwaitsItsFinal' /\ QuietOutsideGuard'
  BY <1>1, <1>2 DEF SlotDiscipline, SlotAwaitsItsFinal, QuietOutsideGuard
<1>7. QED
  BY <1>3, <1>4, <1>5, <1>6 DEF SlotDiscipline

\* The next generation is new to every future that holds one.
LEMMA MintSlots ==
    ASSUME TypeOK, SlotDiscipline, NEW r \in Requests, Mint(r)
    PROVE  SlotDiscipline'
<1>1. /\ pc[r] = "idle" /\ pc' = [pc EXCEPT ![r] = "minted"]
      /\ generation' = [generation EXCEPT ![r] = next_generation]
      /\ next_generation' = next_generation + 1 /\ next_generation \in Nat
      /\ UNCHANGED <<call, chan, pending>>
  BY DEF Mint, TypeOK
<1>2. /\ \A q \in Requests : Guarded(q)' <=> Guarded(q)
      /\ \A q \in Requests : Target(q)' = Target(q) /\ (HasFinal(q)' <=> HasFinal(q))
      /\ \A q \in Requests : Guarded(q) => generation'[q] = generation[q]
      /\ \A q \in Requests : pc'[q] \in {"locking", "writing", "waiting"} =>
                               pc[q] \in {"locking", "writing", "waiting"}
  BY <1>1 DEF TypeOK, Guarded, Target, HasFinal
<1>3. \A t \in Targets : pending[t] # NoSlot => pending[t].tx \in Requests
  BY DEF TypeOK, Slots
<1>4. NoLeakedSlot'
  BY <1>1, <1>2, <1>3 DEF SlotDiscipline, NoLeakedSlot
<1>5. WaiterHoldsItsSlot'
  BY <1>1, <1>2 DEF SlotDiscipline, WaiterHoldsItsSlot
<1>6. GenerationsDistinct'
  <2>1. \A q \in Requests : q # r => (Minted(q)' <=> Minted(q)) /\ generation'[q] = generation[q]
    BY <1>1, <1>2 DEF Minted, TypeOK
  <2>2. generation'[r] = next_generation
    BY <1>1 DEF TypeOK
  <2>3. \A q \in Requests : generation[q] \in Nat
    BY DEF TypeOK
  <2>4. QED
    BY <1>1, <2>1, <2>2, <2>3 DEF SlotDiscipline, GenerationsDistinct
<1>7. SlotAwaitsItsFinal' /\ QuietOutsideGuard'
  BY <1>1, <1>2, <1>3 DEF SlotDiscipline, SlotAwaitsItsFinal, QuietOutsideGuard
<1>8. QED
  BY <1>4, <1>5, <1>6, <1>7 DEF SlotDiscipline

\* Registration takes a free slot only, and for a request nobody has answered.
LEMMA RegisterSlots ==
    ASSUME TypeOK, SlotDiscipline, NEW r \in Requests, Register(r)
    PROVE  SlotDiscipline'
<1>1. /\ pc[r] = "minted" /\ chan[r] = <<>>
      /\ UNCHANGED <<call, chan, next_generation>>
      /\ Target(r) \in Targets
  BY DEF Register, TypeOK, SlotDiscipline, QuietOutsideGuard, Guarded, Target
<1>2. \A t \in Targets : pending[t] # NoSlot => pending[t].tx \in Requests
  BY DEF TypeOK, Slots
<1>3. /\ \A q \in Requests : Target(q)' = Target(q) /\ (HasFinal(q)' <=> HasFinal(q))
      /\ ~HasFinal(r)
  BY <1>1, EmptyChannel DEF Target, HasFinal
<1>4. CASE SlotTaken(r)
  <2>1. /\ pc' = [pc EXCEPT ![r] = "done"]
        /\ generation' = [generation EXCEPT ![r] = 0]
        /\ UNCHANGED pending
    BY <1>4 DEF Register
  <2>2. \A q \in Requests : /\ Guarded(q)' <=> Guarded(q)
                            /\ Minted(q)' <=> Minted(q) /\ q # r
                            /\ q # r => generation'[q] = generation[q] /\ pc'[q] = pc[q]
    BY <1>1, <2>1 DEF Guarded, Minted, TypeOK
  <2>3. ~Guarded(r) /\ pc'[r] = "done"
    BY <1>1, <2>1 DEF Guarded, TypeOK
  <2>4. NoLeakedSlot' /\ SlotAwaitsItsFinal'
    BY <1>1, <1>2, <1>3, <2>1, <2>2, <2>3 DEF SlotDiscipline, NoLeakedSlot, SlotAwaitsItsFinal
  <2>5. WaiterHoldsItsSlot'
    BY <1>1, <1>3, <2>1, <2>2, <2>3 DEF SlotDiscipline, WaiterHoldsItsSlot
  <2>6. GenerationsDistinct'
    BY <1>1, <2>2 DEF SlotDiscipline, GenerationsDistinct
  <2>7. QuietOutsideGuard'
    BY <1>1, <2>2 DEF SlotDiscipline, QuietOutsideGuard
  <2>8. QED
    BY <2>4, <2>5, <2>6, <2>7 DEF SlotDiscipline
<1>5. CASE ~SlotTaken(r)
  <2> DEFINE slot == [request_sid |-> call[r].sid, generation |-> generation[r], tx |-> r]
  <2>1. /\ pc' = [pc EXCEPT ![r] = "locking"]
        /\ pending' = [pending EXCEPT ![Target(r)] = slot]
        /\ UNCHANGED generation
        /\ pending[Target(r)] = NoSlot
    BY <1>5 DEF Register, SlotTaken
  <2>2. slot # NoSlot /\ slot.tx = r
    BY DEF TypeOK
  <2>3. \A q \in Requests : /\ Guarded(q)' <=> Guarded(q) \/ q = r
                            /\ Minted(q)' <=> Minted(q)
                            /\ q # r => pc'[q] = pc[q]
    BY <1>1, <2>1 DEF Guarded, Minted, TypeOK
  <2>4. \A t \in Targets : pending'[t] = IF t = Target(r) THEN slot ELSE pending[t]
    BY <1>1, <2>1 DEF TypeOK
  <2>5. NoLeakedSlot'
    BY <1>1, <1>2, <1>3, <2>1, <2>2, <2>3, <2>4 DEF SlotDiscipline, NoLeakedSlot
  <2>6. WaiterHoldsItsSlot'
    <3> SUFFICES ASSUME NEW q \in Requests,
                        pc'[q] \in {"locking", "writing", "waiting"}, ~HasFinal(q)'
                 PROVE  pending'[Target(q)'] # NoSlot /\ pending'[Target(q)'].tx = q
      BY DEF WaiterHoldsItsSlot
    <3>1. CASE q = r
      BY <1>1, <1>3, <2>2, <2>4, <3>1
    <3>2. CASE q # r
      <4>1. pending[Target(q)] # NoSlot /\ pending[Target(q)].tx = q
        BY <1>3, <2>3, <3>2 DEF SlotDiscipline, WaiterHoldsItsSlot
      <4>2. Target(q) \in Targets /\ Target(q) # Target(r)
        BY <2>1, <4>1 DEF Target, TypeOK
      <4>3. QED
        BY <1>3, <2>4, <4>1, <4>2
    <3>3. QED
      BY <3>1, <3>2
  <2>7. GenerationsDistinct'
    BY <1>1, <2>1, <2>3 DEF SlotDiscipline, GenerationsDistinct
  <2>8. SlotAwaitsItsFinal' /\ QuietOutsideGuard'
    BY <1>1, <1>2, <1>3, <2>2, <2>3, <2>4 DEF SlotDiscipline, SlotAwaitsItsFinal, QuietOutsideGuard
  <2>9. QED
    BY <2>5, <2>6, <2>7, <2>8 DEF SlotDiscipline
<1>6. QED
  BY <1>4, <1>5

\* The guard's generation check singles out its own slot.
LEMMA GuardIsPrecise ==
    ASSUME TypeOK, SlotDiscipline, NEW r \in Requests, Guarded(r)
    PROVE  OwnsSlot(r) <=> pending[Target(r)] # NoSlot /\ pending[Target(r)].tx = r
<1>1. ASSUME pending[Target(r)] # NoSlot
      PROVE  pending[Target(r)].generation = generation[r] <=> pending[Target(r)].tx = r
  <2> DEFINE owner == pending[Target(r)].tx
  <2>1. Target(r) \in Targets
    BY DEF Target, TypeOK
  <2>2. owner \in Requests
    BY <1>1, <2>1 DEF TypeOK, Slots
  <2>3. Guarded(owner) /\ pending[Target(r)].generation = generation[owner]
    BY <1>1, <2>1 DEF SlotDiscipline, NoLeakedSlot
  <2>4. generation[owner] = generation[r] => owner = r
    BY <2>2, <2>3 DEF SlotDiscipline, GenerationsDistinct, Minted
  <2>5. QED
    BY <2>3, <2>4
<1>2. QED
  BY <1>1 DEF OwnsSlot

\* The guard evicts the slot of its own request and no other.
LEMMA DropGuardSlots ==
    ASSUME TypeOK, SlotDiscipline, NEW r \in Requests, DropGuard(r)
    PROVE  SlotDiscipline'
<1>1. /\ pc[r] = "returning" /\ pc' = [pc EXCEPT ![r] = "done"]
      /\ generation' = [generation EXCEPT ![r] = 0]
      /\ chan' = [chan EXCEPT ![r] = <<>>]
      /\ UNCHANGED <<call, next_generation>>
      /\ Target(r) \in Targets /\ Guarded(r)
  BY DEF DropGuard, Target, TypeOK, Guarded
<1>2. \A t \in Targets : pending[t] # NoSlot => pending[t].tx \in Requests
  BY DEF TypeOK, Slots
<1>3. \A t \in Targets :
        pending'[t] = IF pending[t] # NoSlot /\ pending[t].tx = r THEN NoSlot ELSE pending[t]
  <2>1. \A t \in Targets : pending[t] # NoSlot /\ pending[t].tx = r => t = Target(r)
    BY DEF SlotDiscipline, NoLeakedSlot
  <2>2. pending' = IF pending[Target(r)] # NoSlot /\ pending[Target(r)].tx = r
                   THEN [pending EXCEPT ![Target(r)] = NoSlot]
                   ELSE pending
    BY <1>1, GuardIsPrecise DEF DropGuard
  <2>3. QED
    BY <1>1, <2>1, <2>2 DEF TypeOK
<1>4. \A q \in Requests : /\ Target(q)' = Target(q)
                          /\ q # r => /\ pc'[q] = pc[q] /\ generation'[q] = generation[q]
                                      /\ chan'[q] = chan[q]
                                      /\ Guarded(q)' <=> Guarded(q)
                                      /\ Minted(q)' <=> Minted(q)
                                      /\ HasFinal(q)' <=> HasFinal(q)
  BY <1>1 DEF Target, Guarded, Minted, HasFinal, TypeOK
<1>5. ~Guarded(r)' /\ ~Minted(r)' /\ pc'[r] = "done" /\ chan'[r] = <<>>
  BY <1>1 DEF Guarded, Minted, TypeOK
<1>6. NoLeakedSlot' /\ SlotAwaitsItsFinal'
  BY <1>1, <1>2, <1>3, <1>4 DEF SlotDiscipline, NoLeakedSlot, SlotAwaitsItsFinal
<1>7. WaiterHoldsItsSlot'
  <2> SUFFICES ASSUME NEW q \in Requests,
                      pc'[q] \in {"locking", "writing", "waiting"}, ~HasFinal(q)'
               PROVE  pending'[Target(q)'] # NoSlot /\ pending'[Target(q)'].tx = q
    BY DEF WaiterHoldsItsSlot
  <2>1. q # r
    BY <1>5
  <2>2. pending[Target(q)] # NoSlot /\ pending[Target(q)].tx = q /\ Target(q) \in Targets
    BY <1>4, <2>1 DEF SlotDiscipline, WaiterHoldsItsSlot, Target, TypeOK
  <2>3. QED
    BY <1>3, <1>4, <2>1, <2>2
<1>8. GenerationsDistinct'
  BY <1>1, <1>4, <1>5 DEF SlotDiscipline, GenerationsDistinct
<1>9. QuietOutsideGuard'
  BY <1>4, <1>5 DEF SlotDiscipline, QuietOutsideGuard
<1>10. QED
  BY <1>6, <1>7, <1>8, <1>9 DEF SlotDiscipline

\* Taking a delivery off the channel loses no final one but the one returned.
LEMMA ReceiveSlots ==
    ASSUME TypeOK, SlotDiscipline, NEW r \in Requests, Receive(r)
    PROVE  SlotDiscipline'
<1>1. /\ pc[r] = "waiting" /\ chan[r] # <<>> /\ chan[r] \in Seq(Delivery)
      /\ chan' = [chan EXCEPT ![r] = Tail(@)]
      /\ UNCHANGED <<call, generation, next_generation, pending>>
  BY DEF Receive, TypeOK
<1>2. \/ pc' = [pc EXCEPT ![r] = "returning"]
      \/ pc' = pc /\ Head(chan[r]).type = "pending"
  BY DEF Receive
<1>3. \A t \in Targets : pending[t] # NoSlot => pending[t].tx \in Requests
  BY DEF TypeOK, Slots
<1>4. /\ \A q \in Requests : Target(q)' = Target(q)
      /\ \A q \in Requests : (Guarded(q)' <=> Guarded(q)) /\ (Minted(q)' <=> Minted(q))
      /\ \A q \in Requests : q # r => pc'[q] = pc[q] /\ chan'[q] = chan[q]
      /\ Guarded(r) /\ pc'[r] \in {"waiting", "returning"}
  BY <1>1, <1>2 DEF Target, Guarded, Minted, TypeOK
<1>5. /\ \A q \in Requests : HasFinal(q)' => HasFinal(q)
      /\ \A q \in Requests : pc'[q] \in {"locking", "writing", "waiting"} /\ HasFinal(q) => HasFinal(q)'
  <2>1. chan'[r] = Tail(chan[r])
    BY <1>1 DEF TypeOK
  <2>2. HasFinal(r) <=> Head(chan[r]).type = "final" \/ HasFinal(r)'
    BY <1>1, <2>1, TailOfChannel DEF HasFinal
  <2>3. pc'[r] = "waiting" => Head(chan[r]).type # "final"
    BY <1>1, <1>2 DEF TypeOK
  <2>4. QED
    BY <1>4, <2>2, <2>3 DEF HasFinal
<1>6. NoLeakedSlot' /\ SlotAwaitsItsFinal'
  BY <1>1, <1>3, <1>4, <1>5 DEF SlotDiscipline, NoLeakedSlot, SlotAwaitsItsFinal
<1>7. WaiterHoldsItsSlot'
  BY <1>1, <1>4, <1>5 DEF SlotDiscipline, WaiterHoldsItsSlot
<1>8. GenerationsDistinct'
  BY <1>1, <1>4 DEF SlotDiscipline, GenerationsDistinct
<1>9. QuietOutsideGuard'
  BY <1>4 DEF SlotDiscipline, QuietOutsideGuard
<1>10. QED
  BY <1>6, <1>7, <1>8, <1>9 DEF SlotDiscipline

\* What the reader can do with the frame at the head of an outbox: nothing, or
\* one delivery to the slot of the frame's source (session.rs:311-340).
Delivers(t, d) ==
    /\ pending[t] # NoSlot
    /\ chan' = [chan EXCEPT ![pending[t].tx] = Append(@, d)]
    /\ pending' = IF d.type = "final" THEN [pending EXCEPT ![t] = NoSlot] ELSE pending

\* A routed frame changes the table and the channels by at most one delivery.
LEMMA RouteFrameDelivers ==
    ASSUME TypeOK, NEW t \in Targets, RouteFrame(t)
    PROVE  \/ UNCHANGED <<pending, chan>>
           \/ /\ pending[t] # NoSlot
              /\ SidOf(Head(outbox[t]).cause) = pending[t].request_sid
              /\ Head(outbox[t]).cause \in Causes
              /\ \/ Delivers(t, Pending)
                 \/ Delivers(t, Final(Result("ok", Head(outbox[t]).cause)))
                 \/ Delivers(t, Final(Result("negative", Head(outbox[t]).cause)))
<1>1. Head(outbox[t]).cause \in Causes
  <2>1. outbox[t] \in Seq(Frames) /\ outbox[t] # <<>>
    BY DEF RouteFrame, TypeOK
  <2>2. Head(outbox[t]) \in Frames
    BY <2>1
  <2>3. QED
    BY <2>2 DEF Frames
<1>2. Pending.type = "pending" /\ \A result : Final(result).type = "final"
  BY DEF Pending, Final
<1>3. QED
  BY <1>1, <1>2 DEF RouteFrame, EchoesSid, FreedSlot, Delivers

\* One delivery keeps the slot discipline: a final one frees the slot it answers.
LEMMA DeliverySlots ==
    ASSUME TypeOK, SlotDiscipline, NEW t \in Targets, NEW d \in Delivery, Delivers(t, d),
           NEW owner \in Requests, owner = pending[t].tx,
           UNCHANGED <<pc, call, generation, next_generation>>
    PROVE  SlotDiscipline'
<1>1. \A u \in Targets : pending[u] # NoSlot => pending[u].tx \in Requests
  BY DEF TypeOK, Slots
<1>2. Guarded(owner) /\ Target(owner) = t /\ pending[t] # NoSlot
  BY <1>1 DEF Delivers, SlotDiscipline, NoLeakedSlot
<1>3. \A q \in Requests : q # owner => chan'[q] = chan[q]
  BY <1>2 DEF Delivers, TypeOK
<1>4. HasFinal(owner)' <=> HasFinal(owner) \/ d.type = "final"
  <2>1. chan[owner] \in Seq(Delivery) /\ chan'[owner] = Append(chan[owner], d)
    BY <1>2 DEF Delivers, TypeOK
  <2>2. QED
    BY <2>1, AppendToChannel DEF HasFinal
<1>5. /\ \A q \in Requests : Target(q)' = Target(q)
      /\ \A q \in Requests : (Guarded(q)' <=> Guarded(q)) /\ (Minted(q)' <=> Minted(q))
      /\ \A q \in Requests : q # owner => (HasFinal(q)' <=> HasFinal(q))
  BY <1>3 DEF Target, Guarded, Minted, HasFinal
<1>6. \A u \in Targets :
        pending'[u] = IF u = t /\ d.type = "final" THEN NoSlot ELSE pending[u]
  BY DEF Delivers, TypeOK
<1>7. NoLeakedSlot'
  BY <1>1, <1>5, <1>6 DEF SlotDiscipline, NoLeakedSlot
<1>8. SlotAwaitsItsFinal'
  <2> SUFFICES ASSUME NEW u \in Targets, pending'[u] # NoSlot
               PROVE  ~FinalIn(chan'[pending'[u].tx])
    BY DEF SlotAwaitsItsFinal, HasFinal
  <2>1. pending'[u] = pending[u] /\ ~(u = t /\ d.type = "final")
    BY <1>6
  <2>2. pending[u].tx = owner => u = t
    BY <1>2, <2>1 DEF SlotDiscipline, NoLeakedSlot
  <2>3. ~HasFinal(pending[u].tx)
    BY <2>1 DEF SlotDiscipline, SlotAwaitsItsFinal
  <2>4. QED
    BY <1>1, <1>4, <1>5, <2>1, <2>2, <2>3 DEF HasFinal
<1>9. WaiterHoldsItsSlot'
  <2> SUFFICES ASSUME NEW q \in Requests,
                      pc[q] \in {"locking", "writing", "waiting"}, ~HasFinal(q)'
               PROVE  pending'[Target(q)] # NoSlot /\ pending'[Target(q)].tx = q
    BY <1>5 DEF WaiterHoldsItsSlot
  <2>1. pending[Target(q)] # NoSlot /\ pending[Target(q)].tx = q /\ Target(q) \in Targets
    BY <1>4, <1>5 DEF SlotDiscipline, WaiterHoldsItsSlot, Target, TypeOK
  <2>2. Target(q) = t => q = owner
    BY <2>1
  <2>3. QED
    BY <1>4, <1>6, <2>1, <2>2
<1>10. GenerationsDistinct'
  BY <1>5 DEF SlotDiscipline, GenerationsDistinct
<1>11. QuietOutsideGuard'
  BY <1>2, <1>3, <1>5 DEF SlotDiscipline, QuietOutsideGuard
<1>12. QED
  BY <1>7, <1>8, <1>9, <1>10, <1>11 DEF SlotDiscipline

\* The drain answers every waiter the table knows, and it knows them all.
LEMMA ReaderEndsSlots ==
    ASSUME TypeOK, SlotDiscipline, ReaderEnds
    PROVE  SlotDiscipline'
<1> DEFINE closed == Final(Result("closed", Nobody))
<1>1. closed \in Delivery /\ closed.type = "final"
  BY ResultTyping DEF Final
<1>2. /\ UNCHANGED <<pc, call, generation, next_generation>>
      /\ \A t \in Targets : pending'[t] = NoSlot
      /\ \A q \in Requests : chan'[q] = IF q \in SendersInTable THEN Append(chan[q], closed)
                                                               ELSE chan[q]
  BY DEF ReaderEnds, Drained
<1>3. \A q \in SendersInTable \cap Requests : Guarded(q) /\ HasFinal(q)'
  <2> SUFFICES ASSUME NEW q \in SendersInTable \cap Requests
               PROVE  Guarded(q) /\ HasFinal(q)'
    OBVIOUS
  <2>1. Guarded(q)
    BY DEF SendersInTable, SlotDiscipline, NoLeakedSlot
  <2>2. chan[q] \in Seq(Delivery) /\ chan'[q] = Append(chan[q], closed)
    BY <1>2 DEF TypeOK
  <2>3. HasFinal(q)'
    BY <1>1, <2>2, AppendToChannel DEF HasFinal
  <2>4. QED
    BY <2>1, <2>3
<1>4. /\ \A q \in Requests : Target(q)' = Target(q)
      /\ \A q \in Requests : (Guarded(q)' <=> Guarded(q)) /\ (Minted(q)' <=> Minted(q))
      /\ \A q \in Requests : q \notin SendersInTable => (HasFinal(q)' <=> HasFinal(q))
  BY <1>2 DEF Target, Guarded, Minted, HasFinal
<1>5. NoLeakedSlot' /\ SlotAwaitsItsFinal'
  BY <1>2 DEF NoLeakedSlot, SlotAwaitsItsFinal
<1>6. WaiterHoldsItsSlot'
  <2> SUFFICES ASSUME NEW q \in Requests,
                      pc[q] \in {"locking", "writing", "waiting"}, ~HasFinal(q)'
               PROVE  FALSE
    BY <1>2 DEF WaiterHoldsItsSlot
  <2>1. q \notin SendersInTable /\ ~HasFinal(q)
    BY <1>3, <1>4
  <2>2. pending[Target(q)] # NoSlot /\ pending[Target(q)].tx = q /\ Target(q) \in Targets
    BY <2>1 DEF SlotDiscipline, WaiterHoldsItsSlot, Target, TypeOK
  <2>3. QED
    BY <2>1, <2>2 DEF SendersInTable
<1>7. GenerationsDistinct'
  BY <1>2, <1>4 DEF SlotDiscipline, GenerationsDistinct
<1>8. QuietOutsideGuard'
  BY <1>2, <1>3, <1>4 DEF SlotDiscipline, QuietOutsideGuard
<1>9. QED
  BY <1>5, <1>6, <1>7, <1>8 DEF SlotDiscipline

\* Every step keeps the slot discipline (session.rs:199-341).
LEMMA SlotStep ==
    ASSUME TypeOK, SlotDiscipline, [Next]_vars
    PROVE  SlotDiscipline'
<1>1. ASSUME UNCHANGED <<pc, call, generation, next_generation, pending, chan>>
      PROVE  SlotDiscipline'
  BY <1>1 DEF SlotDiscipline, NoLeakedSlot, WaiterHoldsItsSlot, GenerationsDistinct,
              SlotAwaitsItsFinal, QuietOutsideGuard, Guarded, Minted, Target, HasFinal
<1>2. ASSUME NEW r \in Requests, RequestStep(r)
      PROVE  SlotDiscipline'
  <2>1. CASE LockWriter(r) \/ WriteFrame(r) \/ TimeOut(r) \/ Cancel(r)
    <3>1. PICK to \in {"writing", "waiting", "returning"} : pc' = [pc EXCEPT ![r] = to]
      BY <2>1 DEF LockWriter, WriteFrame, TimeOut, Cancel
    <3>2. /\ pc[r] \in {"locking", "writing", "waiting"}
          /\ UNCHANGED <<call, generation, next_generation, pending, chan>>
      BY <2>1 DEF LockWriter, WriteFrame, TimeOut, Cancel
    <3>3. QED
      BY <3>1, <3>2, GuardedMove
  <2>2. QED
    BY <1>2, <2>1, MintSlots, RegisterSlots, ReceiveSlots, DropGuardSlots DEF RequestStep
<1>3. ASSUME NEW t \in Targets, RouteFrame(t)
      PROVE  SlotDiscipline'
  <2>1. UNCHANGED <<pc, call, generation, next_generation>>
    BY <1>3 DEF RouteFrame
  <2>2. CASE UNCHANGED <<pending, chan>>
    BY <1>1, <2>1, <2>2
  <2>3. ASSUME NEW d \in Delivery, Delivers(t, d)
        PROVE  SlotDiscipline'
    <3>1. pending[t].tx \in Requests
      BY <2>3 DEF Delivers, TypeOK, Slots
    <3>2. QED
      BY <2>1, <2>3, <3>1, DeliverySlots
  <2>4. \A c \in Causes : /\ Final(Result("ok", c)) \in Delivery
                          /\ Final(Result("negative", c)) \in Delivery
                          /\ Pending \in Delivery
    BY ResultTyping
  <2>5. QED
    BY <1>3, <2>2, <2>3, <2>4, RouteFrameDelivers
<1>4. ASSUME \/ \E t \in Targets : EcuBusy(t) \/ EcuFinishes(t)
             \/ KeepaliveTick \/ KeepaliveWrite \/ DropSession \/ LinkDown \/ Closed
             \/ UNCHANGED vars
      PROVE  UNCHANGED <<pc, call, generation, next_generation, pending, chan>>
  BY <1>4 DEF EcuBusy, EcuFinishes, KeepaliveTick, KeepaliveWrite, DropSession, LinkDown,
              Closed, vars, futureVars
<1>5. QED
  BY <1>1, <1>2, <1>3, <1>4, ReaderEndsSlots DEF Next, TargetStep

-----------------------------------------------------------------------------
(***************************************************************************)
(* Responses.                                                              *)
(***************************************************************************)

\* The calls never change.
LEMMA CallsFixed == [Next]_vars => UNCHANGED call
BY DEF Next, RequestStep, Mint, Register, LockWriter, WriteFrame, Receive, TimeOut, Cancel,
       DropGuard, TargetStep, RouteFrame, EcuBusy, EcuFinishes, ReaderEnds, KeepaliveTick,
       KeepaliveWrite, DropSession, LinkDown, Closed, vars, futureVars

\* How a channel can change in one step (session.rs:159-163, 248-256, 317-336).
LEMMA ChannelStep ==
    ASSUME TypeOK, SlotDiscipline, [Next]_vars, NEW r \in Requests
    PROVE  \/ chan'[r] = chan[r]
           \/ chan'[r] = <<>>
           \/ chan[r] # <<>> /\ chan'[r] = Tail(chan[r])
           \/ /\ ~HasFinal(r)
              /\ \E d \in Delivery :
                   /\ chan'[r] = Append(chan[r], d)
                   /\ \/ d.result.kind \notin {"ok", "negative"}
                      \/ \E t \in Targets :
                           /\ RouteFrame(t)
                           /\ pending[t] # NoSlot
                           /\ r = pending[t].tx
                           /\ d.result.cause = Head(outbox[t]).cause
                           /\ SidOf(d.result.cause) = pending[t].request_sid
<1>1. CASE UNCHANGED chan
  BY <1>1
<1>2. ASSUME NEW q \in Requests, Receive(q) \/ DropGuard(q)
      PROVE  \/ chan'[r] = chan[r]
             \/ chan'[r] = <<>>
             \/ chan[r] # <<>> /\ chan'[r] = Tail(chan[r])
  BY <1>2 DEF Receive, DropGuard, TypeOK
<1>3. ASSUME NEW t \in Targets, RouteFrame(t)
      PROVE  \/ chan'[r] = chan[r]
             \/ /\ ~HasFinal(r)
                /\ \E d \in Delivery :
                     /\ chan'[r] = Append(chan[r], d)
                     /\ \/ d.result.kind \notin {"ok", "negative"}
                        \/ /\ pending[t] # NoSlot
                           /\ r = pending[t].tx
                           /\ d.result.cause = Head(outbox[t]).cause
                           /\ SidOf(d.result.cause) = pending[t].request_sid
  <2>1. CASE UNCHANGED <<pending, chan>>
    BY <2>1
  <2>2. CASE /\ pending[t] # NoSlot
             /\ SidOf(Head(outbox[t]).cause) = pending[t].request_sid
             /\ Head(outbox[t]).cause \in Causes
             /\ \/ Delivers(t, Pending)
                \/ Delivers(t, Final(Result("ok", Head(outbox[t]).cause)))
                \/ Delivers(t, Final(Result("negative", Head(outbox[t]).cause)))
    <3> DEFINE c == Head(outbox[t]).cause
               Fits(d) == \/ d.result.kind \notin {"ok", "negative"}
                          \/ d.result.cause = c
    <3>1. PICK d \in Delivery : Delivers(t, d) /\ Fits(d)
      <4>1. Pending \in Delivery /\ Fits(Pending)
        BY <2>2, ResultTyping DEF Pending, Result
      <4>2. Final(Result("ok", c)) \in Delivery /\ Fits(Final(Result("ok", c)))
        BY <2>2, ResultTyping DEF Final, Result
      <4>3. Final(Result("negative", c)) \in Delivery /\ Fits(Final(Result("negative", c)))
        BY <2>2, ResultTyping DEF Final, Result
      <4>4. QED
        BY <2>2, <4>1, <4>2, <4>3
    <3>2. pending[t].tx \in Requests /\ ~HasFinal(pending[t].tx)
      BY <2>2 DEF SlotDiscipline, SlotAwaitsItsFinal, TypeOK, Slots
    <3>3. chan'[r] = IF r = pending[t].tx THEN Append(chan[r], d) ELSE chan[r]
      BY <3>1, <3>2 DEF Delivers, TypeOK
    <3>4. QED
      BY <2>2, <3>1, <3>2, <3>3
  <2>3. QED
    BY <1>3, <2>1, <2>2, RouteFrameDelivers
<1>4. ASSUME ReaderEnds
      PROVE  \/ chan'[r] = chan[r]
             \/ /\ ~HasFinal(r)
                /\ \E d \in Delivery : /\ chan'[r] = Append(chan[r], d)
                                       /\ d.result.kind \notin {"ok", "negative"}
  <2> DEFINE closed == Final(Result("closed", Nobody))
  <2>1. closed \in Delivery /\ closed.result.kind = "closed"
    BY ResultTyping DEF Final, Result
  <2>2. r \in SendersInTable => ~HasFinal(r)
    BY DEF SendersInTable, SlotDiscipline, SlotAwaitsItsFinal
  <2>3. chan'[r] = IF r \in SendersInTable THEN Append(chan[r], closed) ELSE chan[r]
    BY <1>4 DEF ReaderEnds, Drained
  <2>4. QED
    BY <2>1, <2>2, <2>3
<1>5. \/ UNCHANGED chan
      \/ \E q \in Requests : Receive(q) \/ DropGuard(q)
      \/ \E t \in Targets : RouteFrame(t)
      \/ ReaderEnds
  BY DEF Next, RequestStep, Mint, Register, LockWriter, WriteFrame, TimeOut, Cancel,
         TargetStep, EcuBusy, EcuFinishes, KeepaliveTick, KeepaliveWrite, DropSession,
         LinkDown, Closed, vars, futureVars
<1>6. QED
  BY <1>1, <1>2, <1>3, <1>4, <1>5

\* A final delivery stays the last of its channel.
LEMMA FinalStep ==
    ASSUME TypeOK, SlotDiscipline, FinalIsLast, [Next]_vars
    PROVE  FinalIsLast'
<1> SUFFICES ASSUME NEW r \in Requests
             PROVE  EndsWithFinal(chan'[r])
  BY DEF FinalIsLast
<1>1. chan[r] \in Seq(Delivery) /\ EndsWithFinal(chan[r])
  BY DEF TypeOK, FinalIsLast
<1>2. CASE chan'[r] = chan[r] \/ chan'[r] = <<>>
  BY <1>1, <1>2, EmptyChannel
<1>3. CASE chan[r] # <<>> /\ chan'[r] = Tail(chan[r])
  BY <1>1, <1>3, TailOfChannel
<1>4. CASE ~HasFinal(r) /\ \E d \in Delivery : chan'[r] = Append(chan[r], d)
  BY <1>1, <1>4, AppendToChannel DEF HasFinal
<1>5. QED
  BY <1>2, <1>3, <1>4, ChannelStep

\* Appending keeps what the elements of a queue have in common.
LEMMA AppendToQueue ==
    ASSUME NEW S, NEW s \in Seq(S), NEW x \in S, NEW i \in DOMAIN Append(s, x)
    PROVE  Append(s, x)[i] = x \/ (i \in DOMAIN s /\ Append(s, x)[i] = s[i])
OBVIOUS

\* The head and the tail of a queue hold elements of it.
LEMMA TailOfQueue ==
    ASSUME NEW S, NEW s \in Seq(S), s # <<>>
    PROVE  /\ 1 \in DOMAIN s /\ Head(s) = s[1]
           /\ \A i \in DOMAIN Tail(s) : i + 1 \in DOMAIN s /\ Tail(s)[i] = s[i + 1]
OBVIOUS

\* A frame reaches the queue of the ECU it names, and an ECU's reply stays in
\* its own (session.rs:240-244, 344-363).
LEMMA WireStep ==
    ASSUME TypeOK, WireIsAddressed, [Next]_vars
    PROVE  WireIsAddressed'
<1>1. \A c : TargetOf(c)' = TargetOf(c)
  BY CallsFixed DEF TargetOf
<1>2. CASE UNCHANGED <<inbox, outbox>>
  BY <1>1, <1>2 DEF WireIsAddressed
<1>3. ASSUME NEW c \in Causes, Transmit(c)
      PROVE  WireIsAddressed'
  <2>1. TargetOf(c) \in Targets /\ UNCHANGED outbox
    BY <1>3, CauseTyping DEF Transmit
  <2>2. ASSUME NEW t \in Targets, NEW i \in DOMAIN inbox'[t]
        PROVE  TargetOf(inbox'[t][i]) = t
    <3>1. CASE inbox'[t] = inbox[t]
      BY <2>2, <3>1 DEF WireIsAddressed
    <3>2. CASE t = TargetOf(c) /\ inbox'[t] = Append(inbox[t], c)
      <4>1. inbox[t] \in Seq(Causes)
        BY DEF TypeOK
      <4>2. QED
        BY <2>2, <3>2, <4>1, AppendToQueue DEF WireIsAddressed
    <3>3. QED
      BY <1>3, <2>1, <3>1, <3>2 DEF Transmit, TypeOK
  <2>3. QED
    BY <1>1, <2>1, <2>2 DEF WireIsAddressed
<1>4. ASSUME NEW t \in Targets, EcuBusy(t) \/ EcuFinishes(t)
      PROVE  WireIsAddressed'
  <2>1. inbox[t] \in Seq(Causes) /\ inbox[t] # <<>> /\ outbox[t] \in Seq(Frames)
    BY <1>4 DEF EcuBusy, EcuFinishes, TypeOK
  <2>2. Head(inbox[t]) \in Causes /\ TargetOf(Head(inbox[t])) = t
    BY <2>1, TailOfQueue DEF WireIsAddressed
  <2>3. ASSUME NEW u \in Targets, NEW i \in DOMAIN inbox'[u]
        PROVE  TargetOf(inbox'[u][i]) = u
    <3>1. inbox'[u] = inbox[u] \/ (u = t /\ inbox'[u] = Tail(inbox[t]))
      BY <1>4 DEF EcuBusy, EcuFinishes, TypeOK
    <3>2. CASE u = t /\ inbox'[u] = Tail(inbox[t])
      <4>1. i + 1 \in DOMAIN inbox[t] /\ inbox'[u][i] = inbox[t][i + 1]
        BY <2>1, <2>3, <3>2, TailOfQueue
      <4>2. QED
        BY <3>2, <4>1 DEF WireIsAddressed
    <3>3. QED
      BY <2>3, <3>1, <3>2 DEF WireIsAddressed
  <2>4. ASSUME NEW u \in Targets, NEW i \in DOMAIN outbox'[u]
        PROVE  TargetOf(outbox'[u][i].cause) = u
    <3>1. CASE outbox'[u] = outbox[u]
      BY <2>4, <3>1 DEF WireIsAddressed
    <3>2. ASSUME u = t,
                 NEW kind \in {"positive", "negative", "response_pending", "other"},
                 outbox'[u] = Append(outbox[t], [kind |-> kind, cause |-> Head(inbox[t])])
          PROVE  TargetOf(outbox'[u][i].cause) = u
      <4>1. [kind |-> kind, cause |-> Head(inbox[t])] \in Frames
        BY <2>2 DEF Frames
      <4>2. \/ outbox'[u][i] = [kind |-> kind, cause |-> Head(inbox[t])]
            \/ i \in DOMAIN outbox[t] /\ outbox'[u][i] = outbox[t][i]
        BY <2>1, <2>4, <3>2, <4>1, AppendToQueue
      <4>3. QED
        BY <2>2, <3>2, <4>2 DEF WireIsAddressed
    <3>3. QED
      BY <1>4, <3>1, <3>2 DEF EcuBusy, EcuFinishes, EcuSends, TypeOK
  <2>5. QED
    BY <1>1, <2>3, <2>4 DEF WireIsAddressed
<1>5. ASSUME NEW t \in Targets, RouteFrame(t)
      PROVE  WireIsAddressed'
  <2>1. outbox[t] \in Seq(Frames) /\ outbox[t] # <<>> /\ UNCHANGED inbox
    BY <1>5 DEF RouteFrame, TypeOK
  <2>2. ASSUME NEW u \in Targets, NEW i \in DOMAIN outbox'[u]
        PROVE  TargetOf(outbox'[u][i].cause) = u
    <3>1. outbox'[u] = outbox[u] \/ (u = t /\ outbox'[u] = Tail(outbox[t]))
      BY <1>5 DEF RouteFrame, TypeOK
    <3>2. CASE u = t /\ outbox'[u] = Tail(outbox[t])
      <4>1. i + 1 \in DOMAIN outbox[t] /\ outbox'[u][i] = outbox[t][i + 1]
        BY <2>1, <2>2, <3>2, TailOfQueue
      <4>2. QED
        BY <3>2, <4>1 DEF WireIsAddressed
    <3>3. QED
      BY <2>2, <3>1, <3>2 DEF WireIsAddressed
  <2>3. QED
    BY <1>1, <2>1, <2>2 DEF WireIsAddressed
<1>6. \/ UNCHANGED <<inbox, outbox>>
      \/ \E c \in Causes : Transmit(c)
      \/ \E t \in Targets : EcuBusy(t) \/ EcuFinishes(t) \/ RouteFrame(t)
  BY DEF Next, RequestStep, Mint, Register, LockWriter, WriteFrame, Receive, TimeOut, Cancel,
         DropGuard, TargetStep, ReaderEnds, KeepaliveTick, KeepaliveWrite, DropSession,
         LinkDown, Closed, vars, wireVars, Causes
<1>7. QED
  BY <1>2, <1>3, <1>4, <1>5, <1>6

\* A result of r that could be somebody else's: the part of
\* AnswersOwnTargetAndService about one result.
Fits(r, result) ==
    result.kind \in {"ok", "negative"} =>
        /\ TargetOf(result.cause) = Target(r)
        /\ SidOf(result.cause) = call[r].sid

\* An outcome changes to the final delivery at the head of the channel or to a
\* result that is no response (session.rs:223-259).
LEMMA OutcomeStep ==
    ASSUME TypeOK, [Next]_vars, NEW r \in Requests
    PROVE  \/ outcome'[r] = outcome[r]
           \/ chan[r] # <<>> /\ outcome'[r] = Head(chan[r]).result
           \/ outcome'[r].kind \notin {"ok", "negative"}
<1>1. ASSUME NEW q \in Requests, RequestStep(q)
      PROVE  \/ outcome'[r] = outcome[r]
             \/ chan[r] # <<>> /\ outcome'[r] = Head(chan[r]).result
             \/ outcome'[r].kind \notin {"ok", "negative"}
  <2>1. CASE Receive(q)
    BY <2>1 DEF Receive, TypeOK, Result
  <2>2. CASE Register(q)
    BY <2>2 DEF Register, TypeOK, Result
  <2>3. CASE WriteFrame(q)
    BY <2>3 DEF WriteFrame, TypeOK, Result
  <2>4. CASE TimeOut(q) \/ Cancel(q)
    <3>1. \E kind \in {"timeout", "cancelled"} :
             outcome' = [outcome EXCEPT ![q] = Result(kind, Nobody)]
      BY <2>4 DEF TimeOut, Cancel
    <3>2. QED
      BY <3>1 DEF TypeOK, Result
  <2>5. CASE Mint(q) \/ LockWriter(q) \/ DropGuard(q)
    BY <2>5 DEF Mint, LockWriter, DropGuard
  <2>6. QED
    BY <1>1, <2>1, <2>2, <2>3, <2>4, <2>5 DEF RequestStep
<1>2. \/ UNCHANGED outcome
      \/ \E q \in Requests : RequestStep(q)
  BY DEF Next, TargetStep, RouteFrame, EcuBusy, EcuFinishes, ReaderEnds, KeepaliveTick,
         KeepaliveWrite, DropSession, LinkDown, Closed, vars, futureVars
<1>3. QED
  BY <1>1, <1>2

\* Every step keeps responses with the request to their ECU and their service.
LEMMA AnswersStep ==
    ASSUME IInv, [Next]_vars
    PROVE  AnswersOwnTargetAndService'
<1> USE DEF IInv
<1>1. SUFFICES ASSUME NEW r \in Requests
               PROVE  \A result \in ResultsOf(r)' : Fits(r, result)
  <2>1. \A q : TargetOf(q)' = TargetOf(q) /\ SidOf(q)' = SidOf(q)
    BY CallsFixed DEF TargetOf, SidOf
  <2>2. \A q \in Requests : Target(q)' = Target(q) /\ call'[q] = call[q]
    BY CallsFixed DEF Target
  <2>3. QED
    BY <2>1, <2>2 DEF AnswersOwnTargetAndService, Fits
<1>2. Fits(r, outcome[r]) /\ \A j \in DOMAIN chan[r] : Fits(r, chan[r][j].result)
  BY DEF AnswersOwnTargetAndService, ResultsOf, Fits
<1>3. chan[r] \in Seq(Delivery)
  BY DEF TypeOK
<1>4. Fits(r, outcome'[r])
  <2>1. CASE chan[r] # <<>> /\ outcome'[r] = Head(chan[r]).result
    BY <1>2, <1>3, <2>1, TailOfChannel
  <2>2. CASE outcome'[r].kind \notin {"ok", "negative"}
    BY <2>2 DEF Fits
  <2>3. QED
    BY <1>2, <2>1, <2>2, OutcomeStep
<1>5. \A i \in DOMAIN chan'[r] : Fits(r, chan'[r][i].result)
  <2>1. CASE chan'[r] = chan[r]
    BY <1>2, <2>1
  <2>2. CASE chan'[r] = <<>>
    BY <2>2
  <2>3. CASE chan[r] # <<>> /\ chan'[r] = Tail(chan[r])
    <3>1. \A i \in DOMAIN chan'[r] : \E j \in DOMAIN chan[r] : chan'[r][i] = chan[r][j]
      BY <1>3, <2>3, TailOfChannel
    <3>2. QED
      BY <1>2, <3>1
  <2>4. ASSUME NEW d \in Delivery, chan'[r] = Append(chan[r], d), Fits(r, d.result)
        PROVE  \A i \in DOMAIN chan'[r] : Fits(r, chan'[r][i].result)
    <3>1. \A i \in DOMAIN chan'[r] :
             chan'[r][i] = d \/ \E j \in DOMAIN chan[r] : chan'[r][i] = chan[r][j]
      BY <1>3, <2>4, AppendToChannel
    <3>2. QED
      BY <1>2, <2>4, <3>1
  <2>5. ASSUME NEW d \in Delivery, NEW t \in Targets,
               RouteFrame(t), pending[t] # NoSlot, r = pending[t].tx,
               d.result.cause = Head(outbox[t]).cause,
               SidOf(d.result.cause) = pending[t].request_sid
        PROVE  Fits(r, d.result)
    <3>1. Target(r) = t /\ pending[t].request_sid = call[r].sid
      BY <2>5 DEF SlotDiscipline, NoLeakedSlot
    <3>2. outbox[t] \in Seq(Frames) /\ outbox[t] # <<>>
      BY <2>5 DEF RouteFrame, TypeOK
    <3>3. TargetOf(Head(outbox[t]).cause) = t
      BY <3>2, TailOfQueue DEF WireIsAddressed
    <3>4. QED
      BY <2>5, <3>1, <3>3 DEF Fits
  <2>6. ASSUME NEW d \in Delivery, d.result.kind \notin {"ok", "negative"}
        PROVE  Fits(r, d.result)
    BY <2>6 DEF Fits
  <2>7. QED
    BY <2>1, <2>2, <2>3, <2>4, <2>5, <2>6, ChannelStep
<1>6. QED
  BY <1>4, <1>5 DEF ResultsOf

-----------------------------------------------------------------------------
(***************************************************************************)
(* The inductive invariant and the theorems.                               *)
(***************************************************************************)

\* The initial states satisfy the inductive invariant.
LEMMA InitInv == Init => IInv
<1> SUFFICES ASSUME Init PROVE IInv
  OBVIOUS
<1>1. TypeOK
  BY InitTyped
<1>2. /\ \A r \in Requests : pc[r] = "idle" /\ chan[r] = <<>>
      /\ \A r \in Requests : outcome[r] = Result("none", Nobody)
      /\ \A t \in Targets : pending[t] = NoSlot /\ inbox[t] = <<>> /\ outbox[t] = <<>>
  BY DEF Init
<1>3. SlotDiscipline
  BY <1>2 DEF SlotDiscipline, NoLeakedSlot, WaiterHoldsItsSlot, GenerationsDistinct,
              SlotAwaitsItsFinal, QuietOutsideGuard, Guarded, Minted
<1>4. FinalIsLast
  BY <1>2, EmptyChannel DEF FinalIsLast
<1>5. WireIsAddressed
  BY <1>2 DEF WireIsAddressed
<1>6. AnswersOwnTargetAndService
  BY <1>2 DEF AnswersOwnTargetAndService, ResultsOf, Result
<1>7. QED
  BY <1>1, <1>3, <1>4, <1>5, <1>6 DEF IInv

\* IInv holds in every reachable state of the session, for any number of
\* requests and ECUs.
THEOREM Inductive == Spec => []IInv
<1>1. IInv /\ [Next]_vars => IInv'
  <2> SUFFICES ASSUME IInv, [Next]_vars PROVE IInv'
    OBVIOUS
  <2>1. TypeOK'
    <3>1. CASE UNCHANGED vars
      BY <3>1 DEF IInv, TypeOK, vars, futureVars, wireVars
    <3>2. QED
      BY <3>1, RequestTyped, OtherTyped DEF IInv, Next
  <2>2. SlotDiscipline' /\ FinalIsLast' /\ WireIsAddressed'
    BY SlotStep, FinalStep, WireStep DEF IInv
  <2>3. QED
    BY <2>1, <2>2, AnswersStep DEF IInv
<1>2. QED
  BY <1>1, InitInv, PTL DEF Spec

\* No exit path of a request leaves its slot in the table (SlotGuard,
\* session.rs:85-107).
THEOREM SlotsNeverLeak == Spec => []NoLeakedSlot
<1>1. IInv => NoLeakedSlot
  BY DEF IInv, SlotDiscipline
<1>2. QED
  BY <1>1, Inductive, PTL

\* A request that waits for its final delivery is never evicted from the table
\* (session.rs:97-107, 157-163).
THEOREM WaitersKeepTheirSlots == Spec => []WaiterHoldsItsSlot
<1>1. IInv => WaiterHoldsItsSlot
  BY DEF IInv, SlotDiscipline
<1>2. QED
  BY <1>1, Inductive, PTL

\* At most one request per ECU is outstanding (session.rs:12-13, 209-222).
THEOREM TargetsAreExclusive == Spec => []OneRequestPerTarget
<1>1. IInv => OneRequestPerTarget
  BY DEF IInv, SlotDiscipline, WaiterHoldsItsSlot, OneRequestPerTarget
<1>2. QED
  BY <1>1, Inductive, PTL

\* A channel carries one final delivery at most, and nothing behind it
\* (session.rs:317-336).
THEOREM FinalsAreLast == Spec => []FinalIsLast
<1>1. IInv => FinalIsLast
  BY DEF IInv
<1>2. QED
  BY <1>1, Inductive, PTL

\* No request is given the response of another ECU or of another service
\* (session.rs:16-20, 299-341).
THEOREM AnswersAreAddressed == Spec => []AnswersOwnTargetAndService
<1>1. IInv => AnswersOwnTargetAndService
  BY DEF IInv
<1>2. QED
  BY <1>1, Inductive, PTL

\* A slot in the table is never overwritten, and it is freed by its own request
\* or with a delivery to it (session.rs:97-107, 159-163, 209-222, 317-336).
LEMMA SlotFreedStep ==
    ASSUME TypeOK, SlotDiscipline, [Next]_vars, NEW t \in Targets,
           pending[t] # NoSlot, pending'[t] # pending[t]
    PROVE  /\ pending'[t] = NoSlot
           /\ \/ pc'[pending[t].tx] = "done"
              \/ Len(chan'[pending[t].tx]) > Len(chan[pending[t].tx])
<1> DEFINE r == pending[t].tx
<1>1. r \in Requests /\ chan[r] \in Seq(Delivery)
  BY DEF TypeOK, Slots
<1>2. ASSUME NEW q \in Requests, Register(q)
      PROVE  FALSE
  BY <1>2 DEF Register, SlotTaken, TypeOK
<1>3. ASSUME NEW q \in Requests, DropGuard(q)
      PROVE  pending'[t] = NoSlot /\ pc'[r] = "done"
  <2>1. t = Target(q) /\ pending'[t] = NoSlot /\ OwnsSlot(q)
    BY <1>3 DEF DropGuard, TypeOK
  <2>2. Guarded(q)
    BY <1>3 DEF DropGuard, Guarded
  <2>3. q = r
    BY <2>1, <2>2, GuardIsPrecise
  <2>4. QED
    BY <1>3, <2>1, <2>3 DEF DropGuard, TypeOK
<1>4. ASSUME NEW u \in Targets, RouteFrame(u)
      PROVE  pending'[t] = NoSlot /\ Len(chan'[r]) > Len(chan[r])
  <2>1. ASSUME NEW d \in Delivery, Delivers(u, d)
        PROVE  pending'[t] = NoSlot /\ Len(chan'[r]) > Len(chan[r])
    <3>1. u = t /\ pending'[t] = NoSlot
      BY <2>1 DEF Delivers, TypeOK
    <3>2. chan'[r] = Append(chan[r], d)
      BY <1>1, <2>1, <3>1 DEF Delivers, TypeOK
    <3>3. QED
      BY <1>1, <3>1, <3>2, AppendToChannel
  <2>2. \A c \in Causes : /\ Final(Result("ok", c)) \in Delivery
                          /\ Final(Result("negative", c)) \in Delivery
                          /\ Pending \in Delivery
    BY ResultTyping
  <2>3. QED
    BY <1>4, <2>1, <2>2, RouteFrameDelivers
<1>5. ASSUME ReaderEnds
      PROVE  pending'[t] = NoSlot /\ Len(chan'[r]) > Len(chan[r])
  <2> DEFINE closed == Final(Result("closed", Nobody))
  <2>1. closed \in Delivery
    BY ResultTyping
  <2>2. r \in SendersInTable
    BY DEF SendersInTable
  <2>3. chan'[r] = Append(chan[r], closed) /\ pending'[t] = NoSlot
    BY <1>1, <1>5, <2>2 DEF ReaderEnds, Drained
  <2>4. QED
    BY <1>1, <2>1, <2>3, AppendToChannel
<1>6. \/ UNCHANGED pending
      \/ \E q \in Requests : Register(q) \/ DropGuard(q)
      \/ \E u \in Targets : RouteFrame(u)
      \/ ReaderEnds
  BY DEF Next, RequestStep, Mint, LockWriter, WriteFrame, Receive, TimeOut, Cancel,
         TargetStep, EcuBusy, EcuFinishes, KeepaliveTick, KeepaliveWrite, DropSession,
         LinkDown, Closed, vars, futureVars
<1>7. QED
  BY <1>2, <1>3, <1>4, <1>5, <1>6

\* A slot leaves the table only with its own request or with a delivery to it.
THEOREM SlotsAreFreedByTheirOwner == Spec => SlotFreedByItsOwner
<1>1. IInv /\ [Next]_vars =>
        [\A t \in Targets :
           pending[t] # NoSlot /\ pending'[t] # pending[t] =>
              LET r == pending[t].tx IN
              /\ pending'[t] = NoSlot
              /\ \/ pc'[r] = "done"
                 \/ Len(chan'[r]) > Len(chan[r])]_vars
  BY SlotFreedStep DEF IInv
<1>2. QED
  BY <1>1, Inductive, PTL DEF Spec, SlotFreedByItsOwner

-----------------------------------------------------------------------------
(***************************************************************************)
(* The account of channels and wire.                                       *)
(*                                                                         *)
(* Session implements Exchange, and an answer is another request's only    *)
(* after a request went without its own: the two promises of session.rs    *)
(* that speak of what is in the channels and on the wire.                  *)
(***************************************************************************)

NoOutcome == Result("none", Nobody)
Leaving   == {"timeout", "cancelled", "io_error"}
Sent      == {"waiting", "returning", "done"}

-----------------------------------------------------------------------------
(***************************************************************************)
(* What channels and outcomes hold.                                        *)
(***************************************************************************)

\* A future decides on its outcome once, when it starts to return.
UndecidedHasNoOutcome ==
    \A r \in Requests :
        pc[r] \in {"idle", "minted", "locking", "writing", "waiting"} => outcome[r] = NoOutcome

\* One that returns while its slot or its final delivery is still there, gave up.
UnansweredGaveUp ==
    \A r \in Requests :
        pc[r] = "returning" /\ (OwnsItsSlot(r) \/ HasFinal(r)) =>
            outcome[r] \in {Result(k, Nobody) : k \in Leaving}

\* What a delivery may be.
Sound(d) ==
    \/ d = Pending
    \/ \E k \in {"ok", "negative"}, c \in Causes : d = Final(Result(k, c))
    \/ d = Final(Result("closed", Nobody)) /\ reader # "running"

DeliveriesAreSound == \A r \in Requests : \A i \in DOMAIN chan[r] : Sound(chan[r][i])

\* Who made an ECU speak has sent its frame.
Spoke(c) == c \in Requests => pc[c] \in Sent

CausesHaveSpoken ==
    /\ \A t \in Targets : /\ \A i \in DOMAIN inbox[t] : Spoke(inbox[t][i])
                          /\ \A i \in DOMAIN outbox[t] : Spoke(outbox[t][i].cause)
    /\ \A r \in Requests : /\ Spoke(outcome[r].cause)
                           /\ \A i \in DOMAIN chan[r] : Spoke(chan[r][i].result.cause)

Account ==
    /\ UndecidedHasNoOutcome
    /\ UnansweredGaveUp
    /\ DeliveriesAreSound
    /\ CausesHaveSpoken

\* A request is in its ECU's queue once, and its final reply is the last one.
EndsReplies(in, out) ==
    /\ \A i, j \in DOMAIN in : in[i] = in[j] /\ in[i] \in Requests => i = j
    /\ \A i \in DOMAIN out :
          out[i].kind # "response_pending" /\ out[i].cause \in Requests =>
            /\ \A j \in DOMAIN in : in[j] # out[i].cause
            /\ \A j \in DOMAIN out : out[j].cause = out[i].cause => j <= i

RepliesEnd == \A t \in Targets : EndsReplies(inbox[t], outbox[t])

\* c has a frame on the way to t or a reply on the way back.
OnTheWire(t, c) ==
    \/ \E i \in DOMAIN inbox[t] : inbox[t][i] = c
    \/ \E i \in DOMAIN outbox[t] : outbox[t][i].cause = c

\* b was sent and does not take its own answer.
Lost(b) ==
    \/ outcome[b].kind \in {"timeout", "cancelled"}
    \/ /\ pc[b] \in Sent /\ outcome[b].kind # "io_error"
       /\ \E result \in ResultsOf(b) : result.cause = Keepalive

\* Every request to t for the service s takes its own answer.
Faithful(t, s) ==
    \A b \in Requests : Target(b) = t /\ call[b].sid = s => ~Lost(b)

\* While all do, whoever is on the wire still waits, and answers are one's own.
FaithfulIsOwn ==
    \A t \in Targets, s \in Sids : Faithful(t, s) =>
        \A r \in Requests : Target(r) = t /\ call[r].sid = s =>
            /\ reader = "running" /\ OnTheWire(t, r) => pc[r] = "waiting" /\ ~HasFinal(r)
            /\ \A result \in ResultsOf(r) :
                  result.kind \in {"ok", "negative"} => result.cause \in {r, Keepalive}

-----------------------------------------------------------------------------
(***************************************************************************)
(* What a step does to the table and the channels.                         *)
(***************************************************************************)

\* Every step is one of these as far as slots and channels go.
LEMMA TableStep ==
    ASSUME [Next]_vars
    PROVE  \/ UNCHANGED <<pending, chan>>
           \/ \E q \in Requests : Register(q) \/ Receive(q) \/ DropGuard(q)
           \/ \E t \in Targets : RouteFrame(t)
           \/ ReaderEnds
BY DEF Next, RequestStep, Mint, LockWriter, WriteFrame, TimeOut, Cancel,
       TargetStep, EcuBusy, EcuFinishes, KeepaliveTick, KeepaliveWrite, DropSession,
       LinkDown, Closed, vars, futureVars

\* Every step is one of these as far as the progress of a future goes.
LEMMA FutureStep ==
    ASSUME [Next]_vars
    PROVE  \/ UNCHANGED <<pc, outcome>>
           \/ \E q \in Requests : RequestStep(q)
BY DEF Next, TargetStep, RouteFrame, EcuBusy, EcuFinishes, ReaderEnds, KeepaliveTick,
       KeepaliveWrite, DropSession, LinkDown, Closed, vars, futureVars

\* What the reader delivers (session.rs:311-340).
Delivered(t) ==
    {Pending} \cup {Final(Result(k, Head(outbox[t]).cause)) : k \in {"ok", "negative"}}

\* A routed frame is dropped, or it is one delivery to the future that holds the
\* slot, which had no final one before.
LEMMA RoutedTo ==
    ASSUME TypeOK, SlotDiscipline, NEW t \in Targets, RouteFrame(t)
    PROVE  \/ UNCHANGED <<pending, chan>>
           \/ \E r \in Requests, d \in Delivered(t) :
                /\ d \in Delivery
                /\ Delivers(t, d)
                /\ pending[t] # NoSlot /\ pending[t].tx = r
                /\ Guarded(r) /\ Target(r) = t /\ OwnsItsSlot(r) /\ ~HasFinal(r)
                /\ SidOf(Head(outbox[t]).cause) = call[r].sid
                /\ Head(outbox[t]).cause \in Causes
                /\ chan[r] \in Seq(Delivery)
                /\ chan'[r] = Append(chan[r], d)
                /\ \A q \in Requests \ {r} : chan'[q] = chan[q]
<1>1. CASE ~UNCHANGED <<pending, chan>>
  <2> DEFINE r == pending[t].tx
             c == Head(outbox[t]).cause
  <2>1. /\ pending[t] # NoSlot /\ SidOf(c) = pending[t].request_sid /\ c \in Causes
        /\ \/ Delivers(t, Pending)
           \/ Delivers(t, Final(Result("ok", c)))
           \/ Delivers(t, Final(Result("negative", c)))
    BY <1>1, RouteFrameDelivers
  <2>2. r \in Requests /\ chan[r] \in Seq(Delivery)
    BY <2>1 DEF TypeOK, Slots
  <2>3. /\ Guarded(r) /\ Target(r) = t /\ OwnsItsSlot(r) /\ ~HasFinal(r)
        /\ SidOf(c) = call[r].sid
    BY <2>1 DEF SlotDiscipline, NoLeakedSlot, SlotAwaitsItsFinal, OwnsItsSlot
  <2>4. /\ Pending \in Delivery
        /\ Final(Result("ok", c)) \in Delivery /\ Final(Result("negative", c)) \in Delivery
    BY <2>1, ResultTyping
  <2>5. PICK d \in Delivered(t) : d \in Delivery /\ Delivers(t, d)
    BY <2>1, <2>4 DEF Delivered
  <2>6. chan'[r] = Append(chan[r], d) /\ \A q \in Requests \ {r} : chan'[q] = chan[q]
    BY <2>2, <2>5 DEF Delivers, TypeOK
  <2>7. QED
    BY <2>1, <2>2, <2>3, <2>5, <2>6
<1>2. QED
  BY <1>1

\* The drain sends every owner of a slot its last delivery, and nobody else any.
LEMMA DrainStep ==
    ASSUME TypeOK, SlotDiscipline, ReaderEnds, NEW r \in Requests
    PROVE  /\ OwnsItsSlot(r) =>
                 /\ chan'[r] = Append(chan[r], Final(Result("closed", Nobody)))
                 /\ Guarded(r) /\ ~HasFinal(r)
           /\ ~OwnsItsSlot(r) => chan'[r] = chan[r]
           /\ ~OwnsItsSlot(r)'
<1>1. Target(r) \in Targets
  BY DEF Target, TypeOK
<1>2. r \in SendersInTable => OwnsItsSlot(r)
  BY DEF SendersInTable, OwnsItsSlot, SlotDiscipline, NoLeakedSlot
<1>3. OwnsItsSlot(r) => r \in SendersInTable
  BY <1>1 DEF SendersInTable, OwnsItsSlot
<1>4. OwnsItsSlot(r) => Guarded(r) /\ ~HasFinal(r)
  BY <1>1 DEF OwnsItsSlot, SlotDiscipline, NoLeakedSlot, SlotAwaitsItsFinal
<1>5. ~OwnsItsSlot(r)'
  BY <1>1 DEF ReaderEnds, OwnsItsSlot, Target
<1>6. chan'[r] = IF r \in SendersInTable
                 THEN Append(chan[r], Final(Result("closed", Nobody)))
                 ELSE chan[r]
  BY DEF ReaderEnds, Drained
<1>7. QED
  BY <1>2, <1>3, <1>4, <1>5, <1>6

\* A channel whose head is final holds nothing else, and whatever else is taken
\* from it leaves its last delivery in place.
LEMMA TailKeepsTheLast ==
    ASSUME NEW s \in Seq(Delivery), s # <<>>, EndsWithFinal(s)
    PROVE  /\ Head(s).type = "final" => Tail(s) = <<>> /\ Head(s) = s[Len(s)]
           /\ Tail(s) # <<>> => Tail(s)[Len(Tail(s))] = s[Len(s)]
<1>1. /\ Len(s) \in Nat \ {0} /\ DOMAIN s = 1 .. Len(s) /\ Head(s) = s[1]
      /\ Tail(s) \in Seq(Delivery) /\ Len(Tail(s)) = Len(s) - 1
      /\ \A i \in 1 .. Len(s) - 1 : Tail(s)[i] = s[i + 1]
  OBVIOUS
<1>2. Head(s).type = "final" => Len(s) = 1
  BY <1>1 DEF EndsWithFinal
<1>3. Len(s) = 1 => Tail(s) = <<>>
  <2>1. \A q \in Seq(Delivery) : Len(q) = 0 => q = <<>>
    OBVIOUS
  <2>2. Len(s) = 1 => Len(Tail(s)) = 0
    BY <1>1
  <2>3. QED
    BY <1>1, <2>1, <2>2
<1>4. Tail(s) # <<>> => Len(s) - 1 \in 1 .. Len(s) - 1
  BY <1>1
<1>5. QED
  BY <1>1, <1>2, <1>3, <1>4

\* Whatever a channel holds was in it, or was routed there, or is the drain's.
LEMMA ChannelSources ==
    ASSUME TypeOK, SlotDiscipline, [Next]_vars, NEW r \in Requests, NEW i \in DOMAIN chan'[r]
    PROVE  \/ \E j \in DOMAIN chan[r] : chan'[r][i] = chan[r][j]
           \/ \E t \in Targets : RouteFrame(t) /\ chan'[r][i] \in Delivered(t)
           \/ ReaderEnds /\ chan'[r][i] = Final(Result("closed", Nobody))
<1>1. chan[r] \in Seq(Delivery)
  BY DEF TypeOK
<1>2. CASE chan'[r] = chan[r]
  BY <1>2
<1>3. CASE \E q \in Requests : Register(q) \/ Receive(q) \/ DropGuard(q)
  <2>1. \/ chan'[r] = chan[r]
        \/ chan'[r] = <<>>
        \/ chan[r] # <<>> /\ chan'[r] = Tail(chan[r])
    BY SMTT(60), <1>3 DEF Register, Receive, DropGuard, TypeOK
  <2>2. CASE chan'[r] = <<>>
    BY <2>2
  <2>3. CASE chan[r] # <<>> /\ chan'[r] = Tail(chan[r])
    BY <1>1, <2>3, TailOfChannel
  <2>4. QED
    BY <1>2, <2>1, <2>2, <2>3
<1>4. ASSUME NEW t \in Targets, RouteFrame(t)
      PROVE  \/ \E j \in DOMAIN chan[r] : chan'[r][i] = chan[r][j]
             \/ chan'[r][i] \in Delivered(t)
  <2>1. \/ chan'[r] = chan[r]
        \/ \E d \in Delivered(t) : d \in Delivery /\ chan'[r] = Append(chan[r], d)
    BY <1>4, RoutedTo
  <2>2. QED
    BY SMTT(60), <1>1, <2>1, AppendToChannel
<1>5. CASE ReaderEnds
  <2>1. \/ chan'[r] = chan[r]
        \/ chan'[r] = Append(chan[r], Final(Result("closed", Nobody)))
    BY <1>5, DrainStep
  <2>2. Final(Result("closed", Nobody)) \in Delivery
    BY ResultTyping
  <2>3. QED
    BY <1>1, <1>5, <2>1, <2>2, AppendToChannel
<1>6. QED
  BY <1>2, <1>3, <1>4, <1>5, TableStep

\* A future decides on a delivery it was sent or on a result that has no cause.
LEMMA OutcomeSources ==
    ASSUME TypeOK, [Next]_vars, NEW r \in Requests
    PROVE  \/ outcome'[r] = outcome[r]
           \/ \E j \in DOMAIN chan[r] : outcome'[r] = chan[r][j].result
           \/ \E k \in Leaving \cup {"in_flight"} : outcome'[r] = Result(k, Nobody)
<1>1. ASSUME NEW q \in Requests, Receive(q)
      PROVE  \/ outcome'[r] = outcome[r]
             \/ \E j \in DOMAIN chan[r] : outcome'[r] = chan[r][j].result
             \/ outcome'[r] = Result("timeout", Nobody)
  <2>1. chan[q] \in Seq(Delivery) /\ chan[q] # <<>>
    BY <1>1 DEF Receive, TypeOK
  <2>2. \E j \in DOMAIN chan[q] : Head(chan[q]) = chan[q][j]
    BY <2>1, TailOfChannel
  <2>3. QED
    BY <1>1, <2>2 DEF Receive, TypeOK
<1>2. ASSUME NEW q \in Requests, RequestStep(q), ~Receive(q)
      PROVE  \/ outcome'[r] = outcome[r]
             \/ \E k \in Leaving \cup {"in_flight"} : outcome'[r] = Result(k, Nobody)
  <2>1. \/ UNCHANGED outcome
        \/ \E k \in {"timeout", "cancelled", "io_error", "in_flight"} :
              outcome' = [outcome EXCEPT ![q] = Result(k, Nobody)]
    BY <1>2 DEF RequestStep, Mint, Register, LockWriter, WriteFrame, TimeOut, Cancel, DropGuard
  <2>2. QED
    BY <2>1 DEF TypeOK, Leaving
<1>3. QED
  BY <1>1, <1>2, FutureStep DEF Leaving

\* Once its frame may have left, a request never forgets.
LEMMA SentForGood ==
    ASSUME TypeOK, [Next]_vars, NEW r \in Requests, pc[r] \in Sent
    PROVE  pc'[r] \in Sent
<1>1. ASSUME NEW q \in Requests, RequestStep(q)
      PROVE  pc'[r] \in Sent
  BY <1>1 DEF RequestStep, Mint, Register, LockWriter, WriteFrame, Receive, TimeOut, Cancel,
              DropGuard, TypeOK, Sent
<1>2. QED
  BY <1>1, FutureStep

\* Frames reach an ECU from the one writer; replies come from the ECU that
\* handles the head of its queue (session.rs:240-244, 344-363).
LEMMA WireMoves ==
    ASSUME [Next]_vars
    PROVE  \/ UNCHANGED <<inbox, outbox>>
           \/ \E r \in Requests : WriteFrame(r) /\ Transmit(r) /\ pc' = [pc EXCEPT ![r] = "waiting"]
           \/ Transmit(Keepalive) /\ KeepaliveWrite
           \/ \E t \in Targets : EcuBusy(t) \/ EcuFinishes(t)
           \/ \E t \in Targets : RouteFrame(t)
BY DEF Next, RequestStep, Mint, Register, LockWriter, WriteFrame, Receive, TimeOut, Cancel,
       DropGuard, TargetStep, ReaderEnds, KeepaliveTick, KeepaliveWrite, DropSession,
       LinkDown, Closed, vars, wireVars

\* r's frame went out in this step.
Written(r) == pc[r] = "writing" /\ pc'[r] = "waiting"

\* What an ECU has yet to handle was in its queue, or was written just now.
LEMMA InboxSources ==
    ASSUME TypeOK, [Next]_vars, NEW t \in Targets, NEW i \in DOMAIN inbox'[t]
    PROVE  \/ \E j \in DOMAIN inbox[t] : inbox'[t][i] = inbox[t][j]
           \/ inbox'[t][i] = Keepalive
           \/ inbox'[t][i] \in Requests /\ Written(inbox'[t][i])
<1>1. inbox[t] \in Seq(Causes)
  BY DEF TypeOK
<1>2. CASE inbox'[t] = inbox[t]
  BY <1>2
<1>3. ASSUME NEW c \in Causes, Transmit(c)
      PROVE  inbox'[t][i] = c \/ \E j \in DOMAIN inbox[t] : inbox'[t][i] = inbox[t][j]
  <2>1. inbox'[t] = inbox[t] \/ inbox'[t] = Append(inbox[t], c)
    BY <1>3 DEF Transmit, TypeOK
  <2>2. QED
    BY <1>1, <2>1, AppendToQueue
<1>4. CASE \E r \in Requests : WriteFrame(r) /\ Transmit(r) /\ pc' = [pc EXCEPT ![r] = "waiting"]
  BY <1>3, <1>4 DEF WriteFrame, Written, TypeOK, Causes
<1>5. CASE Transmit(Keepalive)
  BY <1>3, <1>5 DEF Causes
<1>6. ASSUME NEW u \in Targets, EcuBusy(u) \/ EcuFinishes(u)
      PROVE  \E j \in DOMAIN inbox[t] : inbox'[t][i] = inbox[t][j]
  <2>1. CASE EcuBusy(u)
    BY <2>1 DEF EcuBusy
  <2>2. CASE EcuFinishes(u)
    <3>1. inbox'[t] = inbox[t] \/ (inbox[t] # <<>> /\ inbox'[t] = Tail(inbox[t]))
      BY <2>2 DEF EcuFinishes, TypeOK
    <3>2. CASE inbox[t] # <<>> /\ inbox'[t] = Tail(inbox[t])
      BY <1>1, <3>2, TailOfQueue
    <3>3. QED
      BY <3>1, <3>2
  <2>3. QED
    BY <1>6, <2>1, <2>2
<1>7. QED
  BY <1>2, <1>4, <1>5, <1>6, WireMoves DEF RouteFrame

\* What the reader has yet to read was there, or answers what its ECU was handling.
LEMMA OutboxSources ==
    ASSUME TypeOK, [Next]_vars, NEW t \in Targets, NEW i \in DOMAIN outbox'[t]
    PROVE  \/ \E j \in DOMAIN outbox[t] : outbox'[t][i] = outbox[t][j]
           \/ \E j \in DOMAIN inbox[t] : outbox'[t][i].cause = inbox[t][j]
<1>1. outbox[t] \in Seq(Frames) /\ inbox[t] \in Seq(Causes)
  BY DEF TypeOK
<1>2. CASE outbox'[t] = outbox[t]
  BY <1>2
<1>3. ASSUME NEW u \in Targets, RouteFrame(u)
      PROVE  \E j \in DOMAIN outbox[t] : outbox'[t][i] = outbox[t][j]
  <2>1. outbox'[t] = outbox[t] \/ (outbox[t] # <<>> /\ outbox'[t] = Tail(outbox[t]))
    BY <1>3 DEF RouteFrame, TypeOK
  <2>2. CASE outbox[t] # <<>> /\ outbox'[t] = Tail(outbox[t])
    BY <1>1, <2>2, TailOfQueue
  <2>3. QED
    BY <2>1, <2>2
<1>4. ASSUME NEW u \in Targets, EcuBusy(u) \/ EcuFinishes(u), outbox'[t] # outbox[t]
      PROVE  \/ \E j \in DOMAIN outbox[t] : outbox'[t][i] = outbox[t][j]
             \/ \E j \in DOMAIN inbox[t] : outbox'[t][i].cause = inbox[t][j]
  <2>1. /\ inbox[u] # <<>>
        /\ \E kind \in {"positive", "negative", "response_pending", "other"} : EcuSends(u, kind)
    BY <1>4 DEF EcuBusy, EcuFinishes
  <2>2. PICK kind \in {"positive", "negative", "response_pending", "other"} :
          u = t /\ outbox'[t] = Append(outbox[t], [kind |-> kind, cause |-> Head(inbox[t])])
    BY <1>4, <2>1 DEF EcuSends, TypeOK
  <2>3. /\ Head(inbox[t]) \in Causes
        /\ \E j \in DOMAIN inbox[t] : Head(inbox[t]) = inbox[t][j]
    BY <1>1, <2>1, <2>2, TailOfQueue
  <2>4. [kind |-> kind, cause |-> Head(inbox[t])] \in Frames
    BY <2>3 DEF Frames
  <2>5. \/ outbox'[t][i] = [kind |-> kind, cause |-> Head(inbox[t])]
        \/ \E j \in DOMAIN outbox[t] : outbox'[t][i] = outbox[t][j]
    BY <1>1, <2>2, <2>4, AppendToQueue
  <2>6. QED
    BY <2>3, <2>5
<1>5. QED
  BY <1>2, <1>3, <1>4, WireMoves DEF Transmit

-----------------------------------------------------------------------------
(***************************************************************************)
(* Account is inductive.                                                   *)
(***************************************************************************)

\* Nothing is in the channels or on the wire at first.
LEMMA AccountInit == Init => Account
<1> SUFFICES ASSUME Init PROVE Account
  OBVIOUS
<1>1. /\ \A r \in Requests : pc[r] = "idle" /\ chan[r] = <<>> /\ outcome[r] = NoOutcome
      /\ \A t \in Targets : inbox[t] = <<>> /\ outbox[t] = <<>>
  BY DEF Init, NoOutcome
<1>2. NoOutcome.cause = Nobody
  BY DEF NoOutcome, Result
<1>3. UndecidedHasNoOutcome /\ UnansweredGaveUp /\ DeliveriesAreSound
  BY <1>1 DEF UndecidedHasNoOutcome, UnansweredGaveUp, DeliveriesAreSound
<1>4. CausesHaveSpoken
  BY <1>1, <1>2 DEF CausesHaveSpoken, Spoke
<1>5. QED
  BY <1>3, <1>4 DEF Account

\* An outcome is decided in the step that leaves "waiting" or an earlier place.
LEMMA UndecidedStep ==
    ASSUME TypeOK, UndecidedHasNoOutcome, [Next]_vars
    PROVE  UndecidedHasNoOutcome'
<1> SUFFICES ASSUME NEW r \in Requests,
                    pc'[r] \in {"idle", "minted", "locking", "writing", "waiting"}
             PROVE  outcome'[r] = NoOutcome
  BY DEF UndecidedHasNoOutcome, NoOutcome
<1>1. ASSUME NEW q \in Requests, RequestStep(q)
      PROVE  /\ outcome'[r] = outcome[r]
             /\ pc[r] \in {"idle", "minted", "locking", "writing", "waiting"}
  BY ZenonT(60), <1>1 DEF RequestStep, Mint, Register, LockWriter, WriteFrame, Receive, TimeOut, Cancel,
              DropGuard, TypeOK
<1>2. QED
  BY <1>1, FutureStep DEF UndecidedHasNoOutcome

\* Who has neither its slot nor a final delivery is not given either again.
LEMMA ClaimStep ==
    ASSUME TypeOK, SlotDiscipline, [Next]_vars, NEW r \in Requests, Guarded(r),
           OwnsItsSlot(r)' \/ HasFinal(r)'
    PROVE  OwnsItsSlot(r) \/ HasFinal(r)
<1> SUFFICES ASSUME ~OwnsItsSlot(r) PROVE HasFinal(r)
  OBVIOUS
<1>1. Target(r)' = Target(r) /\ Target(r) \in Targets /\ chan[r] \in Seq(Delivery)
  BY CallsFixed DEF Target, TypeOK
<1>2. CASE UNCHANGED <<pending, chan>>
  BY <1>1, <1>2 DEF OwnsItsSlot, HasFinal
<1>3. ASSUME NEW q \in Requests, Register(q)
      PROVE  HasFinal(r)
  <2>1. q # r /\ UNCHANGED chan
    BY <1>3 DEF Register, Guarded
  <2>2. pending'[Target(r)] = pending[Target(r)] \/ pending'[Target(r)].tx = q
    <3>1. pending \in [Targets -> Slots \cup {NoSlot}] /\ Target(q) \in Targets
      BY DEF TypeOK, Target
    <3>2. \/ UNCHANGED pending
          \/ pending' = [pending EXCEPT ![Target(q)] = [request_sid |-> call[q].sid,
                                                       generation  |-> generation[q],
                                                       tx          |-> q]]
      BY <1>3 DEF Register
    <3>3. QED
      BY <1>1, <3>1, <3>2
  <2>3. ~OwnsItsSlot(r)'
    BY <1>1, <2>1, <2>2 DEF OwnsItsSlot
  <2>4. QED
    BY <2>1, <2>3 DEF HasFinal
<1>4. ASSUME NEW q \in Requests, Receive(q) \/ DropGuard(q)
      PROVE  HasFinal(r)
  <2>1. ~OwnsItsSlot(r)'
    <3>1. pending'[Target(r)] = pending[Target(r)] \/ pending'[Target(r)] = NoSlot
      BY <1>1, <1>4 DEF Receive, DropGuard, TypeOK
    <3>2. QED
      BY <1>1, <3>1 DEF OwnsItsSlot
  <2>2. \/ chan'[r] = chan[r]
        \/ chan'[r] = <<>>
        \/ chan[r] # <<>> /\ chan'[r] = Tail(chan[r])
    BY <1>4 DEF Receive, DropGuard, TypeOK
  <2>3. QED
    BY <1>1, <2>1, <2>2, TailOfChannel, EmptyChannel DEF HasFinal
<1>5. ASSUME NEW t \in Targets, RouteFrame(t)
      PROVE  HasFinal(r)
  <2>1. CASE UNCHANGED <<pending, chan>>
    BY <1>2, <2>1
  <2>2. ASSUME NEW q \in Requests, NEW d, Delivers(t, d), OwnsItsSlot(q),
               \A p \in Requests \ {q} : chan'[p] = chan[p]
        PROVE  HasFinal(r)
    <3>1. chan'[r] = chan[r]
      BY <2>2
    <3>2. ~OwnsItsSlot(r)'
      BY <1>1, <2>2 DEF Delivers, OwnsItsSlot, TypeOK
    <3>3. QED
      BY <3>1, <3>2 DEF HasFinal
  <2>3. QED
    BY <1>5, <2>1, <2>2, RoutedTo
<1>6. CASE ReaderEnds
  BY <1>6, DrainStep DEF HasFinal
<1>7. QED
  BY <1>2, <1>3, <1>4, <1>5, <1>6, TableStep

\* A request returns without its final delivery only when it gives up: the deadline,
\* one NRC 0x78 too many, a failed write or the caller (session.rs:240-259).
LEMMA UnansweredStep ==
    ASSUME IInv, UnansweredGaveUp, [Next]_vars
    PROVE  UnansweredGaveUp'
<1> SUFFICES ASSUME NEW r \in Requests, pc'[r] = "returning", OwnsItsSlot(r)' \/ HasFinal(r)'
             PROVE  \E k \in Leaving : outcome'[r] = Result(k, Nobody)
  BY DEF UnansweredGaveUp
<1> USE DEF IInv
<1>1. CASE pc[r] = "returning"
  <2>1. outcome'[r] = outcome[r]
    <3>1. ASSUME NEW q \in Requests, RequestStep(q)
          PROVE  outcome'[r] = outcome[r]
      BY <1>1, <3>1 DEF RequestStep, Mint, Register, LockWriter, WriteFrame, Receive, TimeOut,
                        Cancel, DropGuard, TypeOK
    <3>2. QED
      BY <3>1, FutureStep
  <2>2. OwnsItsSlot(r) \/ HasFinal(r)
    BY <1>1, ClaimStep DEF Guarded
  <2>3. QED
    BY <1>1, <2>1, <2>2 DEF UnansweredGaveUp
<1>2. CASE pc[r] # "returning"
  <2>1. PICK q \in Requests : RequestStep(q)
    BY <1>2, FutureStep
  <2>2. q = r
    BY <1>2, <2>1 DEF RequestStep, Mint, Register, LockWriter, WriteFrame, Receive, TimeOut,
                      Cancel, DropGuard, TypeOK
  <2>3. CASE Receive(r)
    <3>1. chan[r] \in Seq(Delivery) /\ chan[r] # <<>> /\ EndsWithFinal(chan[r])
      BY <2>3 DEF Receive, TypeOK, FinalIsLast
    <3>2. CASE Head(chan[r]).type = "final"
      <4>1. chan'[r] = <<>> /\ HasFinal(r)
        BY <2>3, <3>1, <3>2, TailKeepsTheLast, TailOfChannel DEF Receive, TypeOK, HasFinal
      <4>2. ~HasFinal(r)'
        BY <4>1, EmptyChannel DEF HasFinal
      <4>3. Target(r)' = Target(r) /\ UNCHANGED pending /\ Target(r) \in Targets
        BY <2>3 DEF Receive, Target, TypeOK
      <4>4. ~OwnsItsSlot(r)'
        BY <4>1, <4>3 DEF OwnsItsSlot, SlotDiscipline, SlotAwaitsItsFinal
      <4>5. QED
        BY <4>2, <4>4
    <3>3. CASE Head(chan[r]).type # "final"
      BY <1>2, <2>3, <3>3 DEF Receive, TypeOK, Leaving
    <3>4. QED
      BY <3>2, <3>3
  <2>4. CASE ~Receive(r)
    <3>1. \E k \in Leaving : outcome' = [outcome EXCEPT ![r] = Result(k, Nobody)]
      BY <1>2, <2>1, <2>2, <2>4 DEF RequestStep, Mint, Register, LockWriter, WriteFrame, TimeOut,
                                    Cancel, DropGuard, TypeOK, Leaving
    <3>2. QED
      BY <3>1 DEF TypeOK
  <2>5. QED
    BY <2>3, <2>4
<1>3. QED
  BY <1>1, <1>2

\* What is sent to a request stays NRC 0x78, a response, or the drain's word that
\* the reader is gone (session.rs:159-163, 317-336).
LEMMA SoundStep ==
    ASSUME TypeOK, SlotDiscipline, DeliveriesAreSound, [Next]_vars
    PROVE  DeliveriesAreSound'
<1> SUFFICES ASSUME NEW r \in Requests, NEW i \in DOMAIN chan'[r]
             PROVE  Sound(chan[r][i])'
  BY DEF DeliveriesAreSound
<1>1. reader # "running" => reader' # "running"
  BY DEF Next, RequestStep, Mint, Register, LockWriter, WriteFrame, Receive, TimeOut, Cancel,
         DropGuard, TargetStep, RouteFrame, EcuBusy, EcuFinishes, ReaderEnds, KeepaliveTick,
         KeepaliveWrite, DropSession, LinkDown, Closed, vars, futureVars
<1>2. CASE \E j \in DOMAIN chan[r] : chan'[r][i] = chan[r][j]
  <2>1. PICK j \in DOMAIN chan[r] : chan'[r][i] = chan[r][j]
    BY <1>2
  <2>2. Sound(chan[r][j])
    BY DEF DeliveriesAreSound
  <2>3. QED
    BY <1>1, <2>1, <2>2 DEF Sound
<1>3. ASSUME NEW t \in Targets, RouteFrame(t), chan'[r][i] \in Delivered(t)
      PROVE  Sound(chan[r][i])'
  <2>1. outbox[t] \in Seq(Frames) /\ outbox[t] # <<>>
    BY <1>3 DEF RouteFrame, TypeOK
  <2>2. Head(outbox[t]) \in Frames
    BY <2>1
  <2>3. QED
    BY <1>3, <2>2 DEF Frames, Delivered, Sound
<1>4. CASE ReaderEnds /\ chan'[r][i] = Final(Result("closed", Nobody))
  BY <1>4 DEF ReaderEnds, Sound
<1>5. QED
  BY <1>2, <1>3, <1>4, ChannelSources

\* Only a request whose frame was written makes an ECU speak, and only what ECUs
\* said is delivered (session.rs:240-244, 299-341).
LEMMA SpokenStep ==
    ASSUME TypeOK, SlotDiscipline, CausesHaveSpoken, [Next]_vars
    PROVE  CausesHaveSpoken'
<1>1. ASSUME NEW c, Spoke(c) PROVE Spoke(c)'
  BY <1>1, SentForGood DEF Spoke
<1>2. Spoke(Nobody) /\ Spoke(Keepalive)
  BY DEF Spoke
<1>3. ASSUME NEW t \in Targets, NEW i \in DOMAIN inbox'[t]
      PROVE  Spoke(inbox[t][i])'
  <2>1. CASE \E j \in DOMAIN inbox[t] : inbox'[t][i] = inbox[t][j]
    BY <1>1, <2>1 DEF CausesHaveSpoken, Spoke
  <2>2. CASE inbox'[t][i] = Keepalive
    BY <1>1, <1>2, <2>2 DEF Spoke
  <2>3. CASE inbox'[t][i] \in Requests /\ pc'[inbox'[t][i]] = "waiting"
    BY <2>3 DEF Spoke, Sent
  <2>4. QED
    BY <1>3, <2>1, <2>2, <2>3, InboxSources DEF Written
<1>4. ASSUME NEW t \in Targets, NEW i \in DOMAIN outbox'[t]
      PROVE  Spoke(outbox[t][i].cause)'
  <2>1. CASE \E j \in DOMAIN outbox[t] : outbox'[t][i] = outbox[t][j]
    BY <1>1, <2>1 DEF CausesHaveSpoken, Spoke
  <2>2. CASE \E j \in DOMAIN inbox[t] : outbox'[t][i].cause = inbox[t][j]
    BY <1>1, <2>2 DEF CausesHaveSpoken, Spoke
  <2>3. QED
    BY <1>4, <2>1, <2>2, OutboxSources
<1>5. ASSUME NEW r \in Requests, NEW i \in DOMAIN chan'[r]
      PROVE  Spoke(chan[r][i].result.cause)'
  <2>1. CASE \E j \in DOMAIN chan[r] : chan'[r][i] = chan[r][j]
    BY <1>1, <2>1 DEF CausesHaveSpoken, Spoke
  <2>2. ASSUME NEW t \in Targets, RouteFrame(t), chan'[r][i] \in Delivered(t)
        PROVE  Spoke(chan[r][i].result.cause)'
    <3>1. outbox[t] \in Seq(Frames) /\ outbox[t] # <<>>
      BY <2>2 DEF RouteFrame, TypeOK
    <3>2. Spoke(Head(outbox[t]).cause)
      BY <3>1, TailOfQueue DEF CausesHaveSpoken
    <3>3. chan'[r][i].result.cause \in {Nobody, Head(outbox[t]).cause}
      BY <2>2 DEF Delivered, Pending, Final, Result
    <3>4. QED
      BY <1>1, <1>2, <3>2, <3>3 DEF Spoke
  <2>3. CASE ReaderEnds /\ chan'[r][i] = Final(Result("closed", Nobody))
    BY <1>1, <1>2, <2>3 DEF Final, Result, Spoke
  <2>4. QED
    BY <1>5, <2>1, <2>2, <2>3, ChannelSources
<1>6. ASSUME NEW r \in Requests
      PROVE  Spoke(outcome[r].cause)'
  <2>1. CASE outcome'[r] = outcome[r]
    BY <1>1, <2>1 DEF CausesHaveSpoken, Spoke
  <2>2. CASE \E j \in DOMAIN chan[r] : outcome'[r] = chan[r][j].result
    BY <1>1, <2>2 DEF CausesHaveSpoken, Spoke
  <2>3. CASE \E k \in Leaving \cup {"in_flight"} : outcome'[r] = Result(k, Nobody)
    BY <1>1, <1>2, <2>3 DEF Result, Spoke
  <2>4. QED
    BY <2>1, <2>2, <2>3, OutcomeSources
<1>7. QED
  BY <1>3, <1>4, <1>5, <1>6 DEF CausesHaveSpoken

\* The account is kept by every step, so it holds in every reachable state.
LEMMA AccountStep == IInv /\ Account /\ [Next]_vars => Account'
BY UndecidedStep, UnansweredStep, SoundStep, SpokenStep DEF Account, IInv

\* In every state of the session, whatever is in a channel or on the wire can be
\* accounted for: an outcome is decided once, a request leaves without its final
\* delivery only by giving up, and only sent frames draw replies
\* (session.rs:199-341).
THEOREM AccountIsKept == Spec => []Account
BY Inductive, AccountInit, AccountStep, PTL DEF Spec

-----------------------------------------------------------------------------
(***************************************************************************)
(* The refinement.                                                         *)
(***************************************************************************)

\* What a finished call returned, as the callers see it.
Returned(r) == IF pc[r] = "done" THEN outcome[r] ELSE NoOutcome

\* Where the callers see a future stand.
LEMMA PhaseCases ==
    ASSUME TypeOK, NEW r \in Requests
    PROVE  /\ PhaseOf(r) = "idle"    <=> pc[r] \in {"idle", "minted"}
           /\ PhaseOf(r) = "done"    <=> pc[r] = "done"
           /\ PhaseOf(r) = "open"    <=> Guarded(r) /\ OwnsItsSlot(r)
           /\ PhaseOf(r) = "offered" <=> Guarded(r) /\ ~OwnsItsSlot(r)
           /\ PhaseOf(r) \in {"idle", "done", "open", "offered"}
<1>1. pc[r] \in {"idle", "minted", "done"} \/ Guarded(r)
  BY DEF TypeOK, PCs, Guarded
<1>2. Guarded(r) => pc[r] \notin {"idle", "minted", "done"}
  BY DEF Guarded
<1>3. QED
  BY <1>1, <1>2 DEF PhaseOf

\* What the callers see of a future that nothing happens to stays as it is.
LEMMA SameView ==
    ASSUME NEW r \in Requests, pc'[r] = pc[r], chan'[r] = chan[r], outcome'[r] = outcome[r],
           OwnsItsSlot(r)' <=> OwnsItsSlot(r)
    PROVE  PhaseOf(r)' = PhaseOf(r) /\ OfferOf(r)' = OfferOf(r) /\ Returned(r)' = Returned(r)
<1>1. (Guarded(r)' <=> Guarded(r)) /\ (HasFinal(r)' <=> HasFinal(r))
  BY DEF Guarded, HasFinal
<1>2. PhaseOf(r)' = PhaseOf(r)
  BY <1>1 DEF PhaseOf
<1>3. QED
  BY <1>1, <1>2 DEF OfferOf, Returned

\* Unless the callers see something change, Exchange stutters.
LEMMA Stutters ==
    ASSUME UNCHANGED call,
           \A q \in Requests : /\ PhaseOf(q)' = PhaseOf(q)
                               /\ OfferOf(q)' = OfferOf(q)
                               /\ Returned(q)' = Returned(q)
    PROVE  UNCHANGED Promise!vars
BY DEF Promise!vars, Returned, NoOutcome

\* An idle call that becomes open on a free target has been opened.
LEMMA Opens ==
    ASSUME UNCHANGED call, NEW r \in Requests,
           PhaseOf(r) = "idle",
           \A q \in Requests : PhaseOf(q) = "open" => Target(q) # Target(r),
           \A q \in Requests : /\ PhaseOf(q)' = IF q = r THEN "open" ELSE PhaseOf(q)
                               /\ OfferOf(q)' = OfferOf(q)
                               /\ Returned(q)' = Returned(q)
    PROVE  Promise!Open(r)
BY DEF Promise!Open, Returned, NoOutcome, Promise!Busy, Promise!TargetOf, Target

\* An idle call that ends at once on a busy target has been refused.
LEMMA Refuses ==
    ASSUME UNCHANGED call, NEW r \in Requests, PhaseOf(r) = "idle",
           \E q \in Requests : PhaseOf(q) = "open" /\ Target(q) = Target(r),
           \A q \in Requests :
              /\ PhaseOf(q)' = IF q = r THEN "done" ELSE PhaseOf(q)
              /\ OfferOf(q)' = OfferOf(q)
              /\ Returned(q)' = IF q = r THEN Result("in_flight", Nobody) ELSE Returned(q)
    PROVE  Promise!Refuse(r)
BY DEF Promise!Refuse, Promise!Busy, Promise!TargetOf, Target, Returned, NoOutcome, Result

\* An open call is offered what its own target said to its own service.
LEMMA Offers ==
    ASSUME UNCHANGED call, NEW r \in Requests, PhaseOf(r) = "open",
           NEW c \in Causes, NEW k \in {"ok", "negative"},
           TargetOf(c) = Target(r), SidOf(c) = call[r].sid,
           c \in Requests => PhaseOf(c) # "idle",
           \A q \in Requests :
              /\ PhaseOf(q)' = IF q = r THEN "offered" ELSE PhaseOf(q)
              /\ OfferOf(q)' = IF q = r THEN Result(k, c) ELSE OfferOf(q)
              /\ Returned(q)' = Returned(q)
    PROVE  Promise!Offer(r)
<1>1. Result(k, c) \in Promise!Responses(r)
  <2>1. /\ Promise!TargetOf(c) = Promise!TargetOf(r)
        /\ Promise!SidOf(c) = Promise!SidOf(r)
    BY DEF Promise!TargetOf, Promise!SidOf, TargetOf, SidOf, Target
  <2>2. c # Keepalive => [q \in Requests |-> PhaseOf(q)][c] # "idle"
    BY DEF Causes
  <2>3. c \in Requests \cup {Keepalive}
    BY DEF Causes
  <2>4. QED
    BY <2>1, <2>2, <2>3 DEF Promise!Responses, Result
<1>2. QED
  BY <1>1 DEF Promise!Offer, Returned, NoOutcome

\* Every open call at once is offered the end of the connection.
LEMMA ClosesAll ==
    ASSUME UNCHANGED call,
           \A q \in Requests :
              /\ PhaseOf(q)' = IF PhaseOf(q) = "open" THEN "offered" ELSE PhaseOf(q)
              /\ OfferOf(q)' = IF PhaseOf(q) = "open" THEN Result("closed", Nobody) ELSE OfferOf(q)
              /\ Returned(q)' = Returned(q)
    PROVE  Promise!CloseAll
BY DEF Promise!CloseAll, Returned, NoOutcome, Result

\* A call that ends takes its offer, or a failure it gave up for.
LEMMA Leaves ==
    ASSUME UNCHANGED call, NEW r \in Requests, NEW result,
           \/ PhaseOf(r) = "open" /\ OfferOf(r) = NoOutcome
           \/ PhaseOf(r) = "offered",
           \/ PhaseOf(r) = "offered" /\ result = OfferOf(r)
           \/ \E k \in Leaving : result = Result(k, Nobody),
           \A q \in Requests :
              /\ PhaseOf(q)' = IF q = r THEN "done" ELSE PhaseOf(q)
              /\ OfferOf(q)' = IF q = r THEN NoOutcome ELSE OfferOf(q)
              /\ Returned(q)' = IF q = r THEN result ELSE Returned(q)
    PROVE  Promise!Collect(r) \/ Promise!GiveUp(r)
<1>1. (\E k \in Leaving : result = Result(k, Nobody)) => result \in Promise!Failures
  BY DEF Promise!Failures, Result, Leaving
<1>2. CASE PhaseOf(r) = "offered"
  <2>1. result = OfferOf(r) \/ result \in Promise!Failures
    BY <1>1
  <2>2. QED
    BY <1>2, <2>1 DEF Promise!Collect, Returned, NoOutcome, Promise!NoResult, Result
<1>3. CASE PhaseOf(r) = "open"
  <2>1. result \in Promise!Failures
    BY <1>1, <1>3
  <2>2. QED
    BY <1>3, <2>1 DEF Promise!GiveUp, Returned, NoOutcome
<1>4. QED
  BY <1>2, <1>3

\* A future that holds neither its slot nor a place in "returning" has been sent
\* its final delivery, and that is what it is offered.
LEMMA WaitersOffer ==
    ASSUME TypeOK, WaiterHoldsItsSlot, NEW r \in Requests, PhaseOf(r) = "offered",
           pc[r] \in {"locking", "writing", "waiting"}
    PROVE  HasFinal(r) /\ OfferOf(r) = chan[r][Len(chan[r])].result
<1>1. ~OwnsItsSlot(r)
  BY PhaseCases
<1>2. HasFinal(r)
  BY <1>1 DEF WaiterHoldsItsSlot, OwnsItsSlot
<1>3. QED
  BY <1>2 DEF OfferOf

\* What a future does between registration and the drop of its guard is not seen:
\* its offer moves from the channel to the outcome (session.rs:240-259).
LEMMA FutureStutters ==
    ASSUME IInv, TypeOK', NEW r \in Requests,
           Mint(r) \/ LockWriter(r) \/ WriteFrame(r) \/ Receive(r) \/ TimeOut(r) \/ Cancel(r)
    PROVE  UNCHANGED Promise!vars
<1> USE DEF IInv
<1>1. /\ UNCHANGED <<call, pending>>
      /\ \A q \in Requests \ {r} : /\ pc'[q] = pc[q] /\ chan'[q] = chan[q]
                                   /\ outcome'[q] = outcome[q]
  BY DEF Mint, LockWriter, WriteFrame, Receive, TimeOut, Cancel, TypeOK
<1>2. \A q \in Requests : OwnsItsSlot(q)' <=> OwnsItsSlot(q)
  BY <1>1 DEF OwnsItsSlot, Target
<1>3. \A q \in Requests \ {r} : /\ PhaseOf(q)' = PhaseOf(q)
                                /\ OfferOf(q)' = OfferOf(q)
                                /\ Returned(q)' = Returned(q)
  BY <1>1, <1>2, SameView
<1>4. CASE Mint(r)
  <2>1. pc[r] = "idle" /\ pc'[r] = "minted"
    BY <1>4 DEF Mint, TypeOK
  <2>2. PhaseOf(r) = "idle" /\ PhaseOf(r)' = "idle"
    BY <2>1 DEF PhaseOf, Guarded
  <2>3. OfferOf(r)' = OfferOf(r) /\ Returned(r)' = Returned(r)
    BY <2>1, <2>2 DEF OfferOf, Returned
  <2>4. QED
    BY <1>1, <1>3, <2>2, <2>3, Stutters
<1>5. CASE ~Mint(r)
  <2>1. /\ pc[r] \in {"locking", "writing", "waiting"}
        /\ pc'[r] \in {"writing", "waiting", "returning"}
    BY <1>5 DEF LockWriter, WriteFrame, Receive, TimeOut, Cancel, TypeOK
  <2>2. Guarded(r) /\ Guarded(r)'
    BY <2>1 DEF Guarded
  <2>3. PhaseOf(r)' = PhaseOf(r) /\ Returned(r)' = Returned(r)
    BY <1>2, <2>1, <2>2 DEF PhaseOf, Guarded, Returned
  <2>4. CASE PhaseOf(r) # "offered"
    BY <1>1, <1>3, <2>3, <2>4, Stutters DEF OfferOf
  <2>5. CASE PhaseOf(r) = "offered"
    <3> DEFINE last == chan[r][Len(chan[r])]
    <3>1. HasFinal(r) /\ OfferOf(r) = last.result
      BY <2>1, <2>5, WaitersOffer DEF SlotDiscipline
    <3>2. CASE UNCHANGED chan
      <4>1. HasFinal(r)' /\ OfferOf(r)' = last.result
        BY <2>3, <2>5, <3>1, <3>2 DEF HasFinal, OfferOf
      <4>2. QED
        BY <1>1, <1>3, <2>3, <3>1, <4>1, Stutters
    <3>3. CASE Receive(r)
      <4>1. /\ chan[r] \in Seq(Delivery) /\ chan[r] # <<>> /\ EndsWithFinal(chan[r])
            /\ chan'[r] = Tail(chan[r])
        BY <3>3 DEF Receive, TypeOK, FinalIsLast
      <4>2. CASE Head(chan[r]).type = "final"
        <5>1. chan'[r] = <<>> /\ Head(chan[r]) = last
          BY <4>1, <4>2, TailKeepsTheLast
        <5>2. outcome'[r] = last.result
          BY <3>3, <4>2, <5>1 DEF Receive, TypeOK
        <5>3. ~HasFinal(r)'
          BY <5>1, EmptyChannel DEF HasFinal
        <5>4. OfferOf(r)' = last.result
          BY <2>3, <2>5, <5>2, <5>3 DEF OfferOf
        <5>5. QED
          BY <1>1, <1>3, <2>3, <3>1, <5>4, Stutters
      <4>3. CASE Head(chan[r]).type # "final"
        <5>1. FinalIn(Tail(chan[r]))
          BY <3>1, <4>1, <4>3, TailOfChannel DEF HasFinal
        <5>2. chan'[r][Len(chan'[r])] = last /\ HasFinal(r)'
          BY <4>1, <5>1, TailKeepsTheLast, EmptyChannel DEF HasFinal
        <5>3. OfferOf(r)' = last.result
          BY <2>3, <2>5, <5>2 DEF OfferOf
        <5>4. QED
          BY <1>1, <1>3, <2>3, <3>1, <5>3, Stutters
      <4>4. QED
        BY <4>2, <4>3
    <3>4. QED
      BY <1>5, <3>2, <3>3 DEF LockWriter, WriteFrame, TimeOut, Cancel
  <2>6. QED
    BY <2>4, <2>5
<1>6. QED
  BY <1>4, <1>5

\* Registration opens a call on a free target and is refused on a busy one
\* (session.rs:209-222).
LEMMA RegisterMaps ==
    ASSUME IInv, NEW r \in Requests, Register(r)
    PROVE  Promise!Open(r) \/ Promise!Refuse(r)
<1> USE DEF IInv
<1>1. /\ pc[r] = "minted" /\ UNCHANGED <<call, chan>>
      /\ \A q \in Requests \ {r} : pc'[q] = pc[q] /\ outcome'[q] = outcome[q]
  BY DEF Register, TypeOK
<1>2. \A q \in Requests : Target(q)' = Target(q) /\ Target(q) \in Targets
  BY <1>1 DEF Target, TypeOK
<1>3. PhaseOf(r) = "idle" /\ OfferOf(r) = NoOutcome /\ Returned(r) = NoOutcome
  BY <1>1 DEF PhaseOf, OfferOf, Returned, Guarded, NoOutcome
<1>4. CASE SlotTaken(r)
  <2>1. /\ pc'[r] = "done" /\ outcome'[r] = Result("in_flight", Nobody) /\ UNCHANGED pending
    BY <1>4 DEF Register, TypeOK
  <2>2. \A q \in Requests : OwnsItsSlot(q)' <=> OwnsItsSlot(q)
    BY <1>2, <2>1 DEF OwnsItsSlot
  <2>3. \A q \in Requests \ {r} : /\ PhaseOf(q)' = PhaseOf(q)
                                  /\ OfferOf(q)' = OfferOf(q)
                                  /\ Returned(q)' = Returned(q)
    BY <1>1, <2>2, SameView
  <2>4. PhaseOf(r)' = "done" /\ OfferOf(r)' = NoOutcome
    BY <2>1 DEF PhaseOf, OfferOf, Guarded, NoOutcome
  <2>5. Returned(r)' = Result("in_flight", Nobody)
    BY <2>1 DEF Returned
  <2>6. PICK q \in Requests : q = pending[Target(r)].tx
    BY <1>2, <1>4 DEF SlotTaken, TypeOK, Slots
  <2>7. Guarded(q) /\ OwnsItsSlot(q) /\ Target(q) = Target(r)
    BY <1>2, <1>4, <2>6 DEF SlotTaken, SlotDiscipline, NoLeakedSlot, OwnsItsSlot
  <2>8. PhaseOf(q) = "open"
    BY <2>7, PhaseCases
  <2>9. QED
    BY <1>1, <1>3, <2>3, <2>4, <2>5, <2>7, <2>8, Refuses
<1>5. CASE ~SlotTaken(r)
  <2> DEFINE slot == [request_sid |-> call[r].sid, generation |-> generation[r], tx |-> r]
  <2>1. /\ pc'[r] = "locking" /\ UNCHANGED outcome
        /\ pending[Target(r)] = NoSlot
        /\ \A t \in Targets : pending'[t] = IF t = Target(r) THEN slot ELSE pending[t]
    BY <1>2, <1>5 DEF Register, TypeOK, SlotTaken
  <2>2. slot # NoSlot /\ slot.tx = r
    BY DEF TypeOK
  <2>3. \A q \in Requests \ {r} : OwnsItsSlot(q)' <=> OwnsItsSlot(q)
    BY <1>2, <2>1, <2>2 DEF OwnsItsSlot
  <2>4. \A q \in Requests \ {r} : /\ PhaseOf(q)' = PhaseOf(q)
                                  /\ OfferOf(q)' = OfferOf(q)
                                  /\ Returned(q)' = Returned(q)
    BY <1>1, <2>3, SameView
  <2>5. OwnsItsSlot(r)'
    BY <1>2, <2>1, <2>2 DEF OwnsItsSlot
  <2>6. PhaseOf(r)' = "open" /\ OfferOf(r)' = NoOutcome /\ Returned(r)' = NoOutcome
    BY <2>1, <2>5 DEF PhaseOf, OfferOf, Guarded, Returned, NoOutcome
  <2>7. ASSUME NEW q \in Requests, PhaseOf(q) = "open"
        PROVE  Target(q) # Target(r)
    BY <2>1, <2>7, PhaseCases DEF OwnsItsSlot
  <2>8. QED
    BY <1>1, <1>3, <2>4, <2>6, <2>7, Opens
<1>6. QED
  BY <1>4, <1>5

\* The drop of the guard ends the call: with what it was offered, or with the
\* failure it gave up for (session.rs:97-107).
LEMMA DropGuardMaps ==
    ASSUME IInv, Account, NEW r \in Requests, DropGuard(r)
    PROVE  Promise!Collect(r) \/ Promise!GiveUp(r)
<1> USE DEF IInv
<1>1. /\ pc[r] = "returning" /\ pc'[r] = "done" /\ UNCHANGED <<call, outcome>> /\ Guarded(r)
      /\ \A q \in Requests \ {r} : pc'[q] = pc[q] /\ chan'[q] = chan[q]
  BY DEF DropGuard, TypeOK, Guarded
<1>2. \A q \in Requests : Target(q)' = Target(q) /\ Target(q) \in Targets
  BY <1>1 DEF Target, TypeOK
<1>3. \A q \in Requests \ {r} : OwnsItsSlot(q)' <=> OwnsItsSlot(q)
  <2>1. pending' = IF OwnsItsSlot(r) THEN [pending EXCEPT ![Target(r)] = NoSlot] ELSE pending
    BY <1>1, GuardIsPrecise DEF DropGuard, OwnsItsSlot
  <2>2. ASSUME NEW q \in Requests \ {r}
        PROVE  OwnsItsSlot(q)' <=> OwnsItsSlot(q)
    <3>1. CASE OwnsItsSlot(r) /\ Target(q) = Target(r)
      BY <1>2, <2>1, <3>1 DEF OwnsItsSlot, TypeOK
    <3>2. CASE ~OwnsItsSlot(r) \/ Target(q) # Target(r)
      <4>1. pending'[Target(q)] = pending[Target(q)]
        BY <1>2, <2>1, <3>2 DEF TypeOK
      <4>2. QED
        BY <1>2, <4>1 DEF OwnsItsSlot
    <3>3. QED
      BY <3>1, <3>2
  <2>3. QED
    BY <2>2
<1>4. \A q \in Requests \ {r} : /\ PhaseOf(q)' = PhaseOf(q)
                                /\ OfferOf(q)' = OfferOf(q)
                                /\ Returned(q)' = Returned(q)
  BY <1>1, <1>3, SameView
<1>5. PhaseOf(r)' = "done" /\ OfferOf(r)' = NoOutcome /\ Returned(r)' = outcome[r]
  BY <1>1 DEF PhaseOf, OfferOf, Guarded, Returned, NoOutcome
<1>6. OwnsItsSlot(r) \/ HasFinal(r) => \E k \in Leaving : outcome[r] = Result(k, Nobody)
  BY <1>1 DEF Account, UnansweredGaveUp
<1>7. CASE OwnsItsSlot(r)
  <2>1. PhaseOf(r) = "open" /\ OfferOf(r) = NoOutcome
    BY <1>1, <1>7, PhaseCases DEF OfferOf, NoOutcome
  <2>2. QED
    BY <1>1, <1>4, <1>5, <1>6, <1>7, <2>1, Leaves
<1>8. CASE ~OwnsItsSlot(r)
  <2>1. PhaseOf(r) = "offered"
    BY <1>1, <1>8, PhaseCases
  <2>2. ~HasFinal(r) => outcome[r] = OfferOf(r)
    BY <2>1 DEF OfferOf
  <2>3. QED
    BY <1>1, <1>4, <1>5, <1>6, <2>1, <2>2, Leaves
<1>9. QED
  BY <1>7, <1>8

\* A routed frame is seen when it is a final response: it offers the open call of
\* its target what that target said (session.rs:299-341).
LEMMA RouteFrameMaps ==
    ASSUME IInv, Account, NEW t \in Targets, RouteFrame(t)
    PROVE  UNCHANGED Promise!vars \/ \E r \in Requests : Promise!Offer(r)
<1> USE DEF IInv
<1>1. UNCHANGED <<pc, call, outcome>> /\ outbox[t] \in Seq(Frames) /\ outbox[t] # <<>>
  BY DEF RouteFrame, TypeOK
<1>2. \A q \in Requests : Target(q)' = Target(q) /\ Target(q) \in Targets
  BY <1>1 DEF Target, TypeOK
<1>3. CASE UNCHANGED <<pending, chan>>
  <2>1. \A q \in Requests : OwnsItsSlot(q)' <=> OwnsItsSlot(q)
    BY <1>2, <1>3 DEF OwnsItsSlot
  <2>2. QED
    BY <1>1, <1>3, <2>1, SameView, Stutters
<1>4. CASE ~UNCHANGED <<pending, chan>>
  <2> DEFINE c == Head(outbox[t]).cause
  <2>1. PICK r \in Requests, d \in Delivered(t) :
          /\ d \in Delivery /\ Delivers(t, d)
          /\ Guarded(r) /\ Target(r) = t /\ OwnsItsSlot(r) /\ ~HasFinal(r)
          /\ SidOf(c) = call[r].sid /\ c \in Causes
          /\ chan[r] \in Seq(Delivery) /\ chan'[r] = Append(chan[r], d)
          /\ \A q \in Requests \ {r} : chan'[q] = chan[q]
    BY <1>4, RoutedTo
  <2>2. PhaseOf(r) = "open"
    BY <2>1, PhaseCases
  <2>3. pending' = IF d.type = "final" THEN [pending EXCEPT ![t] = NoSlot] ELSE pending
    BY <2>1 DEF Delivers
  <2>4. \A q \in Requests \ {r} : OwnsItsSlot(q)' <=> OwnsItsSlot(q)
    <3>1. \A q \in Requests \ {r} : Target(q) = t => ~OwnsItsSlot(q) /\ ~OwnsItsSlot(q)'
      BY <1>2, <2>1, <2>3 DEF OwnsItsSlot, TypeOK
    <3>2. \A q \in Requests \ {r} : Target(q) # t => pending'[Target(q)] = pending[Target(q)]
      BY <1>2, <2>3 DEF TypeOK
    <3>3. QED
      BY <1>2, <3>1, <3>2 DEF OwnsItsSlot
  <2>5. \A q \in Requests \ {r} : /\ PhaseOf(q)' = PhaseOf(q)
                                  /\ OfferOf(q)' = OfferOf(q)
                                  /\ Returned(q)' = Returned(q)
    BY <1>1, <2>1, <2>4, SameView
  <2>6. Returned(r)' = Returned(r) /\ Guarded(r)'
    BY <1>1, <2>1 DEF Returned, Guarded
  <2>7. CASE d.type # "final"
    <3>1. OwnsItsSlot(r)'
      BY <1>2, <2>1, <2>3, <2>7 DEF OwnsItsSlot
    <3>2. PhaseOf(r)' = "open"
      BY <2>6, <3>1 DEF PhaseOf, Guarded
    <3>3. OfferOf(r)' = OfferOf(r)
      BY <2>2, <3>2 DEF OfferOf
    <3>4. QED
      BY <1>1, <2>2, <2>5, <2>6, <3>2, <3>3, Stutters
  <2>8. CASE d.type = "final"
    <3>1. PICK k \in {"ok", "negative"} : d = Final(Result(k, c))
      BY <2>1, <2>8 DEF Delivered, Pending
    <3>2. ~OwnsItsSlot(r)'
      BY <1>2, <2>1, <2>3, <2>8 DEF OwnsItsSlot, TypeOK
    <3>3. PhaseOf(r)' = "offered"
      BY <2>6, <3>2 DEF PhaseOf, Guarded
    <3>4. chan'[r][Len(chan'[r])] = d /\ HasFinal(r)'
      <4>1. Append(chan[r], d)[Len(Append(chan[r], d))] = d
        BY <2>1
      <4>2. FinalIn(Append(chan[r], d))
        BY <2>1, <2>8, AppendToChannel
      <4>3. QED
        BY <2>1, <4>1, <4>2 DEF HasFinal
    <3>5. OfferOf(r)' = Result(k, c)
      BY <3>1, <3>3, <3>4 DEF OfferOf, Final
    <3>6. TargetOf(c) = t
      BY <1>1, TailOfQueue DEF WireIsAddressed
    <3>7. c \in Requests => PhaseOf(c) # "idle"
      <4>1. Spoke(c)
        BY <1>1, TailOfQueue DEF Account, CausesHaveSpoken
      <4>2. QED
        BY <4>1, PhaseCases DEF Spoke, Sent
    <3>8. QED
      BY <1>1, <2>1, <2>2, <2>5, <2>6, <3>3, <3>5, <3>6, <3>7, Offers
  <2>9. QED
    BY <2>7, <2>8
<1>5. QED
  BY <1>3, <1>4

\* The end of the reader fails every open call at once (session.rs:156-164).
LEMMA ReaderEndsMaps ==
    ASSUME IInv, ReaderEnds
    PROVE  Promise!CloseAll
<1> USE DEF IInv
<1>1. UNCHANGED <<pc, call, outcome>>
  BY DEF ReaderEnds
<1>2. ASSUME NEW q \in Requests
      PROVE  /\ PhaseOf(q)' = IF PhaseOf(q) = "open" THEN "offered" ELSE PhaseOf(q)
             /\ OfferOf(q)' = IF PhaseOf(q) = "open" THEN Result("closed", Nobody) ELSE OfferOf(q)
             /\ Returned(q)' = Returned(q)
  <2>1. CASE PhaseOf(q) # "open" /\ ~OwnsItsSlot(q)
    BY <1>1, <2>1, DrainStep, SameView
  <2>2. CASE PhaseOf(q) = "open"
    <3> DEFINE d == Final(Result("closed", Nobody))
    <3>1. Guarded(q) /\ OwnsItsSlot(q)
      BY <2>2, PhaseCases
    <3>2. /\ chan'[q] = Append(chan[q], d) /\ ~OwnsItsSlot(q)'
          /\ chan[q] \in Seq(Delivery) /\ d \in Delivery
      BY <3>1, DrainStep, ResultTyping DEF TypeOK
    <3>3. PhaseOf(q)' = "offered"
      BY <1>1, <3>1, <3>2 DEF PhaseOf, Guarded
    <3>4. Append(chan[q], d)[Len(Append(chan[q], d))] = d /\ d.type = "final"
      BY <3>2 DEF Final
    <3>5. HasFinal(q)'
      BY <3>2, <3>4, AppendToChannel DEF HasFinal
    <3>6. OfferOf(q)' = Result("closed", Nobody)
      BY <3>2, <3>3, <3>4, <3>5 DEF OfferOf, Final
    <3>7. Returned(q)' = Returned(q)
      BY <1>1 DEF Returned
    <3>8. QED
      BY <2>2, <3>3, <3>6, <3>7
  <2>3. PhaseOf(q) # "open" => ~OwnsItsSlot(q)
    BY DrainStep, PhaseCases
  <2>4. QED
    BY <2>1, <2>2, <2>3
<1>3. QED
  BY <1>1, <1>2, ClosesAll

\* The session starts with every call idle.
LEMMA RefinesInit == Init => Promise!Init
<1> SUFFICES ASSUME Init PROVE Promise!Init
  OBVIOUS
<1>1. \A r \in Requests : pc[r] = "idle"
  BY DEF Init
<1>2. \A r \in Requests : PhaseOf(r) = "idle"
  BY <1>1 DEF PhaseOf, Guarded
<1>3. \A r \in Requests : OfferOf(r) = NoOutcome
  BY <1>2 DEF OfferOf, NoOutcome
<1>4. QED
  BY <1>1, <1>2, <1>3 DEF Init, Promise!Init, Promise!NoResult, NoOutcome, Result

\* Every step of the session is a step of Exchange, or none.
LEMMA RefinesStep ==
    ASSUME IInv, Account, TypeOK', [Next]_vars
    PROVE  [Promise!Next]_(Promise!vars)
<1>1. CASE UNCHANGED <<pc, call, chan, outcome, pending>>
  <2>1. \A q \in Requests : OwnsItsSlot(q)' <=> OwnsItsSlot(q)
    BY <1>1 DEF OwnsItsSlot, Target
  <2>2. QED
    BY <1>1, <2>1, SameView, Stutters
<1>2. ASSUME NEW r \in Requests, RequestStep(r)
      PROVE  [Promise!Next]_(Promise!vars)
  BY <1>2, FutureStutters, RegisterMaps, DropGuardMaps DEF RequestStep, Promise!Next
<1>3. ASSUME NEW t \in Targets, RouteFrame(t)
      PROVE  [Promise!Next]_(Promise!vars)
  BY <1>3, RouteFrameMaps DEF Promise!Next
<1>4. CASE ReaderEnds
  BY <1>4, ReaderEndsMaps DEF Promise!Next
<1>5. ASSUME \/ \E t \in Targets : EcuBusy(t) \/ EcuFinishes(t)
             \/ KeepaliveTick \/ KeepaliveWrite \/ DropSession \/ LinkDown \/ Closed
             \/ UNCHANGED vars
      PROVE  UNCHANGED <<pc, call, chan, outcome, pending>>
  BY <1>5 DEF EcuBusy, EcuFinishes, KeepaliveTick, KeepaliveWrite, DropSession, LinkDown,
              Closed, vars, futureVars
<1>6. QED
  BY <1>1, <1>2, <1>3, <1>4, <1>5 DEF Next, TargetStep

\* The session implements Exchange: exclusive targets, no answer from another ECU
\* or service, none out of nothing, and a failure for every call that gets none
\* (session.rs:12-28, 199-341).
THEOREM SessionImplementsExchange == Spec => ImplementsExchange
<1>1. IInv => TypeOK
  BY DEF IInv
<1>2. QED
  BY <1>1, RefinesInit, RefinesStep, Inductive, AccountIsKept, PTL
     DEF Spec, ImplementsExchange, Promise!Spec

-----------------------------------------------------------------------------
(***************************************************************************)
(* Whose answer it is.                                                     *)
(***************************************************************************)

\* A request that has not written its frame is not on the wire.
LEMMA NotYetOnTheWire ==
    ASSUME CausesHaveSpoken, NEW t \in Targets, NEW r \in Requests, pc[r] \notin Sent
    PROVE  ~OnTheWire(t, r)
BY DEF CausesHaveSpoken, Spoke, OnTheWire

\* A request comes on the wire when its frame is written, and only then.
LEMMA OnTheWireStep ==
    ASSUME TypeOK, [Next]_vars, NEW t \in Targets, NEW r \in Requests, OnTheWire(t, r)'
    PROVE  OnTheWire(t, r) \/ Written(r)
<1>1. ASSUME NEW i \in DOMAIN inbox'[t], inbox'[t][i] = r
      PROVE  OnTheWire(t, r) \/ Written(r)
  BY <1>1, InboxSources DEF OnTheWire
<1>2. ASSUME NEW i \in DOMAIN outbox'[t], outbox'[t][i].cause = r
      PROVE  OnTheWire(t, r)
  BY <1>2, OutboxSources DEF OnTheWire
<1>3. QED
  BY <1>1, <1>2 DEF OnTheWire

\* Queueing a frame that is not on the wire.
LEMMA EndsAfterWrite ==
    ASSUME NEW in \in Seq(Causes), NEW out \in Seq(Frames), EndsReplies(in, out),
           NEW c \in Causes,
           c \in Requests => /\ \A i \in DOMAIN in : in[i] # c
                             /\ \A i \in DOMAIN out : out[i].cause # c
    PROVE  EndsReplies(Append(in, c), out)
<1> DEFINE new == Append(in, c)
<1>1. /\ DOMAIN new = 1 .. Len(in) + 1 /\ DOMAIN in = 1 .. Len(in) /\ Len(in) \in Nat
      /\ new[Len(in) + 1] = c /\ \A i \in 1 .. Len(in) : new[i] = in[i]
  OBVIOUS
<1> HIDE DEF new
<1>2. \A i \in DOMAIN new : i = Len(in) + 1 \/ i \in DOMAIN in
  BY <1>1
<1>3. \A i, j \in DOMAIN new : new[i] = new[j] /\ new[i] \in Requests => i = j
  BY <1>1, <1>2 DEF EndsReplies
<1>4. ASSUME NEW i \in DOMAIN out, out[i].kind # "response_pending", out[i].cause \in Requests
      PROVE  \A j \in DOMAIN new : new[j] # out[i].cause
  BY <1>1, <1>2, <1>4 DEF EndsReplies
<1>5. QED
  BY <1>3, <1>4 DEF EndsReplies, new

\* Handling the head of the queue: a reply to it, the last one if the head leaves.
LEMMA EndsAfterReply ==
    ASSUME NEW in \in Seq(Causes), NEW out \in Seq(Frames), EndsReplies(in, out), in # <<>>,
           NEW f \in Frames, f.cause = Head(in)
    PROVE  /\ f.kind = "response_pending" => EndsReplies(in, Append(out, f))
           /\ EndsReplies(Tail(in), Append(out, f))
           /\ EndsReplies(Tail(in), out)
<1> DEFINE new == Append(out, f)
           rest == Tail(in)
<1>1. /\ DOMAIN new = 1 .. Len(out) + 1 /\ DOMAIN out = 1 .. Len(out) /\ Len(out) \in Nat
      /\ new[Len(out) + 1] = f /\ \A i \in 1 .. Len(out) : new[i] = out[i]
  OBVIOUS
<1>2. /\ 1 \in DOMAIN in /\ Head(in) = in[1]
      /\ \A i \in DOMAIN rest : i \in Nat \ {0} /\ i + 1 \in DOMAIN in /\ rest[i] = in[i + 1]
  OBVIOUS
<1> HIDE DEF new, rest
<1>3. \A i \in DOMAIN new : i = Len(out) + 1 \/ i \in DOMAIN out
  BY <1>1
<1>4. \A i, j \in DOMAIN rest : rest[i] = rest[j] /\ rest[i] \in Requests => i = j
  <2> SUFFICES ASSUME NEW i \in DOMAIN rest, NEW j \in DOMAIN rest,
                      rest[i] = rest[j], rest[i] \in Requests
               PROVE  i = j
    OBVIOUS
  <2>1. i + 1 = j + 1
    BY <1>2 DEF EndsReplies
  <2>2. QED
    BY <1>2, <2>1
<1>5. ASSUME Head(in) \in Requests
      PROVE  \A j \in DOMAIN rest : rest[j] # Head(in)
  <2> SUFFICES ASSUME NEW j \in DOMAIN rest, rest[j] = Head(in) PROVE FALSE
    OBVIOUS
  <2>1. j + 1 = 1
    BY <1>2, <1>5 DEF EndsReplies
  <2>2. QED
    BY <1>2, <2>1
<1>6. ASSUME NEW i \in DOMAIN out, out[i].kind # "response_pending", out[i].cause \in Requests
      PROVE  /\ \A j \in DOMAIN rest : rest[j] # out[i].cause
             /\ f.cause # out[i].cause
             /\ \A j \in DOMAIN new : new[j].cause = out[i].cause => j <= i
  <2>1. /\ \A j \in DOMAIN in : in[j] # out[i].cause
        /\ \A j \in DOMAIN out : out[j].cause = out[i].cause => j <= i
    BY <1>6 DEF EndsReplies
  <2>2. QED
    BY <1>1, <1>2, <1>3, <2>1
<1>7. EndsReplies(rest, out)
  BY <1>4, <1>6 DEF EndsReplies
<1>8. ASSUME f.kind = "response_pending"
      PROVE  EndsReplies(in, new)
  BY <1>1, <1>3, <1>6, <1>8 DEF EndsReplies
<1>9. EndsReplies(rest, new)
  <2> SUFFICES ASSUME NEW i \in DOMAIN new,
                      new[i].kind # "response_pending", new[i].cause \in Requests
               PROVE  /\ \A j \in DOMAIN rest : rest[j] # new[i].cause
                      /\ \A j \in DOMAIN new : new[j].cause = new[i].cause => j <= i
    BY <1>4 DEF EndsReplies
  <2>1. CASE i \in DOMAIN out
    BY <1>1, <1>6, <2>1
  <2>2. CASE i = Len(out) + 1
    <3>1. \A j \in DOMAIN new : j <= i
      BY <1>1, <2>2
    <3>2. QED
      BY <1>1, <1>5, <2>2, <3>1
  <2>3. QED
    BY <1>3, <2>1, <2>2
<1>10. QED
  BY <1>7, <1>8, <1>9 DEF new, rest

\* Reading the first reply.
LEMMA EndsAfterRead ==
    ASSUME NEW in \in Seq(Causes), NEW out \in Seq(Frames), EndsReplies(in, out), out # <<>>
    PROVE  EndsReplies(in, Tail(out))
<1> DEFINE rest == Tail(out)
<1>1. \A i \in DOMAIN rest : i \in Nat /\ i + 1 \in DOMAIN out /\ rest[i] = out[i + 1]
  OBVIOUS
<1> HIDE DEF rest
<1>2. ASSUME NEW i \in DOMAIN rest, rest[i].kind # "response_pending", rest[i].cause \in Requests
      PROVE  /\ \A j \in DOMAIN in : in[j] # rest[i].cause
             /\ \A j \in DOMAIN rest : rest[j].cause = rest[i].cause => j <= i
  <2>1. /\ \A j \in DOMAIN in : in[j] # out[i + 1].cause
        /\ \A j \in DOMAIN out : out[j].cause = out[i + 1].cause => j <= i + 1
    BY <1>1, <1>2 DEF EndsReplies
  <2>2. ASSUME NEW j \in DOMAIN rest, rest[j].cause = rest[i].cause
        PROVE  j <= i
    <3>1. j + 1 <= i + 1
      BY <1>1, <2>1, <2>2
    <3>2. QED
      BY <1>1, <3>1
  <2>3. QED
    BY <1>1, <2>1, <2>2
<1>3. QED
  BY <1>2 DEF EndsReplies, rest

\* An ECU handles a request once and is done with it after the final reply.
LEMMA RepliesEndStep ==
    ASSUME TypeOK, CausesHaveSpoken, RepliesEnd, [Next]_vars
    PROVE  RepliesEnd'
<1> SUFFICES ASSUME NEW t \in Targets
             PROVE  EndsReplies(inbox'[t], outbox'[t])
  BY DEF RepliesEnd, EndsReplies
<1>1. /\ inbox[t] \in Seq(Causes) /\ outbox[t] \in Seq(Frames)
      /\ EndsReplies(inbox[t], outbox[t])
  BY DEF TypeOK, RepliesEnd
<1>2. CASE inbox'[t] = inbox[t] /\ outbox'[t] = outbox[t]
  BY <1>1, <1>2
<1>3. ASSUME NEW c \in Causes, Transmit(c), c \in Requests => pc[c] = "writing"
      PROVE  EndsReplies(inbox'[t], outbox'[t])
  <2>1. \/ inbox'[t] = inbox[t]
        \/ inbox'[t] = Append(inbox[t], c)
    BY <1>3 DEF Transmit, TypeOK
  <2>2. c \in Requests => ~OnTheWire(t, c)
    BY <1>3, NotYetOnTheWire DEF Sent
  <2>3. c \in Requests => /\ \A i \in DOMAIN inbox[t] : inbox[t][i] # c
                          /\ \A i \in DOMAIN outbox[t] : outbox[t][i].cause # c
    BY <2>2 DEF OnTheWire
  <2>4. UNCHANGED outbox
    BY <1>3 DEF Transmit
  <2>5. EndsReplies(Append(inbox[t], c), outbox[t])
    BY <1>1, <2>3, EndsAfterWrite
  <2>6. QED
    BY <1>1, <2>1, <2>4, <2>5
<1>4. CASE \E r \in Requests : WriteFrame(r) /\ Transmit(r) /\ pc' = [pc EXCEPT ![r] = "waiting"]
  BY <1>3, <1>4 DEF WriteFrame, Causes
<1>5. CASE Transmit(Keepalive)
  BY <1>3, <1>5 DEF Causes
<1>6. ASSUME NEW u \in Targets, EcuBusy(u) \/ EcuFinishes(u)
      PROVE  EndsReplies(inbox'[t], outbox'[t])
  <2>1. CASE t # u
    <3>1. inbox'[t] = inbox[t] /\ outbox'[t] = outbox[t]
      BY <1>6, <2>1 DEF EcuBusy, EcuFinishes, EcuSends, TypeOK
    <3>2. QED
      BY <1>2, <3>1
  <2>2. CASE t = u
    <3> DEFINE f(kind) == [kind |-> kind, cause |-> Head(inbox[t])]
    <3>1. inbox[t] # <<>>
      BY <1>6, <2>2 DEF EcuBusy, EcuFinishes
    <3>2. Head(inbox[t]) \in Causes
      BY <1>1, <3>1
    <3>3. \A kind \in {"positive", "negative", "response_pending", "other"} :
            f(kind) \in Frames /\ f(kind).cause = Head(inbox[t]) /\ f(kind).kind = kind
      BY <3>2 DEF Frames
    <3>4. CASE EcuBusy(u)
      <4>1. inbox'[t] = inbox[t] /\ outbox'[t] = Append(outbox[t], f("response_pending"))
        BY <2>2, <3>4 DEF EcuBusy, EcuSends, TypeOK
      <4>2. QED
        BY <1>1, <3>1, <3>3, <4>1, EndsAfterReply
    <3>5. CASE EcuFinishes(u)
      <4>1. inbox'[t] = Tail(inbox[t])
        BY <2>2, <3>5 DEF EcuFinishes, TypeOK
      <4>2. \/ outbox'[t] = outbox[t]
            \/ \E kind \in {"positive", "negative", "other"} : outbox'[t] = Append(outbox[t], f(kind))
        <5>1. UNCHANGED outbox \/ \E kind \in {"positive", "negative", "other"} : EcuSends(t, kind)
          BY <2>2, <3>5 DEF EcuFinishes
        <5>2. QED
          BY <5>1 DEF EcuSends, TypeOK
      <4>3. CASE outbox'[t] = outbox[t]
        BY <1>1, <3>1, <3>3, <4>1, <4>3, EndsAfterReply
      <4>4. ASSUME NEW kind \in {"positive", "negative", "other"},
                   outbox'[t] = Append(outbox[t], f(kind))
            PROVE  EndsReplies(inbox'[t], outbox'[t])
        BY <1>1, <3>1, <3>3, <4>1, <4>4, EndsAfterReply
      <4>5. QED
        BY <4>2, <4>3, <4>4
    <3>6. QED
      BY <1>6, <3>4, <3>5
  <2>3. QED
    BY <2>1, <2>2
<1>7. ASSUME NEW u \in Targets, RouteFrame(u)
      PROVE  EndsReplies(inbox'[t], outbox'[t])
  <2>1. /\ inbox'[t] = inbox[t]
        /\ outbox'[t] = outbox[t] \/ (outbox[t] # <<>> /\ outbox'[t] = Tail(outbox[t]))
    BY <1>7 DEF RouteFrame, TypeOK
  <2>2. QED
    BY <1>1, <2>1, EndsAfterRead
<1>8. QED
  BY <1>2, <1>4, <1>5, <1>6, <1>7, WireMoves

\* An outcome, once decided, stays (session.rs:245-259).
LEMMA OutcomeStays ==
    ASSUME TypeOK, UndecidedHasNoOutcome, [Next]_vars, NEW r \in Requests,
           outcome[r] # NoOutcome
    PROVE  outcome'[r] = outcome[r]
<1>1. pc[r] \in {"returning", "done"}
  BY DEF TypeOK, PCs, UndecidedHasNoOutcome
<1>2. ASSUME NEW q \in Requests, RequestStep(q)
      PROVE  outcome'[r] = outcome[r]
  BY <1>1, <1>2 DEF RequestStep, Mint, Register, LockWriter, WriteFrame, Receive, TimeOut,
                    Cancel, DropGuard, TypeOK
<1>3. QED
  BY <1>2, FutureStep

\* The delivery that carries a response of k is the last of its channel.
LEMMA ResponsesAreLast ==
    ASSUME TypeOK, FinalIsLast, DeliveriesAreSound, NEW r \in Requests, NEW i \in DOMAIN chan[r],
           chan[r][i] # Pending
    PROVE  /\ HasFinal(r) /\ i = Len(chan[r]) /\ chan[r][i].type = "final"
           /\ chan[r][i].result.kind \in {"ok", "negative", "closed"}
<1>1. Sound(chan[r][i])
  BY DEF DeliveriesAreSound
<1>2. chan[r][i].type = "final" /\ chan[r][i].result.kind \in {"ok", "negative", "closed"}
  <2>1. CASE \E k \in {"ok", "negative"}, c \in Causes : chan[r][i] = Final(Result(k, c))
    <3>1. PICK k \in {"ok", "negative"}, c \in Causes : chan[r][i] = Final(Result(k, c))
      BY <2>1
    <3>2. QED
      BY <3>1 DEF Final, Result
  <2>2. CASE chan[r][i] = Final(Result("closed", Nobody))
    BY <2>2 DEF Final, Result
  <2>3. QED
    BY <1>1, <2>1, <2>2 DEF Sound
<1>3. QED
  BY <1>2 DEF HasFinal, FinalIn, FinalIsLast, EndsWithFinal

\* Nothing is sent behind a final delivery, and only its request takes it.
LEMMA LastStays ==
    ASSUME TypeOK, SlotDiscipline, FinalIsLast, [Next]_vars, NEW r \in Requests,
           HasFinal(r), ~DropGuard(r)
    PROVE  \/ /\ Receive(r) /\ Head(chan[r]).type = "final"
              /\ Head(chan[r]) = chan[r][Len(chan[r])]
           \/ \E j \in DOMAIN chan'[r] : chan'[r][j] = chan[r][Len(chan[r])]
<1>1. chan[r] \in Seq(Delivery) /\ chan[r] # <<>> /\ EndsWithFinal(chan[r])
  BY EmptyChannel DEF TypeOK, FinalIsLast, HasFinal
<1>2. Len(chan[r]) \in DOMAIN chan[r]
  BY <1>1
<1>3. CASE chan'[r] = chan[r]
  BY <1>2, <1>3
<1>4. ASSUME NEW q \in Requests, Register(q) \/ Receive(q) \/ DropGuard(q), chan'[r] # chan[r]
      PROVE  Receive(r) /\ chan'[r] = Tail(chan[r])
  <2>1. q = r
    BY <1>4 DEF Register, Receive, DropGuard, TypeOK
  <2>2. Receive(r)
    BY <1>4, <2>1 DEF Register
  <2>3. QED
    BY <2>2 DEF Receive, TypeOK
<1>5. CASE Receive(r) /\ chan'[r] = Tail(chan[r])
  <2>1. CASE Head(chan[r]).type = "final"
    BY <1>1, <1>5, <2>1, TailKeepsTheLast
  <2>2. CASE Head(chan[r]).type # "final"
    <3>1. Tail(chan[r]) # <<>> /\ Tail(chan[r]) \in Seq(Delivery)
      <4>1. FinalIn(Tail(chan[r]))
        BY <1>1, <2>2, TailOfChannel DEF HasFinal
      <4>2. Tail(chan[r]) # <<>>
        BY <4>1, EmptyChannel
      <4>3. QED
        BY <1>1, <4>2
    <3>2. Len(Tail(chan[r])) \in DOMAIN Tail(chan[r])
      BY <3>1
    <3>3. QED
      BY <1>1, <1>5, <3>1, <3>2, TailKeepsTheLast
  <2>3. QED
    BY <2>1, <2>2
<1>6. ASSUME NEW t \in Targets, RouteFrame(t)
      PROVE  chan'[r] = chan[r]
  BY <1>6, RoutedTo
<1>7. CASE ReaderEnds
  BY <1>3, <1>7, DrainStep
<1>8. QED
  BY <1>3, <1>4, <1>5, <1>6, <1>7, TableStep

\* A request that went without its own answer never gets it.
LEMMA LostForGood ==
    ASSUME IInv, Account, [Next]_vars, NEW b \in Requests, Lost(b)
    PROVE  Lost(b)'
<1> USE DEF IInv, Account
<1>1. CASE outcome[b].kind \in {"timeout", "cancelled"}
  <2>1. outcome[b] # NoOutcome
    BY <1>1 DEF NoOutcome, Result
  <2>2. QED
    BY <1>1, <2>1, OutcomeStays DEF Lost
<1>2. CASE outcome[b].kind \notin {"timeout", "cancelled"}
  <2>1. pc[b] \in Sent /\ outcome[b].kind # "io_error" /\ pc'[b] \in Sent
    BY <1>2, SentForGood DEF Lost
  <2>2. CASE outcome[b].cause = Keepalive
    <3>1. outcome[b] # NoOutcome
      BY <2>2 DEF NoOutcome, Result
    <3>2. outcome'[b] = outcome[b]
      BY <3>1, OutcomeStays
    <3>3. QED
      BY <2>1, <2>2, <3>2 DEF Lost, ResultsOf
  <2>3. CASE outcome[b].cause # Keepalive
    <3>1. PICK i \in DOMAIN chan[b] : chan[b][i].result.cause = Keepalive
      BY <1>2, <2>3 DEF Lost, ResultsOf
    <3>2. chan[b] \in Seq(Delivery) /\ chan[b] # <<>> /\ EndsWithFinal(chan[b])
      BY <3>1 DEF TypeOK, FinalIsLast
    <3>3. /\ HasFinal(b) /\ i = Len(chan[b]) /\ chan[b][i].type = "final"
          /\ chan[b][i].result.kind # "io_error"
      BY <3>1, ResponsesAreLast DEF Pending, Result
    <3>4. Guarded(b) /\ pc[b] # "returning"
      <4>1. Guarded(b)
        BY <3>2 DEF SlotDiscipline, QuietOutsideGuard
      <4>2. pc[b] = "returning" => outcome[b].kind \in Leaving
        BY <3>3 DEF UnansweredGaveUp, Result
      <4>3. QED
        BY <1>2, <2>1, <4>1, <4>2 DEF Leaving
    <3>5. pc[b] = "waiting"
      BY <2>1, <3>4 DEF Sent, Guarded
    <3>6. CASE pc'[b] = pc[b] /\ outcome'[b] = outcome[b] /\ \E j \in DOMAIN chan'[b] : chan'[b][j] = chan[b][i]
      BY <2>1, <3>1, <3>6 DEF Lost, ResultsOf
    <3>7. CASE outcome'[b].kind \in {"timeout", "cancelled"}
      BY <3>7 DEF Lost
    <3>8. CASE outcome'[b] = chan[b][i].result
      BY <2>1, <3>1, <3>3, <3>8 DEF Lost, ResultsOf
    <3>9. CASE pc'[b] = pc[b] /\ outcome'[b] = outcome[b] /\ ~Receive(b)
      <4>1. ~DropGuard(b)
        BY <3>5 DEF DropGuard
      <4>2. QED
        BY <3>3, <3>6, <3>9, <4>1, LastStays
    <3>10. CASE Receive(b)
      <4>1. ~DropGuard(b)
        BY <3>5 DEF DropGuard
      <4>2. CASE Head(chan[b]).type = "final" /\ Head(chan[b]) = chan[b][i]
        BY <3>8, <3>10, <4>2 DEF Receive, TypeOK
      <4>3. CASE Head(chan[b]).type # "final"
        <5>1. \/ pc'[b] = pc[b] /\ outcome'[b] = outcome[b]
              \/ outcome'[b] = Result("timeout", Nobody)
          BY <3>10, <4>3 DEF Receive, TypeOK
        <5>2. \E j \in DOMAIN chan'[b] : chan'[b][j] = chan[b][i]
          BY <3>3, <4>1, <4>3, LastStays
        <5>3. QED
          BY <3>6, <3>7, <5>1, <5>2 DEF Result
      <4>4. QED
        BY <3>2, <4>2, <4>3, TailKeepsTheLast, <3>3
    <3>11. ASSUME NEW q \in Requests, RequestStep(q)
           PROVE  \/ pc'[b] = pc[b] /\ outcome'[b] = outcome[b]
                  \/ Receive(b)
                  \/ outcome'[b].kind \in {"timeout", "cancelled"}
      <4>1. CASE q # b
        BY <3>11, <4>1 DEF RequestStep, Mint, Register, LockWriter, WriteFrame, Receive, TimeOut,
                           Cancel, DropGuard, TypeOK
      <4>2. CASE q = b
        <5>1. Receive(b) \/ TimeOut(b) \/ Cancel(b)
          BY <3>5, <3>11, <4>2 DEF RequestStep, Mint, Register, LockWriter, WriteFrame, DropGuard
        <5>2. TimeOut(b) => outcome'[b] = Result("timeout", Nobody)
          BY DEF TimeOut, TypeOK
        <5>3. Cancel(b) => outcome'[b] = Result("cancelled", Nobody)
          BY DEF Cancel, TypeOK
        <5>4. QED
          BY <5>1, <5>2, <5>3 DEF Result
      <4>3. QED
        BY <4>1, <4>2
    <3>12. QED
      BY <3>7, <3>9, <3>10, <3>11, FutureStep
  <2>4. QED
    BY <2>2, <2>3
<1>3. QED
  BY <1>1, <1>2

\* A frame that frees a slot is a final reply.
LEMMA FinalFrames ==
    ASSUME NEW t \in Targets, RouteFrame(t), Head(outbox[t]).kind = "response_pending"
    PROVE  UNCHANGED pending
BY DEF RouteFrame

\* While every request to t for s takes its own answer, what is routed there
\* was drawn by the keepalive, or is the last reply to the request itself.
LEMMA RoutedIsOwn ==
    ASSUME IInv, Account, RepliesEnd, FaithfulIsOwn,
           NEW t \in Targets, RouteFrame(t), NEW r \in Requests, NEW d \in Delivered(t),
           Delivers(t, d), Target(r) = t, OwnsItsSlot(r), Faithful(t, call[r].sid),
           SidOf(Head(outbox[t]).cause) = call[r].sid
    PROVE  /\ Head(outbox[t]).cause \in {r, Keepalive}
           /\ d.type = "final" /\ Head(outbox[t]).cause = r => ~OnTheWire(t, r)'
<1> DEFINE c == Head(outbox[t]).cause
<1> USE DEF IInv
<1>1. /\ outbox[t] \in Seq(Frames) /\ outbox[t] # <<>> /\ reader = "running"
      /\ outbox'[t] = Tail(outbox[t]) /\ inbox'[t] = inbox[t]
  BY DEF RouteFrame, TypeOK
<1>2. 1 \in DOMAIN outbox[t] /\ Head(outbox[t]) = outbox[t][1] /\ Head(outbox[t]) \in Frames
  BY <1>1
<1>3. c \in Causes /\ TargetOf(c) = t
  BY <1>2 DEF Frames, WireIsAddressed
<1>4. ASSUME c \in Requests
      PROVE  c = r
  <2>1. Target(c) = t /\ call[c].sid = call[r].sid /\ OnTheWire(t, c)
    BY <1>2, <1>3, <1>4 DEF TargetOf, SidOf, Target, OnTheWire
  <2>2. pc[c] = "waiting" /\ ~HasFinal(c)
    <3>1. call[r].sid \in Sids
      BY DEF TypeOK
    <3>2. QED
      BY <1>1, <1>4, <2>1, <3>1 DEF FaithfulIsOwn
  <2>3. pending[Target(c)].tx = c
    BY <1>4, <2>2 DEF SlotDiscipline, WaiterHoldsItsSlot
  <2>4. QED
    BY <2>1, <2>3 DEF OwnsItsSlot
<1>5. ASSUME d.type = "final", c = r
      PROVE  ~OnTheWire(t, r)'
  <2>1. pending' # pending
    BY <1>5 DEF Delivers, TypeOK, OwnsItsSlot
  <2>2. Head(outbox[t]).kind # "response_pending"
    BY <2>1, FinalFrames
  <2>3. /\ \A j \in DOMAIN inbox[t] : inbox[t][j] # r
        /\ \A j \in DOMAIN outbox[t] : outbox[t][j].cause = r => j <= 1
    BY <1>2, <1>5, <2>2 DEF RepliesEnd, EndsReplies
  <2>4. \A j \in DOMAIN Tail(outbox[t]) :
           j \in Nat \ {0} /\ j + 1 \in DOMAIN outbox[t] /\ Tail(outbox[t])[j] = outbox[t][j + 1]
    BY <1>1
  <2>5. \A j \in DOMAIN Tail(outbox[t]) : Tail(outbox[t])[j].cause # r
    BY <2>3, <2>4
  <2>6. QED
    BY <1>1, <2>3, <2>5 DEF OnTheWire
<1>6. QED
  BY <1>3, <1>4, <1>5 DEF Causes

\* As long as every request to an ECU for a service takes its own answer, each
\* waits for the replies that are still under way, and each answer is its own
\* or the keepalive's.
LEMMA FaithfulStep ==
    ASSUME IInv, Account, RepliesEnd, FaithfulIsOwn, [Next]_vars, TypeOK'
    PROVE  FaithfulIsOwn'
<1> USE DEF IInv
<1>1. SUFFICES ASSUME NEW t \in Targets, NEW r \in Requests, Target(r) = t,
                      Faithful(t, call[r].sid)'
               PROVE  /\ reader' = "running" /\ OnTheWire(t, r)' => pc'[r] = "waiting" /\ ~HasFinal(r)'
                      /\ \A result \in ResultsOf(r)' :
                            result.kind \in {"ok", "negative"} => result.cause \in {r, Keepalive}
  <2>1. UNCHANGED call /\ \A q \in Requests : Target(q)' = Target(q)
    BY CallsFixed DEF Target
  <2>2. QED
    BY <2>1 DEF FaithfulIsOwn
<1> DEFINE s == call[r].sid
<1>2. /\ UNCHANGED call /\ s \in Sids
      /\ \A q \in Requests : Target(q)' = Target(q)
  BY CallsFixed DEF Target, TypeOK
<1>3. \A b \in Requests : Target(b) = t /\ call[b].sid = s => ~Lost(b) /\ ~Lost(b)'
  BY <1>1, <1>2, LostForGood DEF Faithful
<1>4. Faithful(t, s)
  BY <1>3 DEF Faithful
<1>5. /\ reader = "running" /\ OnTheWire(t, r) => pc[r] = "waiting" /\ ~HasFinal(r)
      /\ \A result \in ResultsOf(r) :
            result.kind \in {"ok", "negative"} => result.cause \in {r, Keepalive}
  BY <1>1, <1>2, <1>4 DEF FaithfulIsOwn
<1>6. ~Lost(r)'
  BY <1>1, <1>2, <1>3
<1>7. ASSUME NEW result \in ResultsOf(r)', result.kind \in {"ok", "negative"}
      PROVE  result.cause \in {r, Keepalive}
  <2>1. ASSUME NEW i \in DOMAIN chan'[r], result = chan'[r][i].result
        PROVE  result.cause \in {r, Keepalive}
    <3>1. CASE \E j \in DOMAIN chan[r] : chan'[r][i] = chan[r][j]
      BY <1>5, <1>7, <2>1, <3>1 DEF ResultsOf
    <3>2. ASSUME NEW u \in Targets, RouteFrame(u), ~\E j \in DOMAIN chan[r] : chan'[r][i] = chan[r][j]
          PROVE  result.cause \in {r, Keepalive}
      <4>1. chan'[r] # chan[r]
        BY <2>1, <3>2
      <4>2. PICK d \in Delivered(u) :
              /\ d \in Delivery /\ Delivers(u, d) /\ Target(r) = u /\ OwnsItsSlot(r)
              /\ SidOf(Head(outbox[u]).cause) = call[r].sid
              /\ chan[r] \in Seq(Delivery) /\ chan'[r] = Append(chan[r], d)
        BY <3>2, <4>1, RoutedTo
      <4>3. chan'[r][i] = d
        BY <2>1, <3>2, <4>2, AppendToChannel
      <4>4. result.cause \in {Nobody, Head(outbox[u]).cause} /\ result # NoOutcome
        BY <1>7, <2>1, <4>2, <4>3 DEF Delivered, Pending, Final, Result, NoOutcome
      <4>5. Head(outbox[u]).cause \in {r, Keepalive}
        BY <1>1, <1>4, <3>2, <4>2, RoutedIsOwn
      <4>6. d # Pending
        BY <1>7, <2>1, <4>3 DEF Pending, Result
      <4>7. result.cause = Head(outbox[u]).cause
        BY <2>1, <4>2, <4>3, <4>6 DEF Delivered, Final, Result
      <4>8. QED
        BY <4>5, <4>7
    <3>3. CASE ReaderEnds /\ chan'[r][i] = Final(Result("closed", Nobody))
      BY <1>7, <2>1, <3>3 DEF Final, Result
    <3>4. QED
      BY <2>1, <3>1, <3>2, <3>3, ChannelSources
  <2>2. ASSUME result = outcome'[r]
        PROVE  result.cause \in {r, Keepalive}
    <3>1. CASE outcome'[r] = outcome[r] \/ \E j \in DOMAIN chan[r] : outcome'[r] = chan[r][j].result
      BY <1>5, <1>7, <2>2, <3>1 DEF ResultsOf
    <3>2. CASE \E k \in Leaving \cup {"in_flight"} : outcome'[r] = Result(k, Nobody)
      BY <1>7, <2>2, <3>2 DEF Leaving, Result
    <3>3. QED
      BY <3>1, <3>2, OutcomeSources
  <2>3. QED
    BY <1>7, <2>1, <2>2 DEF ResultsOf
<1>8. ASSUME reader' = "running", OnTheWire(t, r)'
      PROVE  pc'[r] = "waiting" /\ ~HasFinal(r)'
  <2>1. reader = "running" /\ ~ReaderEnds
    BY <1>8 DEF Next, RequestStep, Mint, Register, LockWriter, WriteFrame, Receive, TimeOut, Cancel,
         DropGuard, TargetStep, RouteFrame, EcuBusy, EcuFinishes, ReaderEnds, KeepaliveTick,
         KeepaliveWrite, DropSession, LinkDown, Closed, vars, futureVars
  <2> DEFINE Naks == \E i \in DOMAIN chan'[r] : chan'[r][i].result.cause = Keepalive
  <2>2. pc'[r] = "waiting" => ~Naks
    <3> SUFFICES ASSUME pc'[r] = "waiting", Naks PROVE FALSE
      OBVIOUS
    <3>1. outcome'[r] = NoOutcome
      BY AccountStep DEF Account, UndecidedHasNoOutcome, NoOutcome
    <3>2. \E result \in ResultsOf(r)' : result.cause = Keepalive
      BY DEF ResultsOf
    <3>3. QED
      BY <1>6, <3>1, <3>2 DEF Lost, Sent, NoOutcome, Result
  <2>3. CASE Written(r)
    <3>1. pc[r] = "writing" /\ pc'[r] = "waiting"
      BY <2>3 DEF Written
    <3>2. WriteFrame(r)
      <4>1. PICK q \in Requests : RequestStep(q)
        BY <3>1, FutureStep
      <4>2. q = r
        BY <3>1, <4>1 DEF RequestStep, Mint, Register, LockWriter, WriteFrame, Receive, TimeOut,
                          Cancel, DropGuard, TypeOK
      <4>3. QED
        BY <3>1, <4>1, <4>2 DEF RequestStep, Mint, Register, LockWriter, Receive, TimeOut,
                                Cancel, DropGuard, TypeOK
    <3>3. UNCHANGED chan
      BY <3>2 DEF WriteFrame
    <3>4. ASSUME NEW i \in DOMAIN chan[r], chan[r][i].type = "final"
          PROVE  FALSE
      <4>1. Sound(chan[r][i]) /\ chan[r][i] # Pending
        BY <3>4 DEF Account, DeliveriesAreSound, Pending
      <4>2. PICK k \in {"ok", "negative"}, c \in Causes : chan[r][i] = Final(Result(k, c))
        BY <2>1, <4>1 DEF Sound
      <4>3. chan[r][i].result.kind \in {"ok", "negative"} /\ chan[r][i].result.cause = c
        BY <4>2 DEF Final, Result
      <4>4. c \in {r, Keepalive}
        BY <1>5, <4>3 DEF ResultsOf
      <4>5. c # r
        BY <3>1, <4>3 DEF Account, CausesHaveSpoken, Spoke, Sent
      <4>6. QED
        BY <2>2, <3>1, <3>3, <4>3, <4>4, <4>5
    <3>5. QED
      BY <3>1, <3>3, <3>4 DEF HasFinal, FinalIn
  <2>4. CASE OnTheWire(t, r)
    <3>1. pc[r] = "waiting" /\ ~HasFinal(r)
      BY <1>5, <2>1, <2>4
    <3>2. outcome'[r].kind \notin {"timeout", "cancelled"}
      BY <1>6 DEF Lost
    <3>3. pc'[r] = "waiting"
      <4>1. ASSUME NEW q \in Requests, RequestStep(q), pc'[r] # "waiting"
            PROVE  outcome'[r].kind \in {"timeout", "cancelled"}
        <5>1. q = r
          BY <3>1, <4>1 DEF RequestStep, Mint, Register, LockWriter, WriteFrame, Receive, TimeOut,
                            Cancel, DropGuard, TypeOK
        <5>2. Receive(r) \/ TimeOut(r) \/ Cancel(r)
          BY <3>1, <4>1, <5>1 DEF RequestStep, Mint, Register, LockWriter, WriteFrame, DropGuard
        <5>3. Receive(r) => outcome'[r] = Result("timeout", Nobody)
          <6>1. ASSUME Receive(r) PROVE Head(chan[r]).type # "final"
            BY <3>1, <6>1, TailOfChannel DEF Receive, TypeOK, HasFinal
          <6>2. QED
            BY <3>1, <4>1, <6>1 DEF Receive, TypeOK
        <5>4. TimeOut(r) => outcome'[r] = Result("timeout", Nobody)
          BY DEF TimeOut, TypeOK
        <5>5. Cancel(r) => outcome'[r] = Result("cancelled", Nobody)
          BY DEF Cancel, TypeOK
        <5>6. QED
          BY <5>2, <5>3, <5>4, <5>5 DEF Result
      <4>2. QED
        BY <3>1, <3>2, <4>1, FutureStep
    <3>4. ASSUME NEW i \in DOMAIN chan'[r], chan'[r][i].type = "final"
          PROVE  FALSE
      <4>1. ~\E j \in DOMAIN chan[r] : chan'[r][i] = chan[r][j]
        BY <3>1, <3>4 DEF HasFinal, FinalIn
      <4>2. PICK u \in Targets : RouteFrame(u)
        BY <2>1, <3>4, <4>1, ChannelSources
      <4>3. PICK d \in Delivered(u) :
              /\ d \in Delivery /\ Delivers(u, d) /\ Target(r) = u /\ OwnsItsSlot(r)
              /\ SidOf(Head(outbox[u]).cause) = call[r].sid
              /\ chan[r] \in Seq(Delivery) /\ chan'[r] = Append(chan[r], d)
        <5>1. chan'[r] # chan[r]
          BY <3>4, <4>1
        <5>2. QED
          BY <4>2, <5>1, RoutedTo
      <4>4. chan'[r][i] = d
        BY <3>4, <4>1, <4>3, AppendToChannel
      <4>5. d.result.cause = Head(outbox[u]).cause
        BY <3>4, <4>3, <4>4 DEF Delivered, Pending, Final, Result
      <4>6. Head(outbox[u]).cause = r
        <5>1. Head(outbox[u]).cause \in {r, Keepalive}
          BY <1>1, <1>4, <4>2, <4>3, RoutedIsOwn
        <5>2. QED
          BY <2>2, <3>3, <3>4, <4>4, <4>5, <5>1
      <4>7. ~OnTheWire(t, r)'
        BY <1>1, <1>4, <3>4, <4>2, <4>3, <4>4, <4>6, RoutedIsOwn
      <4>8. QED
        BY <1>8, <4>7
    <3>5. QED
      BY <3>3, <3>4 DEF HasFinal, FinalIn
  <2>5. QED
    BY <1>8, <2>3, <2>4, OnTheWireStep
<1>9. QED
  BY <1>7, <1>8

\* Nothing is on the wire and nobody has a result at first.
LEMMA FaithfulInit == Init => RepliesEnd /\ FaithfulIsOwn
<1> SUFFICES ASSUME Init PROVE RepliesEnd /\ FaithfulIsOwn
  OBVIOUS
<1>1. /\ \A r \in Requests : pc[r] = "idle" /\ chan[r] = <<>> /\ outcome[r] = NoOutcome
      /\ \A t \in Targets : inbox[t] = <<>> /\ outbox[t] = <<>>
  BY DEF Init, NoOutcome
<1>2. RepliesEnd /\ \A t \in Targets, r \in Requests : ~OnTheWire(t, r)
  BY <1>1 DEF RepliesEnd, EndsReplies, OnTheWire
<1>3. \A r \in Requests : ResultsOf(r) = {NoOutcome}
  BY <1>1 DEF ResultsOf
<1>4. QED
  BY <1>2, <1>3 DEF FaithfulIsOwn, NoOutcome, Result

\* The account decides who could be given another's answer: b is somebody else.
LEMMA LostIsAnother ==
    ASSUME IInv, Account, NEW r \in Requests, NEW b \in Requests, Lost(b),
           outcome[r].kind \in {"ok", "negative"}, outcome[r].cause \notin {r, Keepalive}
    PROVE  b # r
<1> USE DEF IInv, Account
<1> SUFFICES ASSUME Lost(r) PROVE FALSE
  OBVIOUS
<1>1. PICK i \in DOMAIN chan[r] : chan[r][i].result.cause = Keepalive
  BY DEF Lost, ResultsOf
<1>2. HasFinal(r) /\ chan[r] # <<>>
  BY <1>1, ResponsesAreLast DEF Pending, Result
<1>3. pc[r] = "returning"
  <2>1. Guarded(r)
    BY <1>2 DEF SlotDiscipline, QuietOutsideGuard
  <2>2. outcome[r] # NoOutcome
    BY DEF NoOutcome, Result
  <2>3. QED
    BY <2>1, <2>2 DEF Guarded, UndecidedHasNoOutcome
<1>4. outcome[r].kind \in Leaving
  BY <1>2, <1>3 DEF UnansweredGaveUp, Result
<1>5. QED
  BY <1>4 DEF Leaving

\* A request is given the answer to another one only if some other request to the
\* same ECU, for the same service, went without its own (session.rs:20-28): as
\* long as nobody times out, is cancelled or shares the keepalive's service,
\* every answer is the caller's own.
THEOREM StaleNeedsAbandon == Spec => []StaleOnlyAfterAbandon
<1>1. IInv /\ Account /\ RepliesEnd /\ FaithfulIsOwn /\ [Next]_vars /\ IInv'
        => RepliesEnd' /\ FaithfulIsOwn'
  BY RepliesEndStep, FaithfulStep DEF IInv, Account
<1>2. ASSUME IInv, Account, FaithfulIsOwn
      PROVE  StaleOnlyAfterAbandon
  <2> SUFFICES ASSUME NEW r \in Requests, outcome[r].kind \in {"ok", "negative"},
                      outcome[r].cause \notin {r, Keepalive}
               PROVE  \E b \in Requests \ {r} :
                        Abandoned(b) /\ Target(b) = Target(r) /\ call[b].sid = call[r].sid
    BY DEF StaleOnlyAfterAbandon
  <2>1. Target(r) \in Targets /\ call[r].sid \in Sids
    BY <1>2 DEF IInv, TypeOK, Target
  <2>2. ~Faithful(Target(r), call[r].sid)
    BY <1>2, <2>1 DEF FaithfulIsOwn, ResultsOf
  <2>3. PICK b \in Requests : Target(b) = Target(r) /\ call[b].sid = call[r].sid /\ Lost(b)
    BY <2>2 DEF Faithful
  <2>4. b # r
    BY <1>2, <2>3, LostIsAnother
  <2>5. Abandoned(b)
    BY <2>3 DEF Lost, Abandoned
  <2>6. QED
    BY <2>3, <2>4, <2>5
<1>3. QED
  BY <1>1, <1>2, FaithfulInit, Inductive, AccountIsKept, PTL DEF Spec

=============================================================================
