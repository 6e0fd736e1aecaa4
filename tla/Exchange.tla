----------------------------- MODULE Exchange -----------------------------
(***************************************************************************)
(* What a held session promises the callers of `Session::request`          *)
(* (crates/client/src/session.rs), without slots, channels, locks or       *)
(* tasks: a target serves one call at a time, a call on a busy target is   *)
(* refused, and a call on a free one ends with a response some call drew   *)
(* from that very target for that very service, or with a failure.         *)
(***************************************************************************)
EXTENDS Naturals

CONSTANTS
    Requests, Calls,
    Gateway, TesterPresent,   \* what the keepalive addresses
    Keepalive, Nobody

VARIABLES
    call,      \* [Requests -> Calls], what each request addresses
    phase,     \* [Requests -> Phases]
    offer,     \* the response waiting to be collected, or NoResult
    outcome    \* what a finished call returned

vars == <<call, phase, offer, outcome>>

Phases   == {"idle", "open", "offered", "done"}
NoResult == [kind |-> "none", cause |-> Nobody]
Failures == {[kind |-> k, cause |-> Nobody] : k \in {"timeout", "closed", "io_error", "cancelled"}}

TargetOf(c) == IF c = Keepalive THEN Gateway ELSE call[c].target
SidOf(c)    == IF c = Keepalive THEN TesterPresent ELSE call[c].sid

\* The responses r may be offered.  A cause has been opened before it answers.
Responses(r) ==
    {[kind |-> k, cause |-> c] :
        k \in {"ok", "negative"},
        c \in {q \in Requests \cup {Keepalive} :
                 /\ TargetOf(q) = TargetOf(r)
                 /\ SidOf(q) = SidOf(r)
                 /\ q # Keepalive => phase[q] # "idle"}}
      \cup {[kind |-> "closed", cause |-> Nobody]}

Busy(t) == \E q \in Requests : phase[q] = "open" /\ TargetOf(q) = t

Init ==
    /\ call \in [Requests -> Calls]
    /\ phase = [r \in Requests |-> "idle"]
    /\ offer = [r \in Requests |-> NoResult]
    /\ outcome = [r \in Requests |-> NoResult]

Open(r) ==
    /\ phase[r] = "idle"
    /\ ~Busy(TargetOf(r))
    /\ phase' = [phase EXCEPT ![r] = "open"]
    /\ UNCHANGED <<call, offer, outcome>>

Refuse(r) ==
    /\ phase[r] = "idle"
    /\ Busy(TargetOf(r))
    /\ phase' = [phase EXCEPT ![r] = "done"]
    /\ outcome' = [outcome EXCEPT ![r] = [kind |-> "in_flight", cause |-> Nobody]]
    /\ UNCHANGED <<call, offer>>

\* The target is free again, before the caller has collected the response.
Offer(r) ==
    /\ phase[r] = "open"
    /\ phase' = [phase EXCEPT ![r] = "offered"]
    /\ \E response \in Responses(r) : offer' = [offer EXCEPT ![r] = response]
    /\ UNCHANGED <<call, outcome>>

\* The end of the connection fails every open call at once.
CloseAll ==
    /\ phase' = [r \in Requests |-> IF phase[r] = "open" THEN "offered" ELSE phase[r]]
    /\ offer' = [r \in Requests |-> IF phase[r] = "open"
                                    THEN [kind |-> "closed", cause |-> Nobody]
                                    ELSE offer[r]]
    /\ UNCHANGED <<call, outcome>>

\* The caller takes the response, unless it gave up just before.
Collect(r) ==
    /\ phase[r] = "offered"
    /\ phase' = [phase EXCEPT ![r] = "done"]
    /\ \E result \in {offer[r]} \cup Failures : outcome' = [outcome EXCEPT ![r] = result]
    /\ offer' = [offer EXCEPT ![r] = NoResult]
    /\ UNCHANGED call

GiveUp(r) ==
    /\ phase[r] = "open"
    /\ phase' = [phase EXCEPT ![r] = "done"]
    /\ \E result \in Failures : outcome' = [outcome EXCEPT ![r] = result]
    /\ UNCHANGED <<call, offer>>

Next ==
    \/ \E r \in Requests : Open(r) \/ Refuse(r) \/ Offer(r) \/ Collect(r) \/ GiveUp(r)
    \/ CloseAll

Spec == Init /\ [][Next]_vars
=============================================================================
