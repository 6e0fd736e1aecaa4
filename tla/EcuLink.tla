------------------------------ MODULE EcuLink ------------------------------
(***************************************************************************)
(* A session as one caller sees it who makes one request at a time:        *)
(* `Session::request` of crates/client/src/session.rs, whose insides are   *)
(* module Session.  A request waits for the first reply from its target    *)
(* that echoes its service id; a reply that finds nobody waiting for it is *)
(* dropped; a request given up leaves its reply on the way.                *)
(*                                                                         *)
(* Modules that EXTEND this one say what the caller asks, what it does     *)
(* with an answer, and what an ECU does with a request.                    *)
(***************************************************************************)
EXTENDS Naturals, Sequences

CONSTANTS
    Targets,           \* ECU addresses
    AskLimit,          \* bound: requests ever sent
    Nothing            \* no content

VARIABLES
    asked,             \* how many requests have been sent
    open,              \* the request that waits, or NoRequest
    answer,            \* what the last one returned, until it is taken
    inbox,             \* requests each ECU has yet to handle
    outbox,            \* each ECU's replies the reader has yet to read
    given_up,          \* history: the requests that returned without a reply
    synced             \* history: the last request of each ECU that got its own reply

\* Serials of requests begin at 1; every answer has another kind.
NoRequest == [serial |-> 0]
NoAnswer == [kind |-> "none"]

linkVars == <<asked, open, answer, inbox, outbox, given_up, synced>>

LinkInit ==
    /\ asked = 0
    /\ open = NoRequest
    /\ answer = NoAnswer
    /\ inbox = [t \in Targets |-> <<>>]
    /\ outbox = [t \in Targets |-> <<>>]
    /\ given_up = {}
    /\ synced = [t \in Targets |-> 0]

\* The caller is free to ask: nothing waits and no answer is left to take.
Free == open = NoRequest /\ answer = NoAnswer

\* The registration and the write.  It is part of a caller's action, which also
\* says what becomes of the answer it may be taking.
Ask(t, sid, data) ==
    LET q == [target |-> t, sid |-> sid, data |-> data, serial |-> asked + 1] IN
    /\ asked < AskLimit
    /\ asked' = asked + 1
    /\ open' = q
    /\ answer' = NoAnswer
    /\ inbox' = [inbox EXCEPT ![t] = Append(@, q)]
    /\ UNCHANGED <<outbox, given_up, synced>>

\* The caller takes the answer and asks nothing more for now.
TakeAnswer == answer' = NoAnswer /\ UNCHANGED <<asked, open, inbox, outbox, given_up, synced>>

\* A reply nobody claims, kept for later.
AfterUnclaimedKept(t) == Append(Tail(outbox[t]), Head(outbox[t]))

\* A reply nobody claims is gone.
AfterUnclaimed(t) == Tail(outbox[t])

Claims(reply) ==
    /\ open # NoRequest
    /\ open.target = reply.cause.target
    /\ open.sid = reply.cause.sid

\* route_frame, and the return of the request it completes.
Deliver(t) ==
    /\ outbox[t] # <<>>
    /\ LET reply == Head(outbox[t]) IN
       \/ /\ Claims(reply)
          /\ answer' = [kind |-> reply.kind, request |-> open, cause |-> reply.cause,
                        content |-> reply.content]
          /\ open' = NoRequest
          /\ outbox' = [outbox EXCEPT ![t] = Tail(@)]
          /\ synced' = [synced EXCEPT ![t] = IF reply.cause = open THEN open.serial ELSE @]
       \/ /\ ~Claims(reply)
          /\ outbox' = [outbox EXCEPT ![t] = AfterUnclaimed(t)]
          /\ UNCHANGED <<open, answer, synced>>
    /\ UNCHANGED <<asked, inbox, given_up>>

\* The request returns an error that is no refusal by the ECU: a timeout, a
\* closed connection, a failed write, a target that is busy.
GiveUp ==
    /\ open # NoRequest
    /\ answer' = [kind |-> "failed", request |-> open, cause |-> open, content |-> Nothing]
    /\ open' = NoRequest
    /\ given_up' = given_up \cup {open}
    /\ UNCHANGED <<asked, inbox, outbox, synced>>

\* The caller drops the future that waits; an answer it has not seen is lost.
Abandon ==
    /\ open' = NoRequest
    /\ answer' = NoAnswer
    /\ given_up' = given_up \cup ({open} \ {NoRequest})
    /\ UNCHANGED <<asked, inbox, outbox, synced>>

\* The ECU takes its next request and replies, or says nothing.  It is part of
\* an ECU's action, which says what the request did.
Handles(t) ==
    /\ inbox[t] # <<>>
    /\ inbox' = [inbox EXCEPT ![t] = Tail(@)]

Replies(t, kind, content) ==
    outbox' = [outbox EXCEPT ![t] =
                  Append(@, [kind |-> kind, cause |-> Head(inbox[t]), content |-> content])]

\* The ECU owes the reply of a request given up since the last own reply.
Late(t) == \E q \in given_up : q.target = t /\ q.serial > synced[t]

-----------------------------------------------------------------------------
\* A reply to another request is taken for the answer only while the ECU owes
\* the reply of a request given up: from the next request that gets its own
\* reply on, no answer is stale, because replies of one ECU keep their order and
\* a reply that nobody claims is dropped (session.rs:20-28, 299-341).
StaleOnlySinceGivenUp ==
    answer # NoAnswer /\ answer.kind # "failed" /\ answer.cause # answer.request =>
        Late(answer.request.target)

=============================================================================
