------------------------------ MODULE HsfzWire ------------------------------
(***************************************************************************)
(* The HSFZ transport below the session: the discovery of the gateway over *)
(* UDP, the TCP connect, and the two byte streams of the connection.       *)
(*                                                                         *)
(* Senders (requests and the keepalive) write whole frames under the       *)
(* writer lock; the socket takes them a few bytes at a time, the network   *)
(* delivers them in segments of its own choice, and each end cuts the      *)
(* stream into frames by their LENGTH.  A request can be dropped at any    *)
(* await, the one inside write_all included.                               *)
(*                                                                         *)
(* The LENGTH and the CONTROL word are one byte each here, a VIN has       *)
(* VinLen characters, and the marker before it is one symbol.              *)
(***************************************************************************)
EXTENDS Naturals, Sequences, FiniteSets, SequencesExt

CONSTANTS
    Gateways,     \* the gateways on the link
    Announce,     \* the identification body of each
    VinLen,       \* VIN_LEN
    VinChars,     \* the VIN alphabet
    Marker,       \* VIN_MARKER
    Senders,      \* the requests and the keepalive, one frame each
    Requests,     \* the senders that can be dropped
    Sends,        \* the frame of each sender
    Replies,      \* the frames the gateway may send
    MaxFrameLen,  \* MAX_FRAME_LEN
    Room,         \* what the two sockets hold between them
    MaxCopies,    \* how often the network may duplicate a datagram
    MaxReplies,   \* how many frames the gateway sends
    None

VARIABLES
    phase,      \* of the connection
    datagrams,  \* copies of each gateway's announcement under way
    heard,      \* discover: the announcements received
    peer,       \* the gateway connected to
    lock,       \* the senders that hold (head) or await the writer
    sender,     \* where each sender is
    rest,       \* what it has still to write
    up, down,   \* bytes on their way to the gateway, and back
    inbox,      \* bytes the kernel holds for the reader
    reader,     \* whether the reader task runs
    received,   \* frames the gateway cut from the stream
    delivered,  \* frames the reader cut from the stream
    replied,    \* history: the frames the gateway sent
    begun,      \* history: the frames whose writing began
    torn        \* history: a sender was dropped in the middle of its frame

vars == <<phase, datagrams, heard, peer, lock, sender, rest, up, down, inbox,
          reader, received, delivered, replied, begun, torn>>
discoveryVars == <<datagrams, heard>>
sendVars == <<lock, sender, rest, begun, torn>>
readVars == <<inbox, reader, delivered>>
gatewayVars == <<received, replied>>

-----------------------------------------------------------------------------
(* Frames *)

DIAGNOSTIC == 1
ACK == 2
ALIVE_CHECK == 18

HeaderLen == 2

\* A diagnostic frame carries SRC and TGT, an alive check only when it is long
\* enough for nothing else.
control_has_addrs(control, body_len) ==
    control \in {DIAGNOSTIC, ACK} \/ (control = ALIVE_CHECK /\ body_len = 2)

\* Mutant: the control word is counted.
encode_CountingControl(f) ==
    LET body == f.addr \o f.payload IN <<Len(body) + 1, f.control>> \o body

\* HsfzFrame::encode: LENGTH counts the body alone.
encode(f) == LET body == f.addr \o f.payload IN <<Len(body), f.control>> \o body

Frames == [control : Nat, addr : Seq(Nat), payload : Seq(Nat)]
Frame(control, addr, payload) == [control |-> control, addr |-> addr, payload |-> payload]

\* HsfzFrame::decode of a buffer that holds the whole frame, or None.
decode(buf) ==
    LET control == buf[2]
        body == SubSeq(buf, HeaderLen + 1, HeaderLen + buf[1])
    IN IF ~control_has_addrs(control, buf[1]) THEN Frame(control, <<>>, body)
       ELSE IF buf[1] < 2 THEN None
       ELSE Frame(control, SubSeq(body, 1, 2), SubSeq(body, 3, Len(body)))

\* read_frame: the LENGTH, sanity-capped, then the control word and the body.
TooLarge(buf) == buf # <<>> /\ buf[1] > MaxFrameLen
Complete(buf) == Len(buf) >= HeaderLen /\ ~TooLarge(buf) /\ Len(buf) >= HeaderLen + buf[1]
After(buf) == SubSeq(buf, HeaderLen + buf[1] + 1, Len(buf))

\* The addresses are apart from the payload only where a decoder would part
\* them, or where there are too few bytes for both.
Regular(f) ==
    LET body_len == Len(f.addr) + Len(f.payload)
    IN IF control_has_addrs(f.control, body_len) THEN Len(f.addr) = 2 \/ body_len < 2
       ELSE f.addr = <<>>

\* The senders build their frames with HsfzFrame::diagnostic; the gateway's are
\* any, the malformed ones included.
ASSUME FramesAssumption ==
    /\ MaxFrameLen \in Nat
    /\ Requests \subseteq Senders
    /\ \A s \in Senders : /\ Sends[s] \in Frames
                           /\ Sends[s].control = DIAGNOSTIC /\ Len(Sends[s].addr) = 2
    /\ \A f \in Replies : f \in Frames /\ Regular(f)

-----------------------------------------------------------------------------
(* Discovery and connect *)

\* A window of VinLen characters of the VIN alphabet.
IsVinRun(s, i) == i + VinLen - 1 <= Len(s) /\ \A k \in i..(i + VinLen - 1) : s[k] \in VinChars

\* Mutant: the first run of the alphabet, wherever it is.
scan_vin_Unanchored(s) ==
    LET runs == {i \in 1..Len(s) : IsVinRun(s, i)}
    IN IF runs = {} THEN None ELSE SubSeq(s, Min(runs), Min(runs) + VinLen - 1)

\* scan_vin: the characters after the marker, else the first run anywhere.
scan_vin(s) ==
    LET marks == {i \in 1..Len(s) : s[i] = Marker}
        runs == {i \in 1..Len(s) : IsVinRun(s, i)}
        at == IF marks # {} /\ IsVinRun(s, Min(marks) + 1) THEN Min(marks) + 1
              ELSE IF runs # {} THEN Min(runs) ELSE 0
    IN IF at = 0 THEN None ELSE SubSeq(s, at, at + VinLen - 1)

\* A gateway writes the marker once, and the VIN after it.
ASSUME AnnounceAssumption ==
    /\ VinLen \in Nat
    /\ \A g \in Gateways : Len(Announce[g]) \in Nat /\ DOMAIN Announce[g] = 1 .. Len(Announce[g])
    /\ \A g \in Gateways : \A i \in DOMAIN Announce[g] : Announce[g][i] = Marker =>
          /\ IsVinRun(Announce[g], i + 1)
          /\ \A j \in DOMAIN Announce[g] : Announce[g][j] = Marker => j = i

Init ==
    /\ phase = "start"
    /\ datagrams = [g \in Gateways |-> 0]
    /\ heard = <<>>
    /\ peer = None
    /\ lock = <<>> /\ sender = [s \in Senders |-> "idle"] /\ rest = [s \in Senders |-> <<>>]
    /\ up = <<>> /\ down = <<>> /\ inbox = <<>>
    /\ reader = "running"
    /\ received = <<>> /\ delivered = <<>> /\ replied = <<>> /\ begun = <<>>
    /\ torn = FALSE

connected == <<peer, sendVars, up, down, readVars, gatewayVars>>

\* discover: bind and broadcast, or fail; every gateway that gets the probe
\* answers, and the network loses or doubles what it likes.
Probe ==
    /\ phase = "start"
    /\ \/ phase' = "listen" /\ datagrams' \in [Gateways -> 0..MaxCopies]
       \/ phase' = "failed" /\ UNCHANGED datagrams
    /\ UNCHANGED <<heard, connected>>

\* Every datagram opens the listen window anew.
Hear ==
    /\ phase = "listen"
    /\ \E g \in Gateways :
        /\ datagrams[g] > 0
        /\ datagrams' = [datagrams EXCEPT ![g] = @ - 1]
        /\ heard' = Append(heard, [ip |-> g, vin |-> scan_vin(Announce[g])])
    /\ UNCHANGED <<phase, connected>>

\* The window elapses: none and several are errors, one is connected to.
Chosen ==
    /\ phase = "listen"
    /\ phase' = IF Len(heard) = 1 THEN "connect" ELSE "failed"
    /\ peer' = IF Len(heard) = 1 THEN heard[1].ip ELSE None
    /\ datagrams' = [g \in Gateways |-> 0]
    /\ UNCHANGED <<heard, sendVars, up, down, readVars, gatewayVars>>

\* The caller names the gateway and skips discovery.
Given ==
    /\ phase = "start" /\ phase' = "connect"
    /\ peer' \in Gateways
    /\ UNCHANGED <<discoveryVars, sendVars, up, down, readVars, gatewayVars>>

\* HsfzConnection::connect: established, refused or timed out.
Connect ==
    /\ phase = "connect" /\ phase' \in {"up", "failed"}
    /\ heard' = <<>>
    /\ UNCHANGED <<datagrams, connected>>

-----------------------------------------------------------------------------
(* Writing *)

Holds(s) == lock # <<>> /\ Head(lock) = s

Ask(s) ==
    /\ phase = "up" /\ sender[s] = "idle"
    /\ sender' = [sender EXCEPT ![s] = "queued"]
    /\ lock' = Append(lock, s)
    /\ UNCHANGED <<phase, peer, discoveryVars, rest, begun, torn, up, down, readVars, gatewayVars>>

Begin(s) ==
    /\ sender[s] = "queued" /\ Holds(s)
    /\ sender' = [sender EXCEPT ![s] = "writing"]
    /\ rest' = [rest EXCEPT ![s] = encode(Sends[s])]
    /\ begun' = Append(begun, Sends[s])
    /\ UNCHANGED <<phase, peer, discoveryVars, lock, torn, up, down, readVars, gatewayVars>>

\* write_all: as many bytes as the sockets take; it waits while they are full.
\* The lock goes with the last byte.
WriteSome(s) ==
    /\ sender[s] = "writing" /\ phase = "up"
    /\ \E n \in 1..Len(rest[s]) :
        /\ Len(up) + n <= Room
        /\ up' = up \o SubSeq(rest[s], 1, n)
        /\ rest' = [rest EXCEPT ![s] = SubSeq(@, n + 1, Len(@))]
    /\ sender' = [sender EXCEPT ![s] = IF rest'[s] = <<>> THEN "sent" ELSE "writing"]
    /\ lock' = IF rest'[s] = <<>> THEN Tail(lock) ELSE lock
    /\ UNCHANGED <<phase, peer, discoveryVars, begun, torn, down, readVars, gatewayVars>>

\* The write fails on a closed connection.
WriteFails(s) ==
    /\ sender[s] = "writing" /\ phase = "closed"
    /\ sender' = [sender EXCEPT ![s] = "failed"]
    /\ lock' = Tail(lock)
    /\ UNCHANGED <<phase, peer, discoveryVars, rest, begun, torn, up, down, readVars, gatewayVars>>

\* Mutant: the guard of a dropped request is never released.
Unlocked_Kept(s) == lock

\* What a dropped request leaves of the lock: its guard, or its place in the
\* queue, is gone.
Unlocked(s) == RemoveAt(lock, CHOOSE i \in DOMAIN lock : lock[i] = s)

\* A request is dropped while it waits for the lock or inside write_all; what
\* it has written stays written.
Drop(s) ==
    /\ sender[s] \in {"queued", "writing"}
    /\ sender' = [sender EXCEPT ![s] = "dropped"]
    /\ lock' = Unlocked(s)
    /\ torn' = (torn \/ (sender[s] = "writing" /\ rest[s] # encode(Sends[s])))
    /\ begun' = IF sender[s] = "writing" /\ rest[s] = encode(Sends[s])
                THEN Front(begun) ELSE begun
    /\ UNCHANGED <<phase, peer, discoveryVars, rest, up, down, readVars, gatewayVars>>

-----------------------------------------------------------------------------
(* Reading, on either end *)

\* The gateway (external) cuts its stream as read_frame does.
GatewayReads ==
    /\ phase = "up" /\ Complete(up)
    /\ up' = After(up)
    /\ received' = Append(received, decode(up))
    /\ UNCHANGED <<phase, peer, discoveryVars, sendVars, down, readVars, replied>>

\* It drops the connection on a length it does not believe, or for any reason.
GatewayCloses ==
    /\ phase = "up" /\ phase' = "closed"
    /\ UNCHANGED <<peer, discoveryVars, sendVars, up, down, readVars, gatewayVars>>

GatewaySends ==
    /\ phase = "up" /\ Len(replied) < MaxReplies
    /\ \E f \in Replies :
        /\ down' = down \o encode(f)
        /\ replied' = Append(replied, f)
    /\ UNCHANGED <<phase, peer, discoveryVars, sendVars, up, readVars, received>>

\* A TCP segment arrives: any number of the bytes under way.
Segment ==
    /\ down # <<>>
    /\ \E n \in 1..Len(down) :
        /\ inbox' = inbox \o SubSeq(down, 1, n)
        /\ down' = SubSeq(down, n + 1, Len(down))
    /\ UNCHANGED <<phase, peer, discoveryVars, sendVars, up, reader, delivered, gatewayVars>>

\* The reader task: the next frame, or the end of the loop on a malformed one.
ReadFrame ==
    /\ reader = "running" /\ Complete(inbox)
    /\ inbox' = After(inbox)
    /\ IF decode(inbox) = None
       THEN reader' = "ended" /\ UNCHANGED delivered
       ELSE delivered' = Append(delivered, decode(inbox)) /\ UNCHANGED reader
    /\ UNCHANGED <<phase, peer, discoveryVars, sendVars, up, down, gatewayVars>>

\* It also ends on an oversized length, at the end of a closed stream, and when
\* nothing comes for the idle cap.
ReaderEnds ==
    /\ reader = "running" /\ ~Complete(inbox)
    /\ TooLarge(inbox) \/ (phase = "closed" /\ down = <<>>) \/ phase = "up"
    /\ reader' = "ended"
    /\ UNCHANGED <<phase, peer, discoveryVars, sendVars, up, down, inbox, delivered, gatewayVars>>

Write(s) == Begin(s) \/ WriteSome(s) \/ WriteFails(s)
Next ==
    \/ Probe \/ Hear \/ Chosen \/ Given \/ Connect
    \/ \E s \in Senders : Ask(s) \/ Write(s)
    \/ \E s \in Requests : Drop(s)
    \/ GatewayReads \/ GatewayCloses \/ GatewaySends \/ Segment \/ ReadFrame \/ ReaderEnds

Spec == Init /\ [][Next]_vars

\* The writer tasks run, and the gateway empties its socket or closes it: the
\* write itself has no timeout.
FairSpec ==
    /\ Spec
    /\ \A s \in Senders : WF_vars(Write(s))
    /\ WF_vars(GatewayReads)
    /\ WF_vars(~Complete(up) /\ GatewayCloses)

-----------------------------------------------------------------------------
(* Properties *)

\* Both ends cut the streams at the boundaries the other end wrote, whatever
\* the segments: each frame arrives once, whole and in order, as long as no
\* request was dropped in the middle of its own.
FramesArriveWhole ==
    /\ ~torn => IsPrefix(received, begun)
    /\ IsPrefix(delivered, replied)

\* Discovery connects only to a gateway that was the only one heard, and the
\* VIN it reports is the one after the marker, never a run of the prefix.
DiscoveryIsUnambiguous ==
    (heard # <<>> /\ peer # None) =>
        /\ \A h \in ToSet(heard) : h.ip = peer
        /\ \A i \in DOMAIN Announce[peer] :
            Announce[peer][i] = Marker => heard[1].vin = SubSeq(Announce[peer], i + 1, i + VinLen)

\* No request waits for ever for the writer or inside the write, while the
\* gateway reads or closes: a dropped or failed sender hands the lock on.
EveryWriteEnds ==
    \A s \in Senders : sender[s] = "queued" ~> sender[s] \in {"sent", "dropped", "failed"}
=============================================================================
