# klartext: TLA+ models and proofs

klartext talks to the ECUs of a BMW through the car's gateway: HSFZ over TCP
carries UDS requests and responses, a client turns them into reads, clears,
resets and identities, a virtual machine runs the car maker's own diagnostic
jobs, and a command line tool and an MCP server offer all this to people and
agents. What has to be right is what a unit test hardly reaches: replies that
come late, futures dropped in the middle, a reader that dies, an ECU that does
what it was asked and says nothing, a frame whose service is not where the gate
looks for it.

File and line references are to the repository's sources (`crates/...`, `mcp/...`,
`cli/...`).

## 1. Inventory

| Component | State it keeps | Operations | Modelled in |
|---|---|---|---|
| `crates/client/src/session.rs` `Session` | slot table `pending` (one slot per ECU address: service id, generation, channel), generation counter, writer lock, reader task, keepalive task | `request`, `request_with_timeout`, `SlotGuard::drop`, `route_frame`, drain at the end of the reader, `spawn_keepalive`, `Drop` | `Session`, `Exchange`; `EcuLink` for one sequential caller |
| `crates/client/src/client.rs` `DiagnosticClient` | none beyond the session | DID reads, fault reads, identities, writes, resets, dynamic measurements | `DiagnosticClient` (every operation by its requests), `Readings` (what the commands use, down to the bytes) |
| `crates/client/src/scan.rs` | the reports of a sweep | `clear_faults_verified`, `clear_faults_all`, `clear_faults_all_with_reset`; `scan_faults` | `ClearSweep`; `scan_faults` is one step of `McpServer` |
| `crates/service` | one run: preconditions, phases, report | grouping of catalog rows, preconditions, `run_cycle` | `ServiceRunner` |
| `crates/best` gate, telegram, bridge | the policy | `classify`, `GatedExchange::request`, `TelegramExchange::request`, codec | `Telegram`, `JobEngine` |
| `crates/best` engine and machine | registers with overlapping views, flags, stack, trap bit and mask, table cursor, results | `run_job`, `step` and its instructions, `decode_job` | `JobEngine` (run loop, exchanges, error trap), `BestMachine`, `BestArith`, `BestText`, `BestData`, `BestJob` (instructions), `BestDecode` |
| `crates/hsfz` | a TCP stream in each direction, the writer lock around it | frame codec, `connect`, `discover`, `scan_vin` | `HsfzWire` |
| `crates/uds` | none | requests, decoders | `UdsCodec` |
| `crates/semantic` | the tables of an SGBD; a read-only SQLite database | measurements, freeze frames, PIDs, service functions; lookups | `SemanticDecode` (not the lookups of `catalog.rs`) |
| `crates/sgbd` | a parsed `.prg` file | `open`, tables, jobs, `job_bytecode`, CP1252 | `SgbdFile`, `BestText` |
| `mcp` | the connection (client, VIN, fitted ECUs) behind a mutex; parsed SGBDs; profiles on disk | `connect`, `disconnect`, reads, sweeps, confirmed clears, `run_job`, shutdown | `McpServer`; `read_data` to the bytes in `Readings` |
| `cli` | none | one operation per invocation | `Readings` (the commands that talk to the car) |
| `docbuild`, scripts, skills, docs | databases built offline | conversion | no |

How they interact. A caller's future registers a slot, takes the writer lock,
writes a frame and waits on its channel. One reader task takes frames off the
socket and routes each by source address and service id to a slot's channel;
NRC 0x78 re-arms the wait. A third task sends TesterPresent to the gateway.
Any future may be dropped at any await. The client, the sweep and the runner
are sequences of such requests by one caller. A BEST/2 job reaches the same
session through the gate (outermost), the telegram bridge, and a binary's
`SessionBridge`.

What is hard, and what correctness means there:

* **Concurrency on the slot table.** Three parties (the request, its guard, the
  reader) free a slot, and another request may have taken the address since. No
  slot may leak, none may be taken from its owner, at most one request per ECU.
* **Replies without identity.** A UDS response names ECU and service, nothing
  else. A late one answers the next request for that service, whose own reply
  then answers the one after it. What layers above may conclude has to survive
  that.
* **Failures of one step of several.** A clear that failed must not be followed
  by a reset; an actuation must be torn down; half an identity must not be kept.
* **The transmit boundary.** The byte the gate classifies must be the service
  the ECU is sent, in every telegram form.
* **One car at a time.** The MCP server awaits between looking at its connection
  and using it, and remembers things per car; what it clears, sweeps and records
  must be of the car it looked at.
* **Bytes.** Every width, offset and bound in five formats (HSFZ frames, UDS
  responses, freeze frames, SGBD files, BEST/2 bytecode) comes from data read
  elsewhere; one byte off and what follows means something else.
* **Termination.** Every request, write, job and tool call returns.

PROJECT.json lists the hazards at their lines, each with the properties that
would catch it, or why none does.

## 2. Modules

`A -> B` reads "A extends or instantiates B".

    MCSession -> Session -> Exchange
    MCDiagnosticClient -> DiagnosticClient -> EcuLink
    MCClearSweep       -> ClearSweep       -> EcuLink
    MCServiceRunner    -> ServiceRunner    -> EcuLink
    MCJobEngine -> JobEngine -> Telegram
    MCBest     -> BestJob -> BestData -> BestText, BestArith -> BestMachine
    MCDecoders -> BestDecode -> BestMachine, SgbdFile -> BestText
    MCHsfzWire -> HsfzWire
    MCMcpServer -> McpServer
    MCReadings -> Readings -> EcuLink, SemanticDecode -> UdsCodec

    SessionProofs  -> Session
    HsfzWireProofs -> HsfzWire
    DiagnosticClientProofs -> DiagnosticClient, EcuLinkProofs -> EcuLink
    ClearSweepProofs       -> ClearSweep, EcuLinkProofs
    ServiceRunnerProofs    -> ServiceRunner, EcuLinkProofs
    JobEngineProofs -> JobEngine
    McpServerProofs -> McpServer

A definition whose name is that of the one behind it with something added
(`OwnsSlotByTarget` before `OwnsSlot`, `peek_sid_ShortOnly` before `peek_sid`) is
a plausible fault of that code. Nothing uses it; put in its place, it makes the
property PROJECT.json pairs it with fail.

### Session and Exchange

`Session` has one future per element of `Requests`, with its call chosen in
`Init`, and `pending`, `writer`, `reader`, `keepalive` as in the code. A future
goes through `Register` (mint a generation, refuse if the slot is taken, insert,
arm the guard), `LockWriter`, `WriteFrame`, then `Receive` or `TimeOut`, and
`DropGuard`, which is a step of its own: between the return value and the guard
other tasks run. `Cancel` is the future dropped at any await; inside a write it
leaves the stream `torn`, and no later frame is understood. `RouteFrame` is
`route_frame` whole: filter, service match, NRC 0x78, delivery, removal of the
slot. `ReaderEnds` drains the table. `KeepaliveTick` and `KeepaliveWrite` are the
keepalive task; its refusal (`7F 3E`) is a reply like any other. `DropSession` is
`Drop for Session`.

The environment is external: each ECU handles its frames in order and replies
once, late, never, or after NRC 0x78; the link may fail. The reader picks any
ECU's next reply, which is what one TCP stream fed by several ECUs amounts to.
Data of a request is kept as history, to tell an answer of one's own from another's.

`Exchange` is what the session promises a caller, without slots, channels or
tasks: an ECU serves one call at a time, a call on a busy one is refused, and a
call on a free one ends with a failure or with a response that some call drew
from that ECU for that service. The refinement (`ImplementsExchange`) maps a slot
to an open call and a final delivery in a channel to an offered response.

### EcuLink

The same session as one caller sees it that makes one request at a time:
`Ask`, `Deliver` (route_frame for the open request, or dropped), `GiveUp` (time
out, or the connection failing), `Abandon` (future dropped). It is justified by
what `Session` establishes: requests to different ECUs do not meet, and one that
meets another at the same ECU is refused, which is a failed request to the
operation. `Late(t)` says that ECU `t` owes the reply of a request given up since it
last answered one of its own; only then may an answer be another request's
(`StaleOnlySinceGivenUp`, the counterpart of `StaleOnlyAfterAbandon` of `Session`).

### DiagnosticClient

Every operation is a `Script` of steps; a step has its request, what a refusal
means (an error, or an absent record), how much of the echo is compared and
what a mismatch means. `TakeStep` is the code after an await: verdict, then the
next step, the end, or the end of an ECU's block in `identify_vehicle`
(`IdentificationBlocks`, numbered by their ECU's place in the list). Values are
abstracted to the request that drew them.

### ClearSweep

The sweep of `clear_faults_all_with_reset`: per address pre-read, extended
session, clear, post-read, then the reset pass over what was cleared, with each
ECU's fault memory, its session, and faults that occur meanwhile. An ECU may
execute and stay silent. A report is known by its place: `Cleared`, `ResetTargets`
and `to_reset` are sets of places, so a list may name an address twice. Its fields
`stored`, `clears`, `resets` and `suspect` are history, written when it is begun;
`suspect` says that its ECU then owed a late reply.

### ServiceRunner

`invocations` sorts and groups catalog rows as `phase.rs` does: `Ahead` is what the
stable sort puts before a row, a row begins an invocation where function or phase
change, and the invocations are kept by the place of their first row; `offered` is
what the caller hands to `run_service`. `Picked` is the closure `pick`. `Check` and
`Decide` are the preconditions, a NaN reading included; `TakePhase` is the cycle
Preset, Main, Reset, where `StillToRun` is the set of phases that the code still
runs after what was attempted and what failed, and the first of them is next;
`Drop` is the future dropped. A job is one request. `JobRunner` has no
implementor in the binaries yet, so the module takes the trait's contract.

### Telegram and JobEngine

`Telegram` is the codec on sequences of bytes. `JobEngine` is `run_job`: any
instruction may follow any other, so the model covers every bytecode; `Xsend`
and `XsendRefused` take the frame through gate and bridge, `Answer` and
`TransportFails` are what the transport returns, `SetError` is the error trap.
The transport is `Session`: it answers with a nonempty payload or an error.

### The machine of BEST/2

`BestMachine` has the registers: B, I and L are views of one byte file, S and F
banks beside it; indexed operands, their bounds and what a write stores.
`BestArith` has the flags, the error trap and the integer instructions, stack
and branches; `BestText` the code page and conversions between numbers and text;
`BestData` floats, strings, results, parameters and tables. An instruction is an
operator from a machine to a machine or an error, named as in exec.rs; steps that
may fail are chained by `Bind`, the `?` of the code. `BestJob` is the loop of
`run_job` over a program. The bits of a byte, the size of the file and of a
string are constants.

`SgbdFile` is `Prg`: de-obfuscation, both directories, tables, job bounds.
`BestDecode` writes a file with given tables and jobs (external), cuts it short
or not, opens it, and decodes job after job with `decode_one`.

### HsfzWire

Below `Session`, one behaviour is a discovery, a connect and the life of the
connection. `Probe` and `Hear` are `discover` with datagrams that are lost,
duplicated or foreign; `Ask`, `Begin`, `WriteSome`, `WriteFails`, `Drop` are a
sender under the writer lock whose socket takes a few bytes at a time;
`Segment` and `ReadFrame` are the way back. `LENGTH` and `CONTROL` have one byte
each. `Session` assumes whole frames in order, and that a frame cut by a dropped
future spoils what follows; this module is where that is checked.

### McpServer

Every tool call is a task; the code between two awaits is an action. `lock` is
the queue of the tokio mutex. A call goes through its lock sections: `peek` for
the VIN, `resolve` (variant ladder, SGBD cache, profile, early returns), then the
exchanges of the tool under the lock, then `profile::record` by its system calls,
each of which may fail and is seen by other threads. `install` and `disconnect`
replace the connection, `Shutdown` and `disconnect_now` end the process. What an
exchange returns is left open; `deeds` records which car it went to.

### UdsCodec, SemanticDecode, Readings

`UdsCodec` is the bytes of requests and what decoders accept. `SemanticDecode`
reads the tables of an SGBD (trimmed texts; what a text says as a number is a
constant, what is accepted in which width is modelled), builds requests of
measurements and service functions, and walks freeze frames. What a command makes
of these tables before it asks anything (`measurements`, `freeze_frame_defs`,
`service_functions`) is a constant of `Readings` that `MCReadings` computes from
the tables with these operators. Values are exact
fractions where the code has `f64`.

`Readings` puts them together with `EcuLink`: `Begin` takes a command from what
the user asks through its checks (`Script`) to its first request, `Take` is the
code after each await, and the ECU (external) answers with bytes, refuses, cuts a
reply by a byte, or executes and stays silent. One behaviour is one connection:
one command of the CLI, or up to four calls of the MCP server. `scan` is modelled
as with `--ecus-only`.

## 3. Runs

Deadlock is checked except where the modelled program really ends (the server's
process, a connection, a file that is decoded); in the other runs an explicit
stuttering step (`Closed`, `Exhausted`, `Finished`) says where the bounds end a
behaviour.

| Run | Bounds | Shows |
|---|---|---|
| `Session_slots` | 2 interchangeable requests, 2 ECUs, 3 services, 1 keepalive; cancellation and the end of the reader | `IInv`, `NoLeakedSlot`, `WaiterHoldsItsSlot`, `OneRequestPerTarget`, `AnswersOwnTargetAndService`, `StaleOnlyAfterAbandon`, `SlotFreedByItsOwner` (action property), `ImplementsExchange` (refinement) |
| `Session_live` | 2 requests, 1 ECU, link failure, one NRC 0x78 more than the limit | `EveryRequestReturns`, `FinalIsLast`, `TypeOK` |
| `Client_late` | any 3 of 13 operations in a row on gateway and one ECU | `ComparedFieldsAreTheirs`, `StaleOnlySinceGivenUp`, `BlocksAreWhole` |
| `ClearSweep_car` | 2 sweeps over gateway and ECU, one fault present, one occurring | `FailedClearIsNeverReset`, `ErasedIsRecordedUnlessLate`, `ReportsAreBacked` |
| `Service_cycle` | 2 runs, 5 catalog rows out of order for 2 functions, 1 change of the vehicle | `OnlyTheRequestedFunction`, `UnpreparedIsNotActuated`, `SentOnlyIfAllowed`, `TeardownIsHonest` |
| `Job_gate` | frames of all forms with up to 4 bytes behind the addresses, and a long one; replies of 1, 63, 64, 255, 256 bytes; 4 instructions | `OnlyAdmittedServices`, `RegisterIsOfTheLastExchange`, `EveryJobReturns` |
| `Best_jobs` | every integer instruction on edge values of each width, programs over strings, stack, tables, results and conversions; bytes of 7 bits, so that a word of four fits TLC's integers; strings of 5 bytes | `ArithmeticIsExact`, `BoundsAreTrapped`, `StateIsConsistent`, `ReversedIsUnchanged` |
| `Decoders` | every opcode byte, pair of addressing modes and register selector; three jobs in any order of the directory, the file cut at every byte; short name fields and headers | `CodeIsTiled`, `FileIsReadBack` |
| `Hsfz_wire` | 2 gateways, a request and the keepalive, 6 bytes of socket buffer, frames of at most 4 bytes, 2 replies | `FramesArriveWhole`, `DiscoveryIsUnambiguous`, `EveryWriteEnds` |
| `Mcp_calls` | 2 calls of any of 26 requests at once, 2 cars, 3 ECUs, 3 variants | `ClearIsOfTheReadCar`, `MemoryIsOfItsCar`, `ProfileIsKept`, `EveryCallReturns` |
| `Readings` | each command once, pairs of MCP reads, four dynamic reads in a row; 1 odd reply, 3 given-up requests | `AnswersAreExact`, `MeasurementIsItsOwn`, `ChangesAreAskedFor` |

Why these are enough. A conflict on a slot is between the request that holds it
and one that comes, whose guard is late or who is refused; two ECUs and three
services let addresses and services be mixed up, and the proofs of section 4
are for any number. `MAX_PENDING_TICKS` and `MAX_INSTRUCTIONS` are only ever
compared with a counter, so 0 and 4 reach what 10 and two million do. A late
reply needs the request it belongs to and the one it answers; the third operation
of `Client_late`, the second sweep and the second run let the shift go on, and
`GiveUpLimit` 3 is the least number of given-up requests with which
`MeasurementIsItsOwn` needs its exception without a refusal. Two MCP calls are a
victim and an intruder, and each lock section is released at least once between
them. The arithmetic is defined by the number of bits of a byte, so what holds at
7 is not tied to 8; the decoder, where 8 matters, runs with 8. `AskLimit` is above
what the calls or sweeps ask, so it cuts nothing off.

One run is expected to end in a counterexample, a statement of the sources that
the code does not keep:

| Run | Statement | What happens |
|---|---|---|
| `Session_ended_reader` | session.rs:185, `ConnectionClosed` "if the reader ended" | a request that registers after the drain waits for its timeout |

Other departures the models show, which no run is kept for:

* session.rs:22-24 says that the client "validates the echoed DID": three operations
  discard it (client.rs:377, 413, 634), so a late reply with the configured ECU list
  is returned as the responding one. `read_fault_detail` does not compare the echoed
  DTC either.
* scan.rs:51 says that "a failed clear is never followed by a reset": the pass decides
  by address (scan.rs:188), and one listed twice, cleared once and failed once, is
  reset. So `FailedClearIsNeverReset` says that some report of an address that is
  reset is without error, which for a list without repetitions is the statement.
* runner.rs:80-81 says that "`Reset` runs on EVERY path that attempted anything": a
  future dropped in Main sends no Reset (runner.rs:108).
* Two calls of the MCP server that record in the same profile at once share one
  temporary file (profile.rs:59-74): an entry is lost or the file is torn.
  `ProfileIsKept` is about the profiles that no two calls recorded at once. A read
  whose connection was replaced between its two lock sections (server.rs:864, 904)
  teaches the profile of the first car what it saw on the second, hence the
  exception of `MemoryIsOfItsCar`.
* One given-up request and a refused `2C 03`, or three given-up requests, make a
  dynamic read show another measurement's value (`MeasurementIsItsOwn`): the late
  confirmation of the request before hides the refusal, all dynamic reads echo
  0xF303, and `scale` takes the first bytes of a longer reply.
* A refused or ambiguous name is an error in `read_data`, but the guard against
  misrouted jobs takes the first match (measurement.rs:428-446).
* A freeze frame cut between two fields leaves no `undecoded_tail`, and the two
  header bytes of a record that is then cut are in neither field nor tail
  (snapshot.rs:244-276). A DID that is a PID and a measurement is shown with the
  measurement's name and the PID's value (main.rs:1769-1785).
* prg.rs:191 says that the decoder "stops at the `eoj` opcode": `decode_job` decodes
  to the end of the bound. decode.rs says that bank F is never produced by decoding:
  the selectors 0x24 to 0x2B give it.
* profile.rs says that an explicit variant is remembered: one found by the ladder is
  recorded too.
* BEST/2 instructions: `comp` and `subb` with the least negative subtrahend invert the
  overflow flag; `mult` on L stores 0 as the high word; an indexed destination out of
  bounds is a hard error for `m.write` even under a mask; `flt2a` cuts numbers of five
  digits; `pars` takes bytes 0x80 to 0x9F for `?`; `scat`, `strcat` and `spaste` may
  exceed `ARRAY_MAX_SIZE` (documented); a negative L through `fix2hex` and `a2fix`
  saturates (exec.rs:1449).
* The keepalive's refusal (`7F 3E`) answers a caller's own TesterPresent to the
  gateway (session.rs:18-20 excludes service collisions).
* A late `7F 22` for another DID makes an optional record look absent
  (client.rs:313): the refusal names no DID.
* An ECU that owes a late reply when its report is begun shifts every reply of that
  report by one: the pre-read records faults as they were before (scan.rs:41-42),
  and, four sweeps later at the earliest, `verified_clean` or a performed reset can
  rest on what was done before the report (scan.rs:46-49). The properties of
  `ClearSweep` say so: they are about reports that are not `suspect`.
* A clear that was executed and whose reply was lost is reported as an error
  (scan.rs:183-185).
* With replies shifted by one, a service run can report success of a phase whose
  own reply is still to come (runner.rs:82-84).
* telegram.rs:219-220 says that the byte `peek_sid` returns "is exactly the byte
  a decode will treat as the SID". A 16-bit form that declares length 0 with bytes
  behind it is classified by the first of these and sent as an empty payload.
  Nothing but the empty payload gets past the gate that way, which is why
  `OnlyAdmittedServices` speaks of nonempty ones.
* A refusal by the gate is an exchange error like any other: a job that masks
  trap bit 19 goes on with an empty response and may return results
  (server.rs:1001-1003 says that it "dies at the seam").

### Fairness

`Session_live`: weak fairness of the steps of a future that is polled when woken
(`Register`, `Receive`, `TimeOut`, `DropGuard`), of `WriteFrame` and
`KeepaliveWrite`, strong fairness of `LockWriter` because tokio's mutex is fair
(FIFO). `WriteFrame` is an assumption about the socket: `write_all` has no
timeout, so a peer that keeps the connection open and stops reading blocks the
writer lock and with it every request. Nothing is assumed of the reader, the
gateway, the ECUs, the keepalive timer or the other callers.

`Hsfz_wire`: weak fairness of each sender's task, and of the gateway emptying its
socket or closing: the same assumption about the peer. `Mcp_calls`: weak fairness
of each call and of the shutdown, since every request of the client and every
connect has a timeout and the mutex is FIFO (its queue is modelled).

`Job_gate`: weak fairness of the loop, which only awaits the transport and a
sleep, and of the transport returning, which is `EveryRequestReturns`.

## 4. Proofs

Checked by TLAPS for all values of the constants: any number of requests, ECUs,
services, ticks, sweeps, calls and cars, any frames, catalog rows and lists of
addresses. Before its proof each inductive invariant was checked by TLC on the
instance of the run of its module.

| Theorem | Module | States |
|---|---|---|
| `TypeCorrect`, `Inductive` | `SessionProofs` | `TypeOK`, `IInv` |
| `SlotsNeverLeak`, `WaitersKeepTheirSlots`, `TargetsAreExclusive`, `FinalsAreLast`, `AnswersAreAddressed` | `SessionProofs` | `NoLeakedSlot`, `WaiterHoldsItsSlot`, `OneRequestPerTarget`, `FinalIsLast`, `AnswersOwnTargetAndService` |
| `SlotsAreFreedByTheirOwner` | `SessionProofs` | action property `SlotFreedByItsOwner` |
| `SessionImplementsExchange` | `SessionProofs` | refinement `ImplementsExchange` |
| `StaleNeedsAbandon`, `AccountIsKept` | `SessionProofs` | `StaleOnlyAfterAbandon`, and the invariant behind the refinement |
| `ClientInvariant`, `StaleNeedsGivingUp`, `ReturnedIsAsked`, `VehicleBlocksAreWhole` | `DiagnosticClientProofs` | `IInv`, `StaleOnlySinceGivenUp`, `ComparedFieldsAreTheirs`, `BlocksAreWhole` |
| `SweepInvariant`, `ReportsTellWhatWasDone`, `NothingUnrecordedIsErased`, `OnlyClearedAreReset` | `ClearSweepProofs` | `IInv`, `ReportsAreBacked`, `ErasedIsRecordedUnlessLate`, `FailedClearIsNeverReset` |
| `RunnerInvariant`, `SendsOnlyIfAllowed`, `ActuatesPrepared`, `ReportsTeardown`, `SendsOnlyTheFunction` | `ServiceRunnerProofs` | `IInv`, `SentOnlyIfAllowed`, `UnpreparedIsNotActuated`, `TeardownIsHonest`, `OnlyTheRequestedFunction` |
| `GateHolds`, `RegisterIsCurrent` | `JobEngineProofs` | `OnlyAdmittedServices`, `RegisterIsOfTheLastExchange` |
| `McpInvariant`, `ClearedIsWhatWasRead`, `RememberedIsItsCars`, `ProfilesAreKept` | `McpServerProofs` | `IInv`, `ClearIsOfTheReadCar`, `MemoryIsOfItsCar`, action property `ProfileIsKept` |
| `WireInvariant`, `FramesAreWhole`, `ConnectsToTheOnlyOne` | `HsfzWireProofs` | `IInv`, `FramesArriveWhole`, `DiscoveryIsUnambiguous` |

### The session

The safety properties of the session are not inductive one by one: that a waiting
request still holds its slot depends on generations being distinct (else another
guard could free it), on the guard being the only one that frees without a
delivery, and on the reader removing the slot with every final delivery. `IInv`
puts these together:

* `TypeOK`;
* `SlotDiscipline`: `NoLeakedSlot` (a slot belongs to a live, guarded request of
  that target, generation and service), `WaiterHoldsItsSlot` (a guarded request
  without a final delivery holds its slot), `GenerationsDistinct`,
  `SlotAwaitsItsFinal` (a slot in the table has had no final delivery),
  `QuietOutsideGuard` (a future outside the guard has an empty channel);
* `FinalIsLast`;
* `WireIsAddressed` (what an ECU has been sent, and what it replies to, was
  addressed to it);
* `AnswersOwnTargetAndService`.

As a consequence the branch of session.rs:256 (the channel closed without a
delivery) is dead.

The refinement needs more: that a call closes only with what an ECU was drawn to
say. `Account` adds that a future has no outcome before it returns, that one
returning while its slot or its final delivery is still there gave up, what a
delivery may be, and that whoever made an ECU speak has sent its frame. Each
action of `Session` then maps to one of `Exchange` or to a stutter; the drain
closes several calls at once, as `Exchange` allows.

`StaleNeedsAbandon` turns on `FaithfulIsOwn`: while every request to an ECU for a
service takes its own answer, whoever has a frame or a reply on the wire still
waits, so the next reply for that service is its. That a request is in an ECU's
queue at most once and its final reply comes last is `RepliesEnd`.

### The transport

`FramesArriveWhole` speaks of frames, the steps move bytes. `Carries(b, fs, k)` joins
the two: there are positions in `b` at which the encodings of the frames of `fs` after
the first `k` stand, one directly after the other, and `b` ends with the last one.
The invariant says it of both streams: of the bytes under way to the gateway followed
by what the writer has left of its frame (`Upwards`, while no request was dropped in
the middle of a frame), and of what the kernel holds for the reader followed by the
bytes under way to it (`Downwards`, while the reader runs). A part of a write and a
segment leave the row as it is (`Moved`); a new frame goes to its end
(`CarriesOneMore`), a frame dropped before its first byte leaves it (`CarriesFront`);
and `CutOff` is the point of it: once as many bytes have come as the LENGTH in front
says, they are the next frame and nothing of the one behind it, so `decode` gives it
back and the others stay. `Line` is needed with it: whoever writes leads the line
before the lock, so two frames never mix, and a dropped sender gives up its own place
and no other.

### The link and the operations above it

`EcuLinkProofs` is shared by three proofs. `LinkInv` says what an ECU owes: the
requests in its inbox and behind the replies in its outbox are of increasing serial
number, all newer than its last own answer (`synced`), and are the open one or
exist only while it is `Late`. Each lemma takes one operator of `EcuLink` and
gives back `LinkInv` and what it did to the queues, so that a module above it
cites the lemma for the actions it builds on the operator.

`DiagnosticClientProofs`: the scripts first (every refusal an error or nothing, the
blocks of `identify_vehicle` contiguous), then the steps. An answer may be of
another request but never of another ECU or service, and a compared echo settles
the DID; hence `ReturnedIsAsked`. `VehicleBlocksAreWhole` needs `Covered`: a step
behind the current one was answered, or its block was left, its values removed and
its remaining steps skipped. Contiguity is why leaving a block skips nothing else.

`ClearSweepProofs`: a report that was begun while its ECU owed nothing goes on only
while it owes nothing (`Punctual`), so the answers it takes are its own. `Fresh`
then says that whoever reports a clear or a reset executed says so since the report
was begun, `Verifying` that the second read was taken after the clear, and
`Recording` that the first read takes all that was stored, since no clear can come
between. The clear may be executed long after it was given up:
`ClearsAreKnown` keeps, for every clear on its way, that its report recorded what
was stored before the clear was sent. `ResetPass` carries the choice of the ECUs to
reset through the pass.

`ServiceRunnerProofs`: the phases run in order and every failure but the
teardown's is remembered (`Lifecycle`), and if no request was given up, what the
ECU last reported done is what its component does (`Carried`).

`OnlyTheRequestedFunction` is a fact about the rows, carried through the steps by
`Asked`. A stable sort is an order in which any two rows differ (`AheadIsAnOrder`), so
as many rows stand ahead of one as its place says and every place is taken (`Places`):
the sorted rows are the rows, every one once (`Sorts`). Those of one function and
phase stand together (`GroupStandsTogether`) and make one invocation
(`OneInvocation`); their positions increase with their places, so the n-th argument
is the value whose position has n - 1 positions below it (`Ordinals`,
`FirstIsWhole`).

### The job engine

`GateHolds` rests on `PeekIsTheService`: if a frame decodes to a nonempty payload,
the peeked byte is its first. `RegisterIsCurrent` rests on `EncodedIsDecoded`:
`decode` of `encode` is what was encoded, in each of the three forms.

### The server

`McpInvariant`: a call between two requests of one lock section holds the mutex, and
what it has done it did to the connection that is held (`MidSection`); a list of
fitted ECUs and a VIN are those of the car they were read from (`HeldIsItsOwn`,
`VinIsOfItsCar`, with `replaced` as the exception it is); every entry of a profile
file, of a temporary file and of a call about to write was learned for that VIN
(`FilesAreKnown`). `ProfilesAreKept` adds `OneWriter`: a VIN that no two calls
recorded at once has at most one call between open and rename, so what is renamed
is what that call merged from the file it loaded.

### Assumptions

Those on constants, named in the module that declares them and evaluated by TLC in
its run: kinds of the sets, distinctness of the special values, bounds natural. Seven
say more about the program. `ClearAssumption`: a sweep has at least one address (over
none it returns no report). `ClientAssumption`: `identify_vehicle` asks each ECU at
least one DID, as its table does. `McpAssumption`: a car has a VIN, and the ECUs are
finitely many. `ResponsesAssumption`: an ECU's response is not empty and is no longer
than a telegram has a length for, which the limit on HSFZ frames (frame.rs:42)
guarantees. `FramesAssumption`: the senders' frames are diagnostic ones with both
addresses, as `HsfzFrame::diagnostic` builds them; the gateway's are any, given in the
form in which their bytes are read (`Regular`). `AnnounceAssumption`: a gateway writes
the marker at most once in its announcement, and a VIN behind it. `RunnerAssumption`: the
catalog has one row per argument (phase.rs:7), so the positions of one function and
phase differ, and the rows are handed over in some order of them.

### What is only model-checked

* Liveness (`EveryRequestReturns`, `EveryJobReturns`, `EveryWriteEnds`,
  `EveryCallReturns`): fairness and ENABLED are beyond this prover.
* The instructions, decoders, readings and file formats (`Best_jobs`, `Decoders`,
  `Readings`): recursive over data.
* `ChangesAreAskedFor` of `Readings`: not tried (section 6).

## 5. Not modelled

* `crates/semantic/src/catalog.rs`: read-only SQL over a database; its answers are
  constants of the models that use them. `docbuild` and the scripts: offline
  conversion.
* `scan_faults` as a fan-out: it changes nothing, each read is a request of
  `Session`, and a repeated address meets its own slot.
* The offline listings of the CLI (`measurements`, `ecu-tree`, `service list`,
  `job list`, `job args`), its `identify`, whose requests are in `DiagnosticClient`,
  and all wording, rounding and layout of output.
* Floats: exact fractions stand for `f64`; infinities and rounding are left out,
  except that NaN readings are modelled in `ServiceRunner`.
* The choice of the local interface for discovery, the names of negative response
  codes, the text of DTOs.
* Time: a timeout may happen whenever the code waits.

## 6. Plan

Done: every module above, and the proofs of section 4. What is left, in this order:

1. `ChangesAreAskedFor` of `Readings`, on top of `EcuLinkProofs`: what a command asks
   is one of its script, for whatever tables the SGBD has.
2. `EcuLink` as an abstraction of `Session`: that one caller who makes one request at a
   time sees no more of `Session` than `EcuLink` gives it, so far an argument in words.
