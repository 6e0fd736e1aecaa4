----------------------------- MODULE McpServer -----------------------------
(***************************************************************************)
(* The MCP server: the tools an agent calls, the one car connection they   *)
(* share behind a mutex, the shutdown of the process, and the per-VIN      *)
(* profile files in which a scaled read is remembered.                     *)
(*                                                                         *)
(* Every tool call is a task of its own on a multi-threaded runtime.  The  *)
(* code a task runs between two awaits is one action, except for the       *)
(* profile files, which other threads see change one system call at a      *)
(* time.  The tokio mutex is its queue: the head of `lock' holds it.       *)
(***************************************************************************)
EXTENDS Naturals, Sequences, FiniteSets

CONSTANTS
    Calls,       \* the tool calls, 1..n, issued in this order
    Requests,    \* the requests it makes
    Cars, Vin,   \* the cars within reach, and the VIN of each
    Ecus,        \* diagnostic addresses
    Configured,  \* the addresses the gateway of each car lists
    Variants,    \* SGBD variant names
    Candidates,  \* the variants the semantic DB knows for an address
    Loadable,    \* the variants with a readable .prg in --sgbd-dir
    SgAdr,       \* the address a variant's measurements name, or None
    UseProfiles, \* FALSE under --no-profile
    Main,        \* the main task, which shuts the server down
    None

Vins == {Vin[car] : car \in Cars}

\* A connection: its car, the VIN it was found to have, and the list of its
\* addresses once it is cached.
Held == [car : Cars, vin : Vins \union {None}, fitted : {None} \union SUBSET Ecus]

ASSUME McpAssumption ==
    /\ IsFiniteSet(Ecus)
    /\ Main \notin Calls
    /\ None \notin Calls /\ None \notin Cars /\ None \notin Ecus
    /\ None \notin Variants /\ None \notin Held
    /\ \A car \in Cars : Vin[car] # None
    /\ Configured \in [Cars -> SUBSET Ecus]
    /\ \A car \in Cars : Configured[car] # None
    /\ Candidates \in [Ecus -> SUBSET Variants]
    /\ Loadable \subseteq Variants
    /\ \A r \in Requests : /\ r.ecu \in Ecus \union {None}
                           /\ r.variant \in Variants \union {None}
                           /\ r.car \in Cars \union {None}

VARIABLES
    state,     \* the held connection, or None
    lock,      \* the tasks that hold (head) or await the mutex on it
    main,      \* the main task
    stage,     \* where each call is
    req,       \* its request
    loc,       \* its local variables
    cache,     \* sgbd_cache: the variants parsed once
    dir,       \* the two names of each VIN's profile: the inode at each
    inode,     \* the content of each inode
    deeds,     \* history: what each call did to which car
    learned,   \* history: the scaled reads that were to be remembered
    raced      \* history: the VINs that two calls recorded at the same time

vars == <<state, lock, main, stage, req, loc, cache, dir, inode, deeds, learned, raced>>
fileVars == <<dir, inode>>
history == <<deeds, learned, raced>>

Profile == [Ecus -> Variants \union {None}]

\* CarProfile::default: nothing is known of the car.
NoProfile == [e \in Ecus |-> None]

Locals == [vin : Vins \union {None}, variant : Variants \union {None},
           conn : Cars \union {None}, replaced : BOOLEAN,
           fd : Calls \union {None}, profile : Profile]

Stages == {"idle", "establish", "install", "drop", "peek", "resolve", "list", "use", "clear",
           "reset", "sweep", "load", "open", "write", "rename", "done"}
Names == [tmp : Calls \union {None}, json : Calls \union {None}]
Contents == [size : 0..Cardinality(Ecus), parses : BOOLEAN, profile : Profile]
Deeds == [op : {"read", "clear", "reset", "scan_ecus", "read_all_faults", "clear_all_faults"},
          car : Cars, ecus : SUBSET Ecus]

TypeOK ==
    /\ state \in {None} \union Held
    /\ lock \in Seq(Calls \union {Main})
    /\ main \in {"serving", "closed", "signalled", "exited"}
    /\ stage \in [Calls -> Stages]
    /\ req \in [Calls -> Requests \union {None}]
    /\ loc \in [Calls -> Locals]
    /\ cache \subseteq Variants
    /\ dir \in [Vins -> Names]
    /\ inode \in [Calls -> Contents]
    /\ deeds \in [Calls -> SUBSET Deeds]

NoLocals == [vin |-> None, variant |-> None, conn |-> None, replaced |-> FALSE,
             fd |-> None, profile |-> NoProfile]

\* A connection as establish leaves it: nothing is cached yet.
Connection(car, vin) == [car |-> car, vin |-> vin, fitted |-> None]

\* The server starts without a connection; the runs also start it with one,
\* which is how a connect, or a scan after it, leaves it.
Init ==
    /\ \/ state = None
       \/ \E car \in Cars, scanned \in BOOLEAN :
            state = [Connection(car, Vin[car]) EXCEPT
                       !.fitted = IF scanned THEN Configured[car] ELSE None]
    /\ lock = <<>>
    /\ main = "serving"
    /\ stage = [c \in Calls |-> "idle"]
    /\ req = [c \in Calls |-> None]
    /\ loc = [c \in Calls |-> NoLocals]
    /\ cache = {}
    /\ dir = [v \in Vins |-> [tmp |-> None, json |-> None]]
    /\ inode = [c \in Calls |-> [size |-> 0, parses |-> FALSE, profile |-> NoProfile]]
    /\ deeds = [c \in Calls |-> {}]
    /\ learned = {}
    /\ raced = {}

-----------------------------------------------------------------------------
(* Tasks and the mutex *)

Idle(c) == stage[c] = "idle"
InProfile(c) == stage[c] \in {"load", "open", "write", "rename"}

\* The process is gone once main has returned; the runtime only waits for the
\* code a task is in the middle of, which is what profile::record is.
Runs(c) == main # "exited" \/ InProfile(c)
Holds(t) == lock # <<>> /\ Head(lock) = t

Go(c, next) == stage' = [stage EXCEPT ![c] = next]
Await(c, next) == Go(c, next) /\ lock' = Append(lock, c)
Release == lock' = Tail(lock)
Set(c, field, value) == loc' = [loc EXCEPT ![c][field] = value]

\* The calls that are inside profile::record for a VIN.
Recording(v) == {c \in Calls : InProfile(c) /\ loc[c].vin = v}

\* The tools by the shape of their handler.
ReadTools == {"read_faults", "read_info_memory", "identify_vehicle"}
SweepTools == {"scan_ecus", "read_all_faults", "clear_all_faults"}
VariantTools == {"read_fault_detail", "read_data", "run_job"}
ListTools == {"list_measurements", "list_service_functions"}
OfflineTools == {"list_ecus", "fault_help"}
Writes == {"clear_faults", "clear_all_faults"}

\* ecu::resolve finds an address in every request but these.
Unresolved(r) == r.ecu = None

-----------------------------------------------------------------------------
(* The start of a call: up to its first await *)

\* Invalid parameters, or a write that is not confirmed.
ReturnsAtOnce(r) ==
    \/ r.tool \in Writes /\ ~r.confirm
    \/ r.tool \in (ReadTools \ {"identify_vehicle"}) \union VariantTools
                    \union {"clear_faults", "fault_help"} /\ Unresolved(r)
    \/ r.tool \in ListTools /\ r.variant = None /\ Unresolved(r)
    \/ r.tool = "connect" /\ r.car = None

Starts(c, r) ==
    IF ReturnsAtOnce(r) THEN Go(c, "done") /\ UNCHANGED lock
    ELSE CASE r.tool = "connect"      -> Go(c, "establish") /\ UNCHANGED lock
           [] r.tool = "disconnect"   -> Await(c, "drop")
           [] r.tool \in OfflineTools -> Go(c, "list") /\ UNCHANGED lock
           [] r.tool \in VariantTools -> Await(c, "peek")
           [] r.tool \in ListTools    -> IF r.variant # None
                                         THEN Go(c, "list") /\ UNCHANGED lock
                                         ELSE Await(c, "peek")
           [] OTHER                   -> Await(c, "use")

Call(c) ==
    /\ Idle(c) /\ \A d \in Calls : d < c => ~Idle(d)
    /\ main \in {"serving", "signalled"}
    /\ \E r \in Requests :
        /\ req' = [req EXCEPT ![c] = r]
        /\ Starts(c, r)
    /\ UNCHANGED <<state, main, loc, cache, fileVars, history>>

-----------------------------------------------------------------------------
(* connect, disconnect and the shutdown *)

\* session::establish connects without the lock and reads the VIN; the VIN of
\* the announcement stands in for it when the gateway was discovered.
establish(c) ==
    /\ stage[c] = "establish"
    /\ \/ /\ \E did \in {Vin[req[c].car], None} :
              \E announced \in IF req[c].given THEN {None} ELSE {Vin[req[c].car], None} :
                loc' = [loc EXCEPT ![c].vin = IF did # None THEN did ELSE announced]
          /\ Await(c, "install")
       \/ Go(c, "done") /\ UNCHANGED <<loc, lock>>
    /\ UNCHANGED <<state, main, req, cache, fileVars, history>>

\* What replaces the connection, seen from the calls that looked at it before.
Replaced(d) == [loc[d] EXCEPT !.replaced = @ \/ stage[d] \in {"resolve", "use"}]

\* Mutant: the VIN and the list of the held connection fill the gaps.
NewConnection_Inheriting(c) ==
    IF state = None \/ loc[c].vin # None THEN Connection(req[c].car, loc[c].vin)
    ELSE [state EXCEPT !.car = req[c].car]

\* The new connection is a fresh value: no VIN and no list of the old one.
NewConnection(c) == Connection(req[c].car, loc[c].vin)

install(c) ==
    /\ stage[c] = "install" /\ Holds(c)
    /\ state' = NewConnection(c)
    /\ loc' = [d \in Calls |-> Replaced(d)]
    /\ Release /\ Go(c, "done")
    /\ UNCHANGED <<main, req, cache, fileVars, history>>

disconnect(c) ==
    /\ stage[c] = "drop" /\ Holds(c)
    /\ state' = None
    /\ loc' = [d \in Calls |-> Replaced(d)]
    /\ Release /\ Go(c, "done")
    /\ UNCHANGED <<main, req, cache, fileVars, history>>

\* The client closes the transport, or the process is signalled; only in the
\* second case may calls still arrive until main has the lock.
Shutdown ==
    /\ main = "serving"
    /\ main' \in {"closed", "signalled"}
    /\ lock' = Append(lock, Main)
    /\ UNCHANGED <<state, stage, req, loc, cache, fileVars, history>>

disconnect_now ==
    /\ main \in {"closed", "signalled"} /\ Holds(Main)
    /\ state' = None
    /\ main' = "exited"
    /\ Release
    /\ UNCHANGED <<stage, req, loc, cache, fileVars, history>>

-----------------------------------------------------------------------------
(* Profiles and the variant ladder *)

\* profile::load: a missing or a corrupt file is an empty profile.
load(vin) ==
    LET i == dir[vin].json
    IN IF i # None /\ inode[i].parses THEN inode[i].profile ELSE NoProfile

\* resolve_variant: explicit, else learned for the VIN, else the only
\* candidate of the DB whose .prg is there.
resolve_variant(r, vin) ==
    LET found == Candidates[r.ecu] \intersect Loadable
    IN IF r.variant # None THEN r.variant
       ELSE IF UseProfiles /\ vin # None /\ load(vin)[r.ecu] # None THEN load(vin)[r.ecu]
       ELSE IF Cardinality(found) = 1 THEN CHOOSE v \in found : TRUE
       ELSE None

\* Mutant: the guard of the first section lives on into the second.
peek_Holding(c) ==
    /\ stage[c] = "peek" /\ Holds(c)
    /\ Set(c, "vin", IF state = None THEN None ELSE state.vin)
    /\ UNCHANGED lock /\ Go(c, "resolve")
    /\ UNCHANGED <<state, main, req, cache, fileVars, history>>

\* The first lock section of a variant tool: it copies the VIN and lets go.
peek(c) ==
    /\ stage[c] = "peek" /\ Holds(c)
    /\ Set(c, "vin", IF state = None THEN None ELSE state.vin)
    /\ Release /\ Go(c, "resolve")
    /\ UNCHANGED <<state, main, req, cache, fileVars, history>>

\* An explicit variant that cannot be served is an error, one of the ladder is
\* a raw read; a measurement of another ECU is refused; a name needs a catalog.
ReadDataRefuses(r, v) ==
    \/ r.variant # None /\ v \notin Loadable
    \/ r.by = "name" /\ v \notin Loadable
    \/ r.by = "both"
    \/ v \in Loadable /\ SgAdr[v] # None /\ SgAdr[v] # r.ecu

\* A job needs its bytecode, whoever named the variant.
Refuses(r, v) ==
    CASE r.tool = "run_job" -> v \notin Loadable
      [] r.tool = "read_fault_detail" -> r.variant # None /\ v \notin Loadable
      [] r.tool = "read_data" -> ReadDataRefuses(r, v)
      [] OTHER -> v = None

\* What follows the ladder: measurements() fills the cache, a refused request
\* returns, a job that reads a dynamic measurement is sent to read_data.
resolve(c) ==
    /\ stage[c] = "resolve"
    /\ LET r == req[c]
           v == resolve_variant(r, loc[c].vin)
           parsed == IF r.tool \in {"read_data", "run_job"} THEN {v} \intersect Loadable ELSE {}
           misrouted == r.tool = "run_job" /\ v \in Loadable
       IN /\ Set(c, "variant", v)
          /\ cache' = cache \union parsed
          /\ \/ (Refuses(r, v) \/ misrouted) /\ Go(c, "done") /\ UNCHANGED lock
             \/ ~Refuses(r, v) /\ r.tool \in ListTools /\ Go(c, "list") /\ UNCHANGED lock
             \/ ~Refuses(r, v) /\ r.tool \in VariantTools /\ Await(c, "use")
    /\ UNCHANGED <<state, main, req, fileVars, history>>

\* The listings return or fail without the car.  list_measurements parses the
\* SGBD of its variant, else it lists what the DB knows of it.
list_measurements(c) ==
    /\ stage[c] = "list" /\ req[c].tool = "list_measurements"
    /\ LET v == IF req[c].variant # None THEN req[c].variant ELSE loc[c].variant
       IN cache' = cache \union ({v} \intersect Loadable)
    /\ Go(c, "done")
    /\ UNCHANGED <<state, lock, main, req, loc, fileVars, history>>

Lists(c, tool) ==
    /\ stage[c] = "list" /\ req[c].tool = tool
    /\ Go(c, "done")
    /\ UNCHANGED <<state, lock, main, req, loc, cache, fileVars, history>>

list_service_functions(c) == Lists(c, "list_service_functions")
list_ecus(c) == Lists(c, "list_ecus")
fault_help(c) == Lists(c, "fault_help")

-----------------------------------------------------------------------------
(* The lock section that uses the connection *)

Does(c, what) == deeds' = [deeds EXCEPT ![c] = @ \union {what}]
Deed(op, ecus) == [op |-> op, car |-> state.car, ecus |-> ecus]

not_connected(c) ==
    /\ stage[c] = "use" /\ Holds(c) /\ state = None
    /\ Release /\ Go(c, "done")
    /\ UNCHANGED <<state, main, req, loc, cache, fileVars, history>>

\* One read of the client, answered or not, and the lock is released.
Reads(c, tool) ==
    /\ stage[c] = "use" /\ Holds(c) /\ state # None /\ req[c].tool = tool
    /\ Release /\ Go(c, "done")
    /\ UNCHANGED <<state, main, req, loc, cache, fileVars, history>>

read_faults(c) == Reads(c, "read_faults")
read_info_memory(c) == Reads(c, "read_info_memory")
read_fault_detail(c) == Reads(c, "read_fault_detail")
identify_vehicle(c) == Reads(c, "identify_vehicle")
run_job(c) == Reads(c, "run_job")

\* read_data: only a value that the SGBD scaled is remembered, and only for a
\* car that has a VIN: the VIN read in the first lock section.
read_data(c) ==
    /\ stage[c] = "use" /\ Holds(c) /\ state # None /\ req[c].tool = "read_data"
    /\ LET v == loc[c].variant
           remembers == UseProfiles /\ loc[c].vin # None
           fact == [vin |-> loc[c].vin, ecu |-> req[c].ecu, variant |-> v,
                    car |-> state.car, replaced |-> loc[c].replaced]
       IN \/ /\ v \in Loadable /\ remembers
             /\ Go(c, "load")
             /\ learned' = learned \union {fact}
             /\ raced' = raced \union (IF Recording(loc[c].vin) = {} THEN {} ELSE {loc[c].vin})
          \/ Go(c, "done") /\ UNCHANGED <<learned, raced>>
    /\ Release
    /\ UNCHANGED <<state, main, req, loc, cache, fileVars, deeds>>

\* clear_faults: the codes are read, then cleared, then the ECU is reset, all
\* in one lock section; a failed read or clear ends the call.
Gateway == 0

\* Mutant: the pre-read has a lock section of its own.
clear_preread_Apart(c) ==
    /\ stage[c] = "use" /\ Holds(c) /\ state # None /\ req[c].tool = "clear_faults"
    /\ Does(c, Deed("read", {req[c].ecu}))
    /\ Go(c, "clear") /\ lock' = Append(Tail(lock), c)
    /\ UNCHANGED <<state, main, req, loc, cache, fileVars, learned, raced>>

clear_preread(c) ==
    /\ stage[c] = "use" /\ Holds(c) /\ state # None /\ req[c].tool = "clear_faults"
    /\ Does(c, Deed("read", {req[c].ecu}))
    /\ \/ Go(c, "clear") /\ UNCHANGED lock
       \/ Go(c, "done") /\ Release
    /\ UNCHANGED <<state, main, req, loc, cache, fileVars, learned, raced>>

clear_all_dtcs(c) ==
    /\ stage[c] = "clear" /\ Holds(c) /\ state # None
    /\ Does(c, Deed("clear", {req[c].ecu}))
    /\ \/ req[c].reset /\ req[c].ecu # Gateway /\ Go(c, "reset") /\ UNCHANGED lock
       \/ Go(c, "done") /\ Release
    /\ UNCHANGED <<state, main, req, loc, cache, fileVars, learned, raced>>

ecu_reset(c) ==
    /\ stage[c] = "reset" /\ Holds(c) /\ state # None
    /\ Does(c, Deed("reset", {req[c].ecu}))
    /\ Release /\ Go(c, "done")
    /\ UNCHANGED <<state, main, req, loc, cache, fileVars, learned, raced>>

\* fitted_addrs: the list of this connection, or a fresh one, which replaces it;
\* a failed read ends the call.
fitted_addrs(c) ==
    /\ stage[c] = "use" /\ Holds(c) /\ state # None /\ req[c].tool \in SweepTools
    /\ \/ ~req[c].rescan /\ state.fitted # None /\ UNCHANGED <<state, lock>> /\ Go(c, "sweep")
       \/ /\ req[c].rescan \/ state.fitted = None
          /\ \/ /\ state' = [state EXCEPT !.fitted = Configured[state.car]]
                /\ Go(c, "sweep") /\ UNCHANGED lock
             \/ Release /\ Go(c, "done") /\ UNCHANGED state
    /\ UNCHANGED <<main, req, loc, cache, fileVars, history>>

\* What each tool does with the list, still in the same lock section.
Sweeps(c, tool) ==
    /\ stage[c] = "sweep" /\ Holds(c) /\ req[c].tool = tool
    /\ Does(c, Deed(tool, state.fitted))
    /\ Release /\ Go(c, "done")
    /\ UNCHANGED <<state, main, req, loc, cache, fileVars, learned, raced>>

scan_ecus(c) == Sweeps(c, "scan_ecus")
read_all_faults(c) == Sweeps(c, "read_all_faults")
clear_all_faults(c) == Sweeps(c, "clear_all_faults")

-----------------------------------------------------------------------------
(* profile::record, one system call at a time and without a lock *)

Entries(p) == Cardinality({e \in Ecus : p[e] # None})

\* Mutant: only the new entry is written.
Merged_Alone(c) == [NoProfile EXCEPT ![req[c].ecu] = loc[c].variant]

\* The profile to write: what is on disk with the new entry merged in.
Merged(c) == [load(loc[c].vin) EXCEPT ![req[c].ecu] = loc[c].variant]

record_load(c) ==
    /\ stage[c] = "load"
    /\ Set(c, "profile", Merged(c))
    /\ Go(c, IF load(loc[c].vin)[req[c].ecu] = loc[c].variant THEN "done" ELSE "open")
    /\ UNCHANGED <<state, lock, main, req, cache, fileVars, history>>

\* fs::write opens the temporary file, which is the same for every writer of
\* this VIN, and empties it; or the directory cannot be made.
record_open(c) ==
    /\ stage[c] = "open"
    /\ \/ LET v == loc[c].vin
              i == IF dir[v].tmp = None THEN c ELSE dir[v].tmp
          IN /\ dir' = [dir EXCEPT ![v].tmp = i]
             /\ inode' = [inode EXCEPT ![i] = [@ EXCEPT !.size = 0, !.parses = FALSE]]
             /\ Set(c, "fd", i)
             /\ Go(c, "write")
       \/ Go(c, "done") /\ UNCHANGED <<fileVars, loc>>
    /\ UNCHANGED <<state, lock, main, req, cache, history>>

\* Then it writes from the start (over a longer text the end of that remains),
\* or the write fails and the temporary file stays as it is.
record_write(c) ==
    /\ stage[c] = "write"
    /\ LET i == loc[c].fd
           n == Entries(loc[c].profile)
           longer == inode[i].size > n
       IN \/ /\ inode' = [inode EXCEPT ![i] =
                          [size |-> IF longer THEN @.size ELSE n, parses |-> ~longer,
                           profile |-> loc[c].profile]]
             /\ Go(c, "rename")
          \/ Go(c, "done") /\ UNCHANGED inode
    /\ UNCHANGED <<state, lock, main, req, loc, cache, dir, history>>

\* The rename takes whatever the temporary name stands for by now; it fails
\* when another writer has renamed it, and the call returns all the same.
record_rename(c) ==
    /\ stage[c] = "rename"
    /\ LET v == loc[c].vin
       IN dir' = IF dir[v].tmp = None THEN dir
                 ELSE [dir EXCEPT ![v] = [tmp |-> None, json |-> @.tmp]]
    /\ Go(c, "done")
    /\ UNCHANGED <<state, lock, main, req, loc, cache, inode, history>>

-----------------------------------------------------------------------------
Step(c) ==
    /\ Runs(c)
    /\ \/ establish(c) \/ install(c) \/ disconnect(c)
       \/ peek(c) \/ resolve(c)
       \/ list_measurements(c) \/ list_service_functions(c) \/ list_ecus(c) \/ fault_help(c)
       \/ not_connected(c) \/ read_faults(c) \/ read_info_memory(c) \/ read_fault_detail(c)
       \/ identify_vehicle(c) \/ run_job(c) \/ read_data(c)
       \/ clear_preread(c) \/ clear_all_dtcs(c) \/ ecu_reset(c)
       \/ fitted_addrs(c) \/ scan_ecus(c) \/ read_all_faults(c) \/ clear_all_faults(c)
       \/ record_load(c) \/ record_open(c) \/ record_write(c) \/ record_rename(c)

Next == \/ \E c \in Calls : Call(c) \/ Step(c)
        \/ Shutdown \/ disconnect_now

Spec == Init /\ [][Next]_vars

\* Every await of a handler ends: the mutex is fair, connecting and every
\* request of the client have a timeout.
FairSpec == Spec /\ \A c \in Calls : WF_vars(Step(c)) /\ WF_vars(disconnect_now)

-----------------------------------------------------------------------------
(* Properties *)

\* Every tool call returns, and a shutdown ends the process: no handler waits
\* for the mutex that it holds itself or that a call before it never releases.
EveryCallReturns ==
    /\ \A c \in Calls : stage[c] # "idle" ~> (stage[c] = "done" \/ main = "exited")
    /\ main \in {"closed", "signalled"} ~> main = "exited"

\* The codes clear_faults echoes were read from the car it then clears and
\* resets, at the same address, whatever connect or disconnect was called
\* meanwhile; it resets only what it cleared.
ClearIsOfTheReadCar ==
    \A c \in Calls : \A d \in deeds[c] :
        LET Did(op) == [op |-> op, car |-> d.car, ecus |-> d.ecus] \in deeds[c]
        IN  (d.op = "clear" => Did("read")) /\ (d.op = "reset" => Did("clear"))

\* What the server remembers belongs to the car it is used for.  A sweep visits
\* the addresses that the gateway of the swept car lists: the cached list never
\* outlives the connection it was read over.  What a profile says of a VIN was
\* scaled on a car with that VIN, unless the connection was replaced between the
\* two lock sections of the read (server.rs:855-960, session.rs, profile.rs).
MemoryIsOfItsCar ==
    /\ \A c \in Calls : \A d \in deeds[c] :
          d.op \in SweepTools => d.ecus = Configured[d.car]
    /\ \A v \in Vins, e \in Ecus : load(v)[e] # None =>
          \E f \in learned :
              /\ f.vin = v /\ f.ecu = e /\ f.variant = load(v)[e]
              /\ Vin[f.car] = v \/ f.replaced

\* A profile that no two calls recorded at the same time is a whole file and
\* only grows: it is replaced, never written in place, and the entries of the
\* other ECUs are kept, whichever system call fails.
ProfileIsKept ==
    [][\A v \in Vins \ raced' :
        /\ dir'[v].json # None => inode'[dir'[v].json].parses
        /\ \A e \in Ecus : load(v)[e] # None => (load(v)[e])' # None]_vars
=============================================================================
