-------------------------- MODULE McpServerProofs --------------------------
(***************************************************************************)
(* What the mutex of the MCP server guarantees, for any number of calls,   *)
(* cars, ECUs and variants: a clear, its pre-read and its reset are done   *)
(* to one car, and what the server remembers belongs to the car it is used *)
(* for.                                                                    *)
(***************************************************************************)
EXTENDS McpServer, FiniteSetTheorems, TLAPS

USE McpAssumption

-----------------------------------------------------------------------------
(***************************************************************************)
(* The inductive invariant.                                                *)
(***************************************************************************)

\* A call that waits to be issued knows nothing; past its parameter check it has
\* the arguments its tool needs.
Checked ==
    \A c \in Calls :
        /\ stage[c] = "idle" => loc[c].vin = None
        /\ stage[c] \notin {"idle", "done"} => req[c] \in Requests
        /\ stage[c] \in {"establish", "install"} => req[c].car \in Cars
        /\ stage[c] \in {"peek", "resolve", "clear", "reset", "load"} => req[c].ecu \in Ecus
        /\ stage[c] = "use" /\ req[c].tool \in {"read_data", "clear_faults"} =>
              req[c].ecu \in Ecus

\* The held connection: a VIN and a list, if it has them, are its car's own.
HeldIsItsOwn ==
    state # None => /\ state.vin \in {None, Vin[state.car]}
                    /\ state.fitted \in {None, Configured[state.car]}

\* A call between two requests of one lock section holds the mutex, and what it
\* did so far it did to the car that is held.
MidSection ==
    \A c \in Calls :
        /\ stage[c] \in {"clear", "reset", "sweep"} => Holds(c) /\ state # None
        /\ stage[c] = "clear" => Deed("read", {req[c].ecu}) \in deeds[c]
        /\ stage[c] = "reset" => Deed("clear", {req[c].ecu}) \in deeds[c]
        /\ stage[c] = "sweep" => state.fitted = Configured[state.car]

SweepsItsCar ==
    \A c \in Calls : \A d \in deeds[c] : d.op \in SweepTools => d.ecus = Configured[d.car]

\* A VIN in a local variable is the one of the car it was read from.
VinIsOfItsCar ==
    \A c \in Calls :
        /\ stage[c] = "install" => loc[c].vin \in {None, Vin[req[c].car]}
        /\ /\ stage[c] \in {"resolve", "use"} /\ main # "exited"
           /\ loc[c].vin # None /\ ~loc[c].replaced
           => Vin[state.car] = loc[c].vin

LearnedIsOfItsCar == \A f \in learned : Vin[f.car] = f.vin \/ f.replaced

\* Every entry of a profile of VIN v was learned for v.
Known(v, profile) ==
    \A e \in Ecus : profile[e] # None =>
        \E f \in learned : f.vin = v /\ f.ecu = e /\ f.variant = profile[e]

Started(i) == stage[i] \in {"write", "rename", "done"}

\* The files of a VIN, and what a recording call is about to write.
FilesAreKnown ==
    /\ \A v \in Vins : \A i \in {dir[v].tmp, dir[v].json} \ {None} : loc[i].vin = v /\ Started(i)
    /\ \A c \in Calls :
        /\ stage[c] = "load" =>
              /\ loc[c].vin \in Vins /\ loc[c].variant \in Variants
              /\ \E f \in learned : /\ f.vin = loc[c].vin /\ f.ecu = req[c].ecu
                                    /\ f.variant = loc[c].variant
        /\ stage[c] \in {"open", "write", "rename"} =>
              loc[c].vin \in Vins /\ Known(loc[c].vin, loc[c].profile)
        /\ stage[c] = "write" =>
              loc[c].fd # None /\ loc[loc[c].fd].vin = loc[c].vin /\ Started(loc[c].fd)
    /\ \A i \in Calls :
          inode[i].parses => Started(i) /\ Known(loc[i].vin, inode[i].profile)

IInv ==
    /\ TypeOK
    /\ Checked
    /\ HeldIsItsOwn
    /\ MidSection
    /\ ClearIsOfTheReadCar
    /\ SweepsItsCar
    /\ VinIsOfItsCar
    /\ LearnedIsOfItsCar
    /\ FilesAreKnown

-----------------------------------------------------------------------------
(***************************************************************************)
(* What the operators of the model return.                                 *)
(***************************************************************************)

\* What the only element of a set is.
LEMMA OneElement ==
    ASSUME NEW S, Cardinality(S) = 1
    PROVE  (CHOOSE v \in S : TRUE) \in S
<1>1. S # {}
  <2>1. Cardinality({}) = 0
    BY FS_EmptySet, Zenon
  <2>2. Cardinality({}) # Cardinality(S)
    BY <2>1
  <2>3. QED
    BY <2>2, Zenon
<1>2. QED
  BY <1>1

\* profile::load finds a variant or nothing for every ECU.
LEMMA LoadTyped ==
    ASSUME TypeOK, NEW v \in Vins
    PROVE  load(v) \in Profile
<1>1. NoProfile \in Profile
  BY DEF NoProfile, Profile
<1>2. QED
  BY <1>1 DEF load, TypeOK, Names, Contents

\* The ladder of resolve_variant ends in a known variant or in none.
LEMMA VariantTyped ==
    ASSUME TypeOK, NEW r \in Requests, r.ecu \in Ecus, NEW vin \in Vins \union {None}
    PROVE  resolve_variant(r, vin) \in Variants \union {None}
<1> DEFINE found == Candidates[r.ecu] \intersect Loadable
<1>1. CASE r.variant # None
  BY <1>1 DEF resolve_variant
<1>2. CASE r.variant = None /\ UseProfiles /\ vin # None /\ load(vin)[r.ecu] # None
  <2>1. load(vin) \in Profile
    BY <1>2, LoadTyped
  <2>2. QED
    BY <1>2, <2>1 DEF resolve_variant, Profile
<1>3. CASE r.variant = None /\ ~(UseProfiles /\ vin # None /\ load(vin)[r.ecu] # None)
  <2>1. Cardinality(found) = 1 => (CHOOSE v \in found : TRUE) \in found
    BY OneElement
  <2>2. QED
    BY <1>3, <2>1 DEF resolve_variant
<1>4. QED
  BY <1>1, <1>2, <1>3

\* A profile has at most one entry for every ECU.
LEMMA EntriesTyped == \A p : Entries(p) \in 0 .. Cardinality(Ecus)
<1> SUFFICES ASSUME NEW p PROVE Entries(p) \in 0 .. Cardinality(Ecus)
  OBVIOUS
<1> DEFINE E == {e \in Ecus : p[e] # None}
<1>1. Cardinality(E) <= Cardinality(Ecus) /\ IsFiniteSet(E)
  BY FS_Subset
<1>2. QED
  BY <1>1, FS_CardinalityType DEF Entries

-----------------------------------------------------------------------------
(***************************************************************************)
(* Every step keeps the types.                                             *)
(***************************************************************************)

\* The server starts well typed.
LEMMA InitTyped == Init => TypeOK
<1> SUFFICES ASSUME Init PROVE TypeOK
  OBVIOUS
<1>1. NoProfile \in Profile /\ NoLocals \in Locals
  BY DEF NoProfile, Profile, NoLocals, Locals
<1>2. state \in {None} \union Held
  BY DEF Init, Connection, Vins, Held
<1>3. [size |-> 0, parses |-> FALSE, profile |-> NoProfile] \in Contents
  BY <1>1, FS_CardinalityType DEF Contents
<1>4. QED
  BY <1>1, <1>2, <1>3 DEF Init, TypeOK, Stages, Names

\* The other local variables stay (profile::record keeps its VIN throughout).
LEMMA SetLeaves ==
    ASSUME loc \in [Calls -> Locals], NEW c \in Calls, NEW x
    PROVE  /\ Set(c, "fd", x) =>
                /\ loc'[c].fd = x
                /\ loc'[c].vin = loc[c].vin /\ loc'[c].profile = loc[c].profile
           /\ Set(c, "profile", x) => loc'[c].profile = x /\ loc'[c].vin = loc[c].vin
<1> DEFINE New(field) == [loc[c] EXCEPT ![field] = x]
<1>1. /\ New("fd").fd = x /\ New("fd").vin = loc[c].vin /\ New("fd").profile = loc[c].profile
      /\ New("profile").profile = x /\ New("profile").vin = loc[c].vin
  BY DEF Locals
<1>2. \A field \in {"fd", "profile"} : Set(c, field, x) => loc'[c] = New(field)
  BY DEF Set
<1> HIDE DEF New
<1>3. QED
  BY <1>1, <1>2

\* A temporary name stands for a file; no other name changes.
LEMMA TemporaryNamed ==
    ASSUME dir \in [Vins -> Names], NEW v \in Vins, NEW i \in Calls,
           dir' = [dir EXCEPT ![v].tmp = i]
    PROVE  /\ dir' \in [Vins -> Names]
           /\ dir'[v].tmp = i /\ dir'[v].json = dir[v].json
           /\ \A w \in Vins \ {v} : dir'[w] = dir[w]
<1>1. ASSUME NEW n \in Names
      PROVE  /\ [n EXCEPT !.tmp = i] \in Names
             /\ [n EXCEPT !.tmp = i].tmp = i /\ [n EXCEPT !.tmp = i].json = n.json
  BY DEF Names
<1>2. dir'[v] = [dir[v] EXCEPT !.tmp = i] /\ \A w \in Vins \ {v} : dir'[w] = dir[w]
  OBVIOUS
<1>3. dir[v] \in Names
  OBVIOUS
<1>4. dir'[v] \in Names /\ dir'[v].tmp = i /\ dir'[v].json = dir[v].json
  BY <1>1, <1>2, <1>3
<1>5. QED
  BY <1>2, <1>4

\* One local variable of a call changes.
LEMMA SetTyped ==
    ASSUME loc \in [Calls -> Locals], NEW c \in Calls
    PROVE  /\ \A x \in Vins \union {None} : Set(c, "vin", x) => loc' \in [Calls -> Locals]
           /\ \A x \in Variants \union {None} : Set(c, "variant", x) => loc' \in [Calls -> Locals]
           /\ \A x \in Calls \union {None} : Set(c, "fd", x) => loc' \in [Calls -> Locals]
           /\ \A x \in Profile : Set(c, "profile", x) => loc' \in [Calls -> Locals]
           /\ \A d \in Calls : Replaced(d) \in Locals
<1> DEFINE New(field, x) == [loc[c] EXCEPT ![field] = x]
<1>2. \A x \in Vins \union {None} : New("vin", x) \in Locals
  BY DEF Locals
<1>3. \A x \in Variants \union {None} : New("variant", x) \in Locals
  BY DEF Locals
<1>4. \A x \in Calls \union {None} : New("fd", x) \in Locals
  BY DEF Locals
<1>5. \A x \in Profile : New("profile", x) \in Locals
  BY DEF Locals
<1>6. \A d \in Calls : Replaced(d) \in Locals
  <2>1. \A l \in Locals, b \in BOOLEAN : [l EXCEPT !.replaced = b] \in Locals
    BY DEF Locals
  <2>2. \A d \in Calls : loc[d] \in Locals
    OBVIOUS
  <2>3. \A d \in Calls : (loc[d].replaced \/ stage[d] \in {"resolve", "use"}) \in BOOLEAN
    OBVIOUS
  <2>4. QED
    BY <2>1, <2>2, <2>3, Zenon DEF Replaced
<1>7. QED
  BY <1>2, <1>3, <1>4, <1>5, <1>6 DEF Set

\* A task joins the queue of the mutex or leaves it.
LEMMA LockTyped ==
    ASSUME lock \in Seq(Calls \union {Main})
    PROVE  /\ \A t : Holds(t) /\ Release => lock' \in Seq(Calls \union {Main})
           /\ \A c \in Calls, next \in Stages : Await(c, next) => lock' \in Seq(Calls \union {Main})
BY DEF Holds, Release, Await

\* A call moves to another stage.
LEMMA GoTyped ==
    ASSUME stage \in [Calls -> Stages], NEW c \in Calls
    PROVE  \A next \in Stages : Go(c, next) => stage' \in [Calls -> Stages]
BY DEF Go

\* A deed is added to a history that is typed.
LEMMA DoesTyped ==
    ASSUME deeds \in [Calls -> SUBSET Deeds], NEW c \in Calls
    PROVE  \A what \in Deeds : Does(c, what) => deeds' \in [Calls -> SUBSET Deeds]
BY DEF Does

\* What is done to the car of the held connection, at known addresses.
LEMMA DeedTyped ==
    ASSUME state \in Held, NEW op \in {"read", "clear", "reset"} \union SweepTools, NEW ecus \in SUBSET Ecus
    PROVE  Deed(op, ecus) \in Deeds
BY DEF Deed, Deeds, Held, SweepTools

\* Every step of a call keeps the types.
LEMMA TypeIsKept ==
    ASSUME TypeOK, Checked, MidSection, FilesAreKnown, NEW c \in Calls, Call(c) \/ Step(c)
    PROVE  TypeOK'
<1> USE DEF TypeOK, fileVars, history
<1>0. \A next \in {"establish", "install", "drop", "peek", "resolve", "list", "use", "clear",
           "reset", "sweep", "load", "open", "write", "rename", "done"} :
         /\ Go(c, next) => stage' \in [Calls -> Stages]
         /\ Await(c, next) => /\ stage' \in [Calls -> Stages]
                              /\ lock' \in Seq(Calls \union {Main})
  BY GoTyped, LockTyped DEF Stages, Await
<1>1. CASE Call(c)
  <2>1. PICK r \in Requests : req' = [req EXCEPT ![c] = r] /\ Starts(c, r)
    BY <1>1 DEF Call
  <2>2. stage' \in [Calls -> Stages] /\ lock' \in Seq(Calls \union {Main})
    BY <1>0, <2>1 DEF Starts
  <2>3. QED
    BY <1>1, <2>1, <2>2 DEF Call
<1>2. CASE establish(c)
  <2>1. CASE Go(c, "done") /\ UNCHANGED <<loc, lock>>
    BY <1>0, <1>2, <2>1 DEF establish
  <2>2. CASE Await(c, "install")
    <3>1. Vin[req[c].car] \in Vins
      BY <1>2 DEF establish, Checked, Vins
    <3>2. PICK did \in {Vin[req[c].car], None} :
            \E announced \in IF req[c].given THEN {None} ELSE {Vin[req[c].car], None} :
              loc' = [loc EXCEPT ![c].vin = IF did # None THEN did ELSE announced]
      BY <1>2, <2>2, Zenon DEF establish, Await, Go
    <3>3. PICK announced \in {Vin[req[c].car], None} :
            loc' = [loc EXCEPT ![c].vin = IF did # None THEN did ELSE announced]
      BY <3>2
    <3>4. loc' \in [Calls -> Locals]
      <4>1. (IF did # None THEN did ELSE announced) \in Vins \union {None}
        BY <3>1
      <4>2. QED
        BY <3>3, <4>1, SetTyped DEF Set
    <3>5. QED
      BY <1>0, <1>2, <2>2, <3>4 DEF establish
  <2>3. QED
    BY <1>2, <2>1, <2>2 DEF establish
<1>3. CASE install(c)
  <2>1. state' \in Held
    BY <1>3 DEF install, NewConnection, Connection, Checked, Held, Locals
  <2>2. loc' \in [Calls -> Locals]
    BY <1>3, SetTyped DEF install
  <2>3. QED
    BY <1>0, <1>3, <2>1, <2>2, LockTyped DEF install
<1>4. CASE disconnect(c)
  <2>1. loc' \in [Calls -> Locals]
    BY <1>4, SetTyped DEF disconnect
  <2>2. QED
    BY <1>0, <1>4, <2>1, LockTyped DEF disconnect
<1>5. CASE peek(c)
  <2>1. (IF state = None THEN None ELSE state.vin) \in Vins \union {None}
    BY DEF Held
  <2>2. loc' \in [Calls -> Locals]
    BY <1>5, <2>1, SetTyped DEF peek
  <2>3. QED
    BY <1>0, <1>5, <2>2, LockTyped DEF peek
<1>6. CASE list_measurements(c)
  BY <1>0, <1>6 DEF list_measurements
<1>7. CASE list_service_functions(c) \/ list_ecus(c) \/ fault_help(c)
  BY <1>0, <1>7 DEF list_service_functions, list_ecus, fault_help, Lists
<1>8. CASE not_connected(c)
  BY <1>0, <1>8, LockTyped DEF not_connected
<1>9. ASSUME NEW tool, Reads(c, tool) PROVE TypeOK'
  BY <1>0, <1>9, LockTyped DEF Reads
<1>10. CASE read_data(c)
  BY <1>0, <1>10, LockTyped DEF read_data
<1>11. CASE clear_preread(c)
  <2>1. Deed("read", {req[c].ecu}) \in Deeds
    <3>1. state \in Held /\ req[c].ecu \in Ecus
      BY <1>11 DEF clear_preread, Checked
    <3>2. QED
      BY <3>1 DEF Deed, Deeds, Held
  <2>2. deeds' \in [Calls -> SUBSET Deeds]
    BY <1>11, <2>1, DoesTyped DEF clear_preread
  <2>3. QED
    BY <1>0, <1>11, <2>2, LockTyped DEF clear_preread
<1>12. CASE clear_all_dtcs(c)
  <2>1. Deed("clear", {req[c].ecu}) \in Deeds
    <3>1. state \in Held /\ req[c].ecu \in Ecus
      BY <1>12 DEF clear_all_dtcs, Checked
    <3>2. QED
      BY <3>1 DEF Deed, Deeds, Held
  <2>2. deeds' \in [Calls -> SUBSET Deeds]
    BY <1>12, <2>1, DoesTyped DEF clear_all_dtcs
  <2>3. QED
    BY <1>0, <1>12, <2>2, LockTyped DEF clear_all_dtcs
<1>13. CASE ecu_reset(c)
  <2>1. Deed("reset", {req[c].ecu}) \in Deeds
    <3>1. state \in Held /\ req[c].ecu \in Ecus
      BY <1>13 DEF ecu_reset, Checked
    <3>2. QED
      BY <3>1 DEF Deed, Deeds, Held
  <2>2. deeds' \in [Calls -> SUBSET Deeds]
    BY <1>13, <2>1, DoesTyped DEF ecu_reset
  <2>3. QED
    BY <1>0, <1>13, <2>2, LockTyped DEF ecu_reset
<1>14. CASE fitted_addrs(c)
  <2>1. state' \in Held
    BY <1>14 DEF fitted_addrs, Held
  <2>2. QED
    BY <1>0, <1>14, <2>1, LockTyped DEF fitted_addrs
<1>15. ASSUME NEW tool \in SweepTools, Sweeps(c, tool) PROVE TypeOK'
  <2>1. state.fitted \in SUBSET Ecus /\ state \in Held
    BY <1>15 DEF Sweeps, MidSection, Held
  <2>2. deeds' \in [Calls -> SUBSET Deeds]
    BY <1>15, <2>1, DoesTyped, DeedTyped DEF Sweeps
  <2>3. QED
    BY <1>0, <1>15, <2>2, LockTyped DEF Sweeps
<1>16. CASE record_load(c)
  <2>1. loc[c].vin \in Vins /\ loc[c].variant \in Variants /\ req[c].ecu \in Ecus
    BY <1>16 DEF record_load, FilesAreKnown, Checked
  <2>2. load(loc[c].vin) \in Profile
    BY <2>1, LoadTyped
  <2>3. Merged(c) \in Profile
    BY <2>1, <2>2 DEF Merged, Profile
  <2>4. loc' \in [Calls -> Locals]
    BY <1>16, <2>3, SetTyped DEF record_load
  <2>5. QED
    BY <1>0, <1>16, <2>4 DEF record_load
<1>17. CASE record_open(c)
  <2>1. CASE Go(c, "done") /\ UNCHANGED <<fileVars, loc>>
    BY <1>0, <1>17, <2>1 DEF record_open
  <2> DEFINE v == loc[c].vin
             i == IF dir[v].tmp = None THEN c ELSE dir[v].tmp
  <2>2. CASE /\ dir' = [dir EXCEPT ![v].tmp = i]
             /\ inode' = [inode EXCEPT ![i] = [@ EXCEPT !.size = 0, !.parses = FALSE]]
             /\ Set(c, "fd", i)
             /\ Go(c, "write")
    <3>1. v \in Vins
      BY <1>17 DEF record_open, FilesAreKnown
    <3>2. i \in Calls
      BY <3>1 DEF Names
    <3>3. 0 \in 0 .. Cardinality(Ecus)
      BY FS_CardinalityType
    <3>4. [inode[i] EXCEPT !.size = 0, !.parses = FALSE] \in Contents
      <4>1. \A r \in Contents : [r EXCEPT !.size = 0, !.parses = FALSE] \in Contents
        BY <3>3 DEF Contents
      <4>2. QED
        BY <3>2, <4>1
    <3>5. inode' \in [Calls -> Contents]
      BY <2>2, <3>2, <3>4
    <3>6. dir' \in [Vins -> Names]
      BY <2>2, <3>1, <3>2, TemporaryNamed
    <3>7. loc' \in [Calls -> Locals]
      BY <2>2, <3>2, SetTyped
    <3>8. QED
      BY <1>0, <1>17, <2>2, <3>5, <3>6, <3>7 DEF record_open
  <2>3. QED
    BY <1>17, <2>1, <2>2 DEF record_open
<1>18. CASE record_write(c)
  <2> DEFINE i == loc[c].fd
             n == Entries(loc[c].profile)
             longer == inode[i].size > n
  <2>1. i \in Calls /\ n \in 0 .. Cardinality(Ecus) /\ loc[c].profile \in Profile
    BY <1>18, EntriesTyped DEF record_write, FilesAreKnown, Locals
  <2>2. [size |-> IF longer THEN inode[i].size ELSE n, parses |-> ~longer,
         profile |-> loc[c].profile] \in Contents
    BY <2>1 DEF Contents
  <2>3. inode' \in [Calls -> Contents]
    BY ZenonT(60), <1>18, <2>1, <2>2 DEF record_write
  <2>4. QED
    BY <1>0, <1>18, <2>3 DEF record_write
<1>19. CASE record_rename(c)
  <2>1. dir' \in [Vins -> Names]
    BY <1>19 DEF record_rename, Names
  <2>2. QED
    BY <1>0, <1>19, <2>1 DEF record_rename
<1>20. CASE resolve(c)
  <2> DEFINE v == resolve_variant(req[c], loc[c].vin)
  <2>1. req[c] \in Requests /\ req[c].ecu \in Ecus /\ loc[c].vin \in Vins \union {None}
    BY <1>20 DEF resolve, Checked, Locals
  <2>2. v \in Variants \union {None}
    BY <2>1, VariantTyped
  <2>3. loc' \in [Calls -> Locals] /\ cache' \subseteq Variants
    BY <1>20, <2>2, SetTyped DEF resolve
  <2>4. lock' \in Seq(Calls \union {Main}) /\ stage' \in [Calls -> Stages]
    BY <1>0, <1>20 DEF resolve
  <2>5. QED
    BY <1>20, <2>3, <2>4 DEF resolve
<1>21. CASE read_faults(c) \/ read_info_memory(c) \/ read_fault_detail(c)
              \/ identify_vehicle(c) \/ run_job(c)
  BY <1>9, <1>21 DEF read_faults, read_info_memory, read_fault_detail, identify_vehicle, run_job
<1>22. CASE scan_ecus(c) \/ read_all_faults(c) \/ clear_all_faults(c)
  BY <1>15, <1>22 DEF scan_ecus, read_all_faults, clear_all_faults, SweepTools
<1>23. QED
  BY <1>1, <1>2, <1>3, <1>4, <1>5, <1>6, <1>7, <1>8, <1>10, <1>11, <1>12, <1>13, <1>14, <1>16,
     <1>17, <1>18, <1>19, <1>20, <1>21, <1>22 DEF Step

-----------------------------------------------------------------------------
(***************************************************************************)
(* What a step of one call leaves alone.                                   *)
(***************************************************************************)

\* Of the other calls a step changes at most whether the connection they looked
\* at was replaced.
LEMMA OthersAreKept ==
    ASSUME TypeOK, NEW c \in Calls, Call(c) \/ Step(c), NEW d \in Calls, d # c
    PROVE  /\ stage'[d] = stage[d] /\ req'[d] = req[d] /\ deeds'[d] = deeds[d]
           /\ loc'[d] = loc[d] \/ (loc'[d] = Replaced(d) /\ stage[c] \in {"install", "drop"})
           /\ loc'[d].vin = loc[d].vin /\ loc'[d].variant = loc[d].variant
           /\ loc'[d].fd = loc[d].fd /\ loc'[d].profile = loc[d].profile
<1> USE DEF TypeOK, fileVars, history, Go
<1>1. stage'[d] = stage[d]
  BY DEF Call, Starts, Step, Await, establish, install, disconnect, peek, resolve,
     list_measurements, list_service_functions, list_ecus, fault_help, Lists, not_connected,
     read_faults, read_info_memory, read_fault_detail, identify_vehicle, run_job, Reads, read_data,
     clear_preread, clear_all_dtcs, ecu_reset, fitted_addrs, scan_ecus, read_all_faults,
     clear_all_faults, Sweeps, record_load, record_open, record_write, record_rename
<1>2. req'[d] = req[d]
  BY DEF Call, Starts, Step, Await, establish, install, disconnect, peek, resolve,
     list_measurements, list_service_functions, list_ecus, fault_help, Lists, not_connected,
     read_faults, read_info_memory, read_fault_detail, identify_vehicle, run_job, Reads, read_data,
     clear_preread, clear_all_dtcs, ecu_reset, fitted_addrs, scan_ecus, read_all_faults,
     clear_all_faults, Sweeps, record_load, record_open, record_write, record_rename
<1>3. deeds'[d] = deeds[d]
  BY DEF Call, Step, Does, establish, install, disconnect, peek, resolve,
     list_measurements, list_service_functions, list_ecus, fault_help, Lists, not_connected,
     read_faults, read_info_memory, read_fault_detail, identify_vehicle, run_job, Reads, read_data,
     clear_preread, clear_all_dtcs, ecu_reset, fitted_addrs, scan_ecus, read_all_faults,
     clear_all_faults, Sweeps, record_load, record_open, record_write, record_rename
<1>4. loc'[d] = loc[d] \/ (loc'[d] = Replaced(d) /\ stage[c] \in {"install", "drop"})
  BY DEF Call, Step, Set, establish, install, disconnect, peek, resolve,
     list_measurements, list_service_functions, list_ecus, fault_help, Lists, not_connected,
     read_faults, read_info_memory, read_fault_detail, identify_vehicle, run_job, Reads, read_data,
     clear_preread, clear_all_dtcs, ecu_reset, fitted_addrs, scan_ecus, read_all_faults,
     clear_all_faults, Sweeps, record_load, record_open, record_write, record_rename
<1>5. /\ Replaced(d).vin = loc[d].vin /\ Replaced(d).variant = loc[d].variant
      /\ Replaced(d).fd = loc[d].fd /\ Replaced(d).profile = loc[d].profile
  BY DEF Replaced, Locals
<1>6. QED
  BY <1>1, <1>2, <1>3, <1>4, <1>5

\* The mutex excludes: while a call holds it, no step of another takes it or
\* touches the connection.
LEMMA HolderIsAlone ==
    ASSUME TypeOK, NEW c \in Calls, Call(c) \/ Step(c), NEW t \in Calls \union {Main}, t # c, Holds(t)
    PROVE  Holds(t)' /\ state' = state
<1> USE DEF TypeOK, fileVars, history, Go
<1>1. lock' = lock \/ lock' = Append(lock, c) \/ (Holds(c) /\ lock' = Tail(lock))
  BY DEF Call, Starts, Await, Release, Step, establish, install, disconnect, peek, resolve,
     list_measurements, list_service_functions, list_ecus, fault_help, Lists, not_connected,
     read_faults, read_info_memory, read_fault_detail, identify_vehicle, run_job, Reads, read_data,
     clear_preread, clear_all_dtcs, ecu_reset, fitted_addrs, scan_ecus, read_all_faults,
     clear_all_faults, Sweeps, record_load, record_open, record_write, record_rename
<1>2. ~Holds(c)
  BY DEF Holds
<1>3. Holds(t)'
  BY <1>1, <1>2 DEF Holds
<1>4. state' = state
  BY <1>2 DEF Call, Step, establish, install, disconnect, peek, resolve,
     list_measurements, list_service_functions, list_ecus, fault_help, Lists, not_connected,
     read_faults, read_info_memory, read_fault_detail, identify_vehicle, run_job, Reads, read_data,
     clear_preread, clear_all_dtcs, ecu_reset, fitted_addrs, scan_ecus, read_all_faults,
     clear_all_faults, Sweeps, record_load, record_open, record_write, record_rename
<1>5. QED
  BY <1>3, <1>4

\* The arguments of a call are checked once, at its start.
LEMMA CheckedIsKept ==
    ASSUME TypeOK, Checked, NEW c \in Calls, Call(c) \/ Step(c)
    PROVE  Checked'
<1> USE DEF TypeOK, fileVars, history, Go
<1>1. ASSUME NEW d \in Calls, d # c
      PROVE  /\ stage'[d] = "idle" => loc'[d].vin = None
             /\ stage'[d] \notin {"idle", "done"} => req'[d] \in Requests
             /\ stage'[d] \in {"establish", "install"} => req'[d].car \in Cars
             /\ stage'[d] \in {"peek", "resolve", "clear", "reset", "load"} => req'[d].ecu \in Ecus
             /\ stage'[d] = "use" /\ req'[d].tool \in {"read_data", "clear_faults"} =>
                  req'[d].ecu \in Ecus
  BY <1>1, OthersAreKept DEF Checked
<1>2. CASE Call(c)
  <2>1. PICK r \in Requests : req' = [req EXCEPT ![c] = r] /\ Starts(c, r)
    BY <1>2 DEF Call
  <2>2. CASE ReturnsAtOnce(r)
    BY <1>1, <2>1, <2>2 DEF Checked, Starts
  <2>3. CASE ~ReturnsAtOnce(r) /\ r.tool = "connect"
    BY <1>1, <2>1, <2>3 DEF Checked, Starts, ReturnsAtOnce, ReadTools, Writes, VariantTools,
         ListTools, OfflineTools
  <2>4. CASE ~ReturnsAtOnce(r) /\ r.tool # "connect"
    BY <1>1, <2>1, <2>4 DEF Checked, Starts, Await, ReturnsAtOnce, Unresolved, ReadTools, Writes,
         VariantTools, ListTools, OfflineTools
  <2>5. QED
    BY <2>2, <2>3, <2>4
<1>3. CASE Step(c)
  <2>1. req' = req
    BY <1>3 DEF Step, establish, install, disconnect, peek, resolve,
     list_measurements, list_service_functions, list_ecus, fault_help, Lists, not_connected,
     read_faults, read_info_memory, read_fault_detail, identify_vehicle, run_job, Reads, read_data,
     clear_preread, clear_all_dtcs, ecu_reset, fitted_addrs, scan_ecus, read_all_faults,
     clear_all_faults, Sweeps, record_load, record_open, record_write, record_rename
  <2>2. /\ stage[c] \notin {"idle", "done"} /\ stage'[c] # "idle"
        /\ stage'[c] \in {"establish", "install"} => stage[c] = "establish"
        /\ stage'[c] \in {"peek", "resolve"} => stage[c] = "peek"
        /\ stage'[c] \in {"clear", "load"} =>
             stage[c] = "use" /\ req[c].tool \in {"read_data", "clear_faults"}
        /\ stage'[c] = "reset" => stage[c] = "clear"
        /\ stage'[c] = "use" => stage[c] = "resolve"
    BY ZenonT(60), <1>3 DEF Step, Await, establish, install, disconnect, peek, resolve,
     list_measurements, list_service_functions, list_ecus, fault_help, Lists, not_connected,
     read_faults, read_info_memory, read_fault_detail, identify_vehicle, run_job, Reads, read_data,
     clear_preread, clear_all_dtcs, ecu_reset, fitted_addrs, scan_ecus, read_all_faults,
     clear_all_faults, Sweeps, record_load, record_open, record_write, record_rename
  <2>3. QED
    BY <1>1, <2>1, <2>2 DEF Checked
<1>4. QED
  BY <1>2, <1>3

\* Where a step takes the call that makes it: into the stages that change the
\* car or the profile only one action each leads (server.rs:509-585, 719-790).
LEMMA StageMoves ==
    ASSUME TypeOK, NEW c \in Calls, Call(c) \/ Step(c)
    PROVE  /\ stage'[c] \in {"clear", "reset", "sweep"} =>
                \/ clear_preread(c) /\ Go(c, "clear")
                \/ clear_all_dtcs(c) /\ Go(c, "reset")
                \/ fitted_addrs(c) /\ Go(c, "sweep")
           /\ stage'[c] = "load" => read_data(c)
           /\ stage'[c] \in {"open", "write", "rename"} =>
                 stage[c] \in {"load", "open", "write", "rename"}
<1> USE DEF TypeOK, Go
<1> DEFINE Special == {"clear", "reset", "sweep", "load", "open", "write", "rename"}
<1>1. CASE Call(c)
  <2>1. stage'[c] \in {"done", "establish", "drop", "list", "peek", "use"}
    BY <1>1 DEF Call, Starts, Await
  <2>2. QED
    BY <2>1
<1>2. CASE establish(c) \/ install(c) \/ disconnect(c)
  <2>1. stage'[c] \notin Special
    <3>1. CASE establish(c)
      BY <3>1 DEF establish, Await
    <3>2. CASE install(c)
      BY <3>2 DEF install
    <3>3. CASE disconnect(c)
      BY <3>3 DEF disconnect
    <3>4. QED
      BY <1>2, <3>1, <3>2, <3>3
  <2>2. QED
    BY <2>1
<1>3. CASE peek(c) \/ resolve(c)
  <2>1. stage'[c] \notin Special
    BY <1>3 DEF peek, resolve, Await
  <2>2. QED
    BY <2>1
<1>4. CASE \/ list_measurements(c) \/ list_service_functions(c) \/ list_ecus(c) \/ fault_help(c)
           \/ not_connected(c) \/ read_faults(c) \/ read_info_memory(c) \/ read_fault_detail(c)
           \/ identify_vehicle(c) \/ run_job(c)
  <2>1. stage'[c] \notin Special
    BY <1>4 DEF list_measurements, list_service_functions, list_ecus, fault_help, Lists,
       not_connected, read_faults, read_info_memory, read_fault_detail, identify_vehicle, run_job,
       Reads
  <2>2. QED
    BY <2>1
<1>5. CASE read_data(c)
  <2>1. stage'[c] \in {"load", "done"}
    BY <1>5 DEF read_data
  <2>2. QED
    BY <1>5, <2>1
<1>6. CASE clear_preread(c)
  <2>1. Go(c, "clear") \/ stage'[c] = "done"
    BY <1>6 DEF clear_preread
  <2>2. QED
    BY <1>6, <2>1
<1>7. CASE clear_all_dtcs(c)
  <2>1. Go(c, "reset") \/ stage'[c] = "done"
    BY <1>7 DEF clear_all_dtcs
  <2>2. QED
    BY <1>7, <2>1
<1>8. CASE fitted_addrs(c)
  <2>1. Go(c, "sweep") \/ stage'[c] = "done"
    BY <1>8 DEF fitted_addrs
  <2>2. QED
    BY <1>8, <2>1
<1>9. CASE ecu_reset(c) \/ scan_ecus(c) \/ read_all_faults(c) \/ clear_all_faults(c)
  <2>1. stage'[c] \notin Special
    BY <1>9 DEF ecu_reset, scan_ecus, read_all_faults, clear_all_faults, Sweeps
  <2>2. QED
    BY <2>1
<1>10. CASE record_load(c) \/ record_open(c) \/ record_write(c) \/ record_rename(c)
  <2>1. /\ stage'[c] \in {"open", "write", "rename", "done"}
        /\ stage[c] \in {"load", "open", "write", "rename"}
    BY <1>10 DEF record_load, record_open, record_write, record_rename
  <2>2. QED
    BY <2>1
<1>11. QED
  BY <1>1, <1>2, <1>3, <1>4, <1>5, <1>6, <1>7, <1>8, <1>9, <1>10 DEF Step

\* The held connection keeps what its own car said: connect makes a fresh one,
\* a scan stores the list of the car it is connected to.
LEMMA HeldIsKept ==
    ASSUME TypeOK, HeldIsItsOwn, VinIsOfItsCar, Checked, NEW c \in Calls, Call(c) \/ Step(c)
    PROVE  HeldIsItsOwn'
<1> USE DEF TypeOK, fileVars, history
<1>1. CASE install(c)
  <2>1. loc[c].vin \in {None, Vin[req[c].car]}
    BY <1>1 DEF install, VinIsOfItsCar
  <2>2. QED
    BY <1>1, <2>1 DEF install, NewConnection, Connection, HeldIsItsOwn
<1>2. CASE disconnect(c)
  BY <1>2 DEF disconnect, HeldIsItsOwn
<1>3. CASE fitted_addrs(c)
  BY <1>3 DEF fitted_addrs, HeldIsItsOwn, Held
<1>4. CASE state' = state
  BY <1>4 DEF HeldIsItsOwn
<1>5. QED
  BY <1>1, <1>2, <1>3, <1>4 DEF Call, Step, establish, peek, resolve,
     list_measurements, list_service_functions, list_ecus, fault_help, Lists, not_connected,
     read_faults, read_info_memory, read_fault_detail, identify_vehicle, run_job, Reads, read_data,
     clear_preread, clear_all_dtcs, ecu_reset, scan_ecus, read_all_faults,
     clear_all_faults, Sweeps, record_load, record_open, record_write, record_rename

\* One step of a call does one deed at most, in its lock section.
LEMMA MidSectionIsKept ==
    ASSUME TypeOK, MidSection, HeldIsItsOwn, NEW c \in Calls, Call(c) \/ Step(c)
    PROVE  MidSection'
<1> USE DEF TypeOK, fileVars, history, Go
<1>1. ASSUME NEW d \in Calls, d # c
      PROVE  /\ stage'[d] \in {"clear", "reset", "sweep"} => Holds(d)' /\ state' # None
             /\ stage'[d] = "clear" => Deed("read", {req[d].ecu})' \in deeds'[d]
             /\ stage'[d] = "reset" => Deed("clear", {req[d].ecu})' \in deeds'[d]
             /\ stage'[d] = "sweep" => state'.fitted = Configured[state'.car]
  <2>1. /\ stage'[d] = stage[d] /\ req'[d] = req[d] /\ deeds'[d] = deeds[d]
    BY <1>1, OthersAreKept
  <2>2. CASE stage[d] \in {"clear", "reset", "sweep"}
    <3>1. Holds(d)' /\ state' = state
      BY <1>1, <2>2, HolderIsAlone DEF MidSection
    <3>2. QED
      BY <1>1, <2>1, <2>2, <3>1 DEF MidSection, Deed
  <2>3. QED
    BY <2>1, <2>2
<1>3. CASE stage'[c] \notin {"clear", "reset", "sweep"}
  BY <1>1, <1>3 DEF MidSection
<1>4. CASE clear_preread(c) /\ Go(c, "clear")
  <2>1. req'[c] = req[c] /\ state' = state /\ lock' = lock /\ stage'[c] = "clear"
    BY <1>4 DEF clear_preread, Release
  <2>2. Deed("read", {req[c].ecu}) \in deeds'[c] /\ Holds(c) /\ state # None
    BY <1>4 DEF clear_preread, Does
  <2>3. QED
    BY <1>1, <2>1, <2>2 DEF MidSection, Deed, Holds
<1>5. CASE clear_all_dtcs(c) /\ Go(c, "reset")
  <2>1. req'[c] = req[c] /\ state' = state /\ lock' = lock /\ stage'[c] = "reset"
    BY <1>5 DEF clear_all_dtcs, Release
  <2>2. Deed("clear", {req[c].ecu}) \in deeds'[c] /\ Holds(c) /\ state # None
    BY <1>5 DEF clear_all_dtcs, Does
  <2>3. QED
    BY <1>1, <2>1, <2>2 DEF MidSection, Deed, Holds
<1>6. CASE fitted_addrs(c) /\ Go(c, "sweep")
  <2>1. lock' = lock /\ stage'[c] = "sweep" /\ Holds(c)
    BY <1>6 DEF fitted_addrs, Release
  <2>2. state' # None /\ state'.fitted = Configured[state'.car]
    <3>1. state \in Held /\ state # None /\ stage'[c] = "sweep"
      BY <1>6 DEF fitted_addrs
    <3>2. \/ state' = state /\ state.fitted # None
          \/ state' = [state EXCEPT !.fitted = Configured[state.car]]
      BY <1>6, <3>1 DEF fitted_addrs
    <3>3. state.fitted \in {None, Configured[state.car]}
      BY <3>1 DEF HeldIsItsOwn
    <3>4. [state EXCEPT !.fitted = Configured[state.car]] \in Held
      BY <3>1 DEF Held
    <3>5. [state EXCEPT !.fitted = Configured[state.car]].fitted = Configured[state.car]
      BY <3>1 DEF Held
    <3>6. [state EXCEPT !.fitted = Configured[state.car]].car = state.car
      BY <3>1 DEF Held
    <3>7. None \notin Held
      OBVIOUS
    <3>8. QED
      BY <3>1, <3>2, <3>3, <3>4, <3>5, <3>6, <3>7
  <2>3. QED
    BY <1>1, <2>1, <2>2 DEF MidSection, Holds
<1>7. stage'[c] \in {"clear", "reset", "sweep"} =>
         \/ clear_preread(c) /\ Go(c, "clear")
         \/ clear_all_dtcs(c) /\ Go(c, "reset")
         \/ fitted_addrs(c) /\ Go(c, "sweep")
  BY StageMoves
<1>8. QED
  BY <1>3, <1>4, <1>5, <1>6, <1>7

\* clear_faults clears what it read and resets what it cleared, on one car; a
\* sweep visits the list of the car it is done to.
LEMMA DeedsAreKept ==
    ASSUME TypeOK, ClearIsOfTheReadCar, SweepsItsCar, MidSection, NEW c \in Calls,
           Call(c) \/ Step(c)
    PROVE  ClearIsOfTheReadCar' /\ SweepsItsCar'
<1> USE DEF TypeOK, fileVars, history
<1>1. ASSUME NEW new, deeds' = [deeds EXCEPT ![c] = @ \union {new}],
             /\ new.op = "clear" => [op |-> "read", car |-> new.car, ecus |-> new.ecus] \in deeds[c]
             /\ new.op = "reset" => [op |-> "clear", car |-> new.car, ecus |-> new.ecus] \in deeds[c]
             /\ new.op \in SweepTools => new.ecus = Configured[new.car]
      PROVE  ClearIsOfTheReadCar' /\ SweepsItsCar'
  <2>1. \A d \in Calls : deeds'[d] = IF d = c THEN deeds[c] \union {new} ELSE deeds[d]
    BY <1>1
  <2>2. ClearIsOfTheReadCar'
    BY <1>1, <2>1 DEF ClearIsOfTheReadCar
  <2>3. SweepsItsCar'
    BY <1>1, <2>1 DEF SweepsItsCar
  <2>4. QED
    BY <2>2, <2>3
<1>2. CASE clear_preread(c)
  <2>1. /\ Deed("read", {req[c].ecu}).op = "read"
        /\ deeds' = [deeds EXCEPT ![c] = @ \union {Deed("read", {req[c].ecu})}]
    BY <1>2 DEF clear_preread, Does, Deed
  <2>2. QED
    BY <1>1, <2>1 DEF SweepTools
<1>3. CASE clear_all_dtcs(c)
  <2> DEFINE new == Deed("clear", {req[c].ecu})
  <2>1. new.op = "clear" /\ [op |-> "read", car |-> new.car, ecus |-> new.ecus] = Deed("read", {req[c].ecu})
    BY DEF Deed
  <2>2. deeds' = [deeds EXCEPT ![c] = @ \union {new}]
    BY <1>3 DEF clear_all_dtcs, Does
  <2>3. Deed("read", {req[c].ecu}) \in deeds[c]
    BY <1>3 DEF clear_all_dtcs, MidSection
  <2> HIDE DEF new
  <2>4. QED
    BY <1>1, <2>1, <2>2, <2>3 DEF SweepTools
<1>4. CASE ecu_reset(c)
  <2> DEFINE new == Deed("reset", {req[c].ecu})
  <2>1. new.op = "reset" /\ [op |-> "clear", car |-> new.car, ecus |-> new.ecus] = Deed("clear", {req[c].ecu})
    BY DEF Deed
  <2>2. deeds' = [deeds EXCEPT ![c] = @ \union {new}]
    BY <1>4 DEF ecu_reset, Does
  <2>3. Deed("clear", {req[c].ecu}) \in deeds[c]
    BY <1>4 DEF ecu_reset, MidSection
  <2> HIDE DEF new
  <2>4. QED
    BY <1>1, <2>1, <2>2, <2>3 DEF SweepTools
<1>5. ASSUME NEW tool \in SweepTools, Sweeps(c, tool)
      PROVE  ClearIsOfTheReadCar' /\ SweepsItsCar'
  <2> DEFINE new == Deed(tool, state.fitted)
  <2>1. new.op \in SweepTools /\ new.ecus = Configured[new.car]
    BY <1>5 DEF Sweeps, MidSection, Deed
  <2>2. deeds' = [deeds EXCEPT ![c] = @ \union {new}]
    BY <1>5 DEF Sweeps, Does
  <2> HIDE DEF new
  <2>3. QED
    BY <1>1, <2>1, <2>2 DEF SweepTools
<1>6. CASE scan_ecus(c) \/ read_all_faults(c) \/ clear_all_faults(c)
  BY <1>5, <1>6 DEF scan_ecus, read_all_faults, clear_all_faults, SweepTools
<1>7. CASE UNCHANGED deeds
  BY <1>7 DEF ClearIsOfTheReadCar, SweepsItsCar
<1>8. UNCHANGED deeds \/ clear_preread(c) \/ clear_all_dtcs(c) \/ ecu_reset(c)
        \/ scan_ecus(c) \/ read_all_faults(c) \/ clear_all_faults(c)
  BY DEF Call, Step, establish, install, disconnect, peek, resolve, list_measurements,
     list_service_functions, list_ecus, fault_help, Lists, not_connected, read_faults,
     read_info_memory, read_fault_detail, identify_vehicle, run_job, Reads, read_data, fitted_addrs,
     record_load, record_open, record_write, record_rename
<1>9. QED
  BY <1>2, <1>3, <1>4, <1>6, <1>7, <1>8

\* The VIN a call copied is that of the held car for as long as no connect and
\* no disconnect has replaced the connection.
LEMMA VinIsKept ==
    ASSUME TypeOK, Checked, HeldIsItsOwn, VinIsOfItsCar, NEW c \in Calls, Call(c) \/ Step(c)
    PROVE  VinIsOfItsCar'
<1> USE DEF TypeOK, fileVars, history, Go
<1>1. state' = state \/ (stage[c] = "install" \/ stage[c] = "drop") \/ state'.car = state.car
  BY DEF Call, Held, Step, establish, install, disconnect, peek, resolve,
     list_measurements, list_service_functions, list_ecus, fault_help, Lists, not_connected,
     read_faults, read_info_memory, read_fault_detail, identify_vehicle, run_job, Reads, read_data,
     clear_preread, clear_all_dtcs, ecu_reset, fitted_addrs, scan_ecus, read_all_faults,
     clear_all_faults, Sweeps, record_load, record_open, record_write, record_rename
<1>2. main' = main
  BY DEF Call, Step, establish, install, disconnect, peek, resolve,
     list_measurements, list_service_functions, list_ecus, fault_help, Lists, not_connected,
     read_faults, read_info_memory, read_fault_detail, identify_vehicle, run_job, Reads, read_data,
     clear_preread, clear_all_dtcs, ecu_reset, fitted_addrs, scan_ecus, read_all_faults,
     clear_all_faults, Sweeps, record_load, record_open, record_write, record_rename
<1>3. (stage[c] = "install" \/ stage[c] = "drop") => loc' = [d \in Calls |-> Replaced(d)]
  BY DEF Call, Idle, Step, establish, install, disconnect, peek, resolve,
     list_measurements, list_service_functions, list_ecus, fault_help, Lists, not_connected,
     read_faults, read_info_memory, read_fault_detail, identify_vehicle, run_job, Reads, read_data,
     clear_preread, clear_all_dtcs, ecu_reset, fitted_addrs, scan_ecus, read_all_faults,
     clear_all_faults, Sweeps, record_load, record_open, record_write, record_rename
<1>4. ASSUME NEW d \in Calls, d # c
      PROVE  /\ stage'[d] = "install" => loc'[d].vin \in {None, Vin[req'[d].car]}
             /\ /\ stage'[d] \in {"resolve", "use"} /\ main' # "exited"
                /\ loc'[d].vin # None /\ ~loc'[d].replaced
                => Vin[state'.car] = loc'[d].vin
  <2>1. stage'[d] = stage[d] /\ req'[d] = req[d] /\ loc'[d].vin = loc[d].vin
    BY <1>4, OthersAreKept
  <2>2. CASE stage[c] = "install" \/ stage[c] = "drop"
    <3>1. loc'[d] = Replaced(d) /\ loc[d] \in Locals
      BY <1>3, <2>2
    <3>2. \A l \in Locals, b \in BOOLEAN : b => [l EXCEPT !.replaced = @ \/ b].replaced
      BY DEF Locals
    <3>3. stage[d] \in {"resolve", "use"} => Replaced(d).replaced
      BY <3>1, <3>2 DEF Replaced
    <3>4. QED
      BY <2>1, <3>1, <3>3, <1>4 DEF VinIsOfItsCar
  <2>3. CASE ~(stage[c] = "install" \/ stage[c] = "drop")
    <3>1. loc'[d] = loc[d]
      BY <1>4, <2>3, OthersAreKept
    <3>2. QED
      BY <1>1, <1>2, <2>1, <2>3, <3>1 DEF VinIsOfItsCar
  <2>4. QED
    BY <2>2, <2>3
<1>5. CASE Call(c)
  <2>1. loc'[c].vin = None /\ stage'[c] # "install"
    BY <1>5 DEF Call, Idle, Checked, Starts, Await
  <2>2. QED
    BY <1>4, <2>1 DEF VinIsOfItsCar
<1>6. CASE establish(c)
  <2>1. stage'[c] = "install" => loc'[c].vin \in {None, Vin[req'[c].car]}
    BY <1>6 DEF establish, Await, Locals
  <2>2. stage'[c] \notin {"resolve", "use"}
    BY <1>6 DEF establish, Await
  <2>3. QED
    BY <1>4, <2>1, <2>2 DEF VinIsOfItsCar
<1>7. CASE peek(c)
  <2>1. stage'[c] = "resolve" /\ state' = state
    BY <1>7 DEF peek
  <2>2. loc'[c].vin = IF state = None THEN None ELSE state.vin
    BY <1>7 DEF peek, Set, Locals
  <2>3. QED
    BY <1>4, <2>1, <2>2 DEF VinIsOfItsCar, HeldIsItsOwn
<1>8. CASE resolve(c)
  <2>1. stage'[c] # "install" /\ state' = state /\ main' = main
    BY <1>8 DEF resolve, Await
  <2>2. loc'[c].vin = loc[c].vin /\ loc'[c].replaced = loc[c].replaced /\ stage[c] = "resolve"
    BY <1>8 DEF resolve, Set, Locals
  <2>3. QED
    BY <1>4, <2>1, <2>2 DEF VinIsOfItsCar
<1>9. CASE stage'[c] \notin {"install", "resolve", "use"}
  BY <1>4, <1>9 DEF VinIsOfItsCar
<1>10. stage'[c] \in {"install", "resolve", "use"} => Call(c) \/ establish(c) \/ peek(c) \/ resolve(c)
  BY DEF Step, install, disconnect,
     list_measurements, list_service_functions, list_ecus, fault_help, Lists, not_connected,
     read_faults, read_info_memory, read_fault_detail, identify_vehicle, run_job, Reads, read_data,
     clear_preread, clear_all_dtcs, ecu_reset, fitted_addrs, scan_ecus, read_all_faults,
     clear_all_faults, Sweeps, record_load, record_open, record_write, record_rename, Await
<1>11. QED
  BY <1>5, <1>6, <1>7, <1>8, <1>9, <1>10

\* What is learned was scaled on a car of that VIN, or the connection was replaced
\* between the two lock sections of the read.
LEMMA LearnedIsKept ==
    ASSUME TypeOK, VinIsOfItsCar, LearnedIsOfItsCar, NEW c \in Calls, Call(c) \/ Step(c)
    PROVE  LearnedIsOfItsCar' /\ learned \subseteq learned'
<1> USE DEF TypeOK, fileVars, history
<1>1. CASE read_data(c) /\ main # "exited"
  <2> DEFINE fact == [vin |-> loc[c].vin, ecu |-> req[c].ecu, variant |-> loc[c].variant,
                      car |-> state.car, replaced |-> loc[c].replaced]
  <2>1. loc[c].vin # None => Vin[fact.car] = fact.vin \/ fact.replaced
    BY <1>1 DEF read_data, VinIsOfItsCar
  <2>2. learned' = learned \/ (learned' = learned \union {fact} /\ loc[c].vin # None)
    BY <1>1 DEF read_data
  <2> HIDE DEF fact
  <2>3. QED
    BY <2>1, <2>2 DEF LearnedIsOfItsCar
<1>2. CASE UNCHANGED learned
  BY <1>2 DEF LearnedIsOfItsCar
<1>3. UNCHANGED learned \/ (read_data(c) /\ Step(c))
  BY DEF Call, Step, establish, install, disconnect, peek, resolve,
     list_measurements, list_service_functions, list_ecus, fault_help, Lists, not_connected,
     read_faults, read_info_memory, read_fault_detail, identify_vehicle, run_job, Reads,
     clear_preread, clear_all_dtcs, ecu_reset, fitted_addrs, scan_ecus, read_all_faults,
     clear_all_faults, Sweeps, record_load, record_open, record_write, record_rename
<1>4. read_data(c) /\ Step(c) => main # "exited"
  BY DEF Step, Runs, InProfile, read_data
<1>5. QED
  BY <1>1, <1>2, <1>3, <1>4

-----------------------------------------------------------------------------
(***************************************************************************)
(* The profile files.                                                      *)
(***************************************************************************)

\* Only a call inside profile::record touches the files, and it got there by a
\* read_data.
LEMMA FilesAreAlone ==
    ASSUME TypeOK, NEW c \in Calls, Call(c) \/ Step(c)
    PROVE  /\ stage[c] # "done"
           /\ InProfile(c) \/ UNCHANGED fileVars
           /\ stage'[c] = "load" => read_data(c)
           /\ stage'[c] \in {"open", "write", "rename"} => InProfile(c)
<1> USE DEF TypeOK, fileVars, history, Go
<1>1. stage[c] # "done"
  BY DEF Call, Idle, Step, establish, install, disconnect, peek, resolve,
     list_measurements, list_service_functions, list_ecus, fault_help, Lists, not_connected,
     read_faults, read_info_memory, read_fault_detail, identify_vehicle, run_job, Reads, read_data,
     clear_preread, clear_all_dtcs, ecu_reset, fitted_addrs, scan_ecus, read_all_faults,
     clear_all_faults, Sweeps, record_load, record_open, record_write, record_rename
<1>2. InProfile(c) \/ UNCHANGED fileVars
  BY DEF InProfile, Call, Step, establish, install, disconnect, peek, resolve,
     list_measurements, list_service_functions, list_ecus, fault_help, Lists, not_connected,
     read_faults, read_info_memory, read_fault_detail, identify_vehicle, run_job, Reads, read_data,
     clear_preread, clear_all_dtcs, ecu_reset, fitted_addrs, scan_ecus, read_all_faults,
     clear_all_faults, Sweeps, record_load, record_open, record_write, record_rename
<1>3. stage'[c] = "load" => read_data(c)
  BY StageMoves
<1>4. stage'[c] \in {"open", "write", "rename"} => InProfile(c)
  BY StageMoves DEF InProfile
<1>5. QED
  BY <1>1, <1>2, <1>3, <1>4

\* What was known of a VIN stays known.
LEMMA KnownGrows ==
    ASSUME learned \subseteq learned'
    PROVE  \A v, profile : Known(v, profile) => Known(v, profile)'
BY DEF Known

\* What profile::load finds was learned for its VIN.
LEMMA LoadIsKnown ==
    ASSUME TypeOK, FilesAreKnown, NEW v \in Vins
    PROVE  Known(v, load(v))
<1> DEFINE i == dir[v].json
<1>1. CASE i # None /\ inode[i].parses
  <2>1. i \in Calls /\ load(v) = inode[i].profile
    BY <1>1 DEF load, TypeOK, Names
  <2>2. loc[i].vin = v
    BY <1>1 DEF FilesAreKnown
  <2>3. QED
    BY <1>1, <2>1, <2>2 DEF FilesAreKnown
<1>2. CASE ~(i # None /\ inode[i].parses)
  BY <1>2 DEF load, Known, NoProfile
<1>3. QED
  BY <1>1, <1>2

\* A call that has opened the temporary file has moved on to write it.
LEMMA StartedGrows ==
    ASSUME TypeOK, NEW c \in Calls, Call(c) \/ Step(c), NEW i \in Calls, Started(i)
    PROVE  Started(i)'
<1>1. CASE i # c
  BY <1>1, OthersAreKept DEF Started
<1>2. CASE i = c
  <2>1. stage[c] \in {"write", "rename"}
    BY <1>2, FilesAreAlone DEF Started
  <2>2. record_write(c) \/ record_rename(c)
    BY <2>1 DEF Call, Idle, Step, establish, install, disconnect, peek, resolve,
     list_measurements, list_service_functions, list_ecus, fault_help, Lists, not_connected,
     read_faults, read_info_memory, read_fault_detail, identify_vehicle, run_job, Reads, read_data,
     clear_preread, clear_all_dtcs, ecu_reset, fitted_addrs, scan_ecus, read_all_faults,
     clear_all_faults, Sweeps, record_load, record_open
  <2>3. QED
    BY <1>2, <2>2 DEF record_write, record_rename, Go, Started, TypeOK
<1>3. QED
  BY <1>1, <1>2

\* What the files of every VIN hold was learned for it: a call writes the file
\* of the VIN it read, under a name that only calls of that VIN use.
LEMMA FilesAreKept ==
    ASSUME TypeOK, TypeOK', Checked, FilesAreKnown, learned \subseteq learned',
           NEW c \in Calls, Call(c) \/ Step(c)
    PROVE  FilesAreKnown'
<1> USE DEF TypeOK, fileVars, history, Go
<1> DEFINE Named(v) == {dir[v].tmp, dir[v].json} \ {None}
           Ready(d) ==
             /\ stage[d] = "load" =>
                  /\ loc[d].vin \in Vins /\ loc[d].variant \in Variants
                  /\ \E f \in learned : /\ f.vin = loc[d].vin /\ f.ecu = req[d].ecu
                                        /\ f.variant = loc[d].variant
             /\ stage[d] \in {"open", "write", "rename"} =>
                  loc[d].vin \in Vins /\ Known(loc[d].vin, loc[d].profile)
             /\ stage[d] = "write" =>
                  loc[d].fd # None /\ loc[loc[d].fd].vin = loc[d].vin /\ Started(loc[d].fd)
           Whole(i) == inode[i].parses => Started(i) /\ Known(loc[i].vin, inode[i].profile)
<1>1. /\ \A v \in Vins : \A i \in Named(v) : i \in Calls /\ loc[i].vin = v /\ Started(i)
      /\ \A d \in Calls : Ready(d)
      /\ \A i \in Calls : Whole(i)
  BY DEF FilesAreKnown, Names
<1>2. ASSUME \A v \in Vins : \A i \in Named(v)' : loc'[i].vin = v /\ Started(i)',
             Ready(c)', \A d \in Calls \ {c} : Ready(d)', \A i \in Calls : Whole(i)'
      PROVE  FilesAreKnown'
  BY <1>2 DEF FilesAreKnown
<1>3. \A v, profile : Known(v, profile) => Known(v, profile)'
  BY KnownGrows
<1>4. \A i \in Calls : Started(i) => Started(i)' /\ loc'[i].vin = loc[i].vin
  <2>1. ASSUME Started(c) PROVE loc'[c].vin = loc[c].vin
    BY <2>1 DEF Started, Call, Idle, Step, establish, install, disconnect, peek, resolve,
     list_measurements, list_service_functions, list_ecus, fault_help, Lists, not_connected,
     read_faults, read_info_memory, read_fault_detail, identify_vehicle, run_job, Reads, read_data,
     clear_preread, clear_all_dtcs, ecu_reset, fitted_addrs, scan_ecus, read_all_faults,
     clear_all_faults, Sweeps, record_load, record_open, record_write, record_rename
  <2>2. QED
    BY <2>1, OthersAreKept, StartedGrows
<1>5. \A d \in Calls \ {c} : Ready(d)'
  <2>1. SUFFICES ASSUME NEW d \in Calls, d # c PROVE Ready(d)'
    OBVIOUS
  <2>2. /\ stage'[d] = stage[d] /\ req'[d] = req[d] /\ loc'[d].vin = loc[d].vin
        /\ loc'[d].variant = loc[d].variant /\ loc'[d].profile = loc[d].profile
        /\ loc'[d].fd = loc[d].fd
    BY <2>1, OthersAreKept
  <2>3. CASE stage[d] = "load"
    BY <1>1, <2>2, <2>3
  <2>4. CASE stage[d] \in {"open", "rename"}
    BY <1>1, <1>3, <2>2, <2>4
  <2>5. CASE stage[d] = "write"
    <3>1. loc[d].fd \in Calls
      BY <1>1, <2>5 DEF Locals
    <3>2. QED
      BY <1>1, <1>3, <1>4, <2>2, <2>5, <3>1
  <2>6. QED
    BY <2>2, <2>3, <2>4, <2>5
<1>6. dir' = dir => \A v \in Vins : \A i \in Named(v)' : loc'[i].vin = v /\ Started(i)'
  BY <1>1, <1>4
<1>7. \A i \in Calls : inode'[i] = inode[i] => Whole(i)'
  BY <1>1, <1>3, <1>4
<1>8. CASE ~InProfile(c)
  <2>1. dir' = dir /\ inode' = inode /\ stage'[c] \notin {"open", "write", "rename"}
    BY <1>8, FilesAreAlone
  <2>2. Ready(c)'
    <3>1. CASE stage'[c] = "load"
      <4>1. read_data(c)
        BY <3>1, FilesAreAlone
      <4>2. loc' = loc /\ req' = req /\ loc[c].vin # None /\ loc[c].variant \in Loadable
        BY <3>1, <4>1 DEF read_data
      <4>3. [vin |-> loc[c].vin, ecu |-> req[c].ecu, variant |-> loc[c].variant,
             car |-> state.car, replaced |-> loc[c].replaced] \in learned'
        BY <3>1, <4>1 DEF read_data
      <4>4. \E f \in learned' : f.vin = loc[c].vin /\ f.ecu = req[c].ecu /\ f.variant = loc[c].variant
        BY <4>3
      <4>5. loc[c].vin \in Vins
        BY <4>2 DEF Locals
      <4>6. QED
        BY <2>1, <3>1, <4>2, <4>4, <4>5
    <3>2. QED
      BY <2>1, <3>1
  <2>3. QED
    BY <1>2, <1>5, <1>6, <1>7, <2>1, <2>2
<1>9. CASE record_load(c)
  <2>1. dir' = dir /\ inode' = inode /\ req' = req /\ stage'[c] \in {"open", "done"}
    BY <1>9 DEF record_load
  <2>2. /\ loc[c].vin \in Vins /\ loc[c].variant \in Variants /\ req[c].ecu \in Ecus
        /\ \E f \in learned : /\ f.vin = loc[c].vin /\ f.ecu = req[c].ecu
                              /\ f.variant = loc[c].variant
    BY <1>1, <1>9 DEF record_load, Checked
  <2>3. loc'[c].vin = loc[c].vin /\ loc'[c].profile = Merged(c)
    BY <1>9 DEF record_load, Set, Locals
  <2>4. Known(loc[c].vin, load(loc[c].vin)) /\ load(loc[c].vin) \in Profile
    BY <2>2, LoadIsKnown, LoadTyped
  <2>5. Known(loc[c].vin, Merged(c))
    BY <2>2, <2>4 DEF Known, Merged, Profile
  <2>6. Known(loc[c].vin, loc[c].profile)'
    BY <1>3, <2>3, <2>5
  <2>7. Ready(c)'
    BY <2>1, <2>2, <2>3, <2>6
  <2>8. QED
    BY <1>2, <1>5, <1>6, <1>7, <2>1, <2>7
<1>10. CASE record_open(c)
  <2>1. loc[c].vin \in Vins /\ Known(loc[c].vin, loc[c].profile) /\ stage[c] = "open"
    BY <1>1, <1>10 DEF record_open
  <2>2. CASE Go(c, "done") /\ UNCHANGED <<fileVars, loc>>
    BY <1>2, <1>5, <1>6, <1>7, <2>2
  <2> DEFINE v == loc[c].vin
             i == IF dir[v].tmp = None THEN c ELSE dir[v].tmp
  <2>3. CASE /\ dir' = [dir EXCEPT ![v].tmp = i]
             /\ inode' = [inode EXCEPT ![i] = [@ EXCEPT !.size = 0, !.parses = FALSE]]
             /\ Set(c, "fd", i)
             /\ Go(c, "write")
    <3>1. i \in Calls /\ loc[i].vin = v /\ (i = c \/ Started(i))
      BY <1>1, <2>1
    <3>2. /\ stage'[c] = "write" /\ loc'[c].vin = v /\ loc'[c].profile = loc[c].profile
          /\ loc'[c].fd = i
      BY <2>3, SetLeaves
    <3>3. stage'[i] \in {"write", "rename", "done"} /\ loc'[i].vin = v
      <4>1. CASE i = c
        BY <3>2, <4>1 DEF Started
      <4>2. CASE i # c
        BY <1>4, <3>1, <4>2 DEF Started
      <4>3. QED
        BY <4>1, <4>2
    <3>4. ~inode'[i].parses /\ \A j \in Calls \ {i} : inode'[j] = inode[j]
      BY <2>3, <3>1 DEF Contents
    <3>5. \A j \in Calls : Whole(j)'
      BY <1>7, <3>4
    <3>6. \A w \in Vins : \A j \in Named(w)' : (j = i /\ w = v) \/ j \in Named(w)
      <4>1. i \in Calls
        BY <3>1
      <4>2. dir'[v].tmp = i /\ dir'[v].json = dir[v].json /\ \A w \in Vins \ {v} : dir'[w] = dir[w]
        <5> HIDE DEF i
        <5>1. dir \in [Vins -> Names] /\ v \in Vins
          BY <2>1
        <5>2. QED
          BY <2>3, <4>1, <5>1, TemporaryNamed
      <4>3. QED
        BY <4>2
    <3> HIDE DEF i
    <3>7. \A w \in Vins : \A j \in Named(w)' : loc'[j].vin = w /\ Started(j)'
      <4>1. SUFFICES ASSUME NEW w \in Vins, NEW j \in Named(w)' PROVE loc'[j].vin = w /\ Started(j)'
        OBVIOUS
      <4>2. CASE j \in Named(w)
        BY <1>1, <1>4, <4>2
      <4>3. CASE j = i /\ w = v
        BY <3>3, <4>3 DEF Started
      <4>4. QED
        BY <3>6, <4>2, <4>3
    <3>8. Ready(c)'
      <4>1. Known(loc[c].vin, loc[c].profile)'
        BY <1>3, <2>1, <3>2
      <4>2. (loc[c].fd # None /\ loc[loc[c].fd].vin = loc[c].vin /\ Started(loc[c].fd))'
        BY <3>1, <3>2, <3>3 DEF Started
      <4>3. QED
        BY <2>1, <3>2, <4>1, <4>2
    <3>9. QED
      BY <1>2, <1>5, <3>5, <3>7, <3>8
  <2>4. QED
    BY <1>10, <2>2, <2>3 DEF record_open
<1>11. CASE record_write(c)
  <2> DEFINE i == loc[c].fd
  <2>1. /\ i \in Calls /\ loc[i].vin = loc[c].vin /\ Started(i) /\ stage[c] = "write"
        /\ loc[c].vin \in Vins /\ Known(loc[c].vin, loc[c].profile)
    BY <1>1, <1>11 DEF record_write, Locals
  <2>2. dir' = dir /\ loc' = loc /\ stage'[c] \in {"rename", "done"}
    BY <1>11 DEF record_write
  <2>3. \A j \in Calls \ {i} : inode'[j] = inode[j]
    BY <1>11 DEF record_write
  <2>4. inode'[i] = inode[i] \/ inode'[i].profile = loc[c].profile
    BY <1>11, <2>1 DEF record_write
  <2>5. Known(loc[c].vin, loc[c].profile)'
    BY <1>3, <2>1, <2>2
  <2>6. \A j \in Calls : Whole(j)'
    BY <1>4, <1>7, <2>1, <2>2, <2>3, <2>4, <2>5
  <2>7. Ready(c)'
    BY <2>1, <2>2, <2>5
  <2>8. QED
    BY <1>2, <1>5, <1>6, <2>2, <2>6, <2>7
<1>12. CASE record_rename(c)
  <2>1. inode' = inode /\ loc' = loc /\ stage'[c] = "done"
    BY <1>12 DEF record_rename
  <2>2. \A v \in Vins : \A j \in Named(v)' : j \in Named(v)
    BY <1>12 DEF record_rename, Names
  <2>3. \A v \in Vins : \A j \in Named(v)' : loc'[j].vin = v /\ Started(j)'
    BY <1>1, <1>4, <2>2
  <2>4. Ready(c)'
    BY <2>1
  <2>5. QED
    BY <1>2, <1>5, <1>7, <2>1, <2>3, <2>4
<1>13. InProfile(c) => record_load(c) \/ record_open(c) \/ record_write(c) \/ record_rename(c)
  BY DEF InProfile, Call, Idle, Step, establish, install, disconnect, peek, resolve,
     list_measurements, list_service_functions, list_ecus, fault_help, Lists, not_connected,
     read_faults, read_info_memory, read_fault_detail, identify_vehicle, run_job, Reads, read_data,
     clear_preread, clear_all_dtcs, ecu_reset, fitted_addrs, scan_ecus, read_all_faults,
     clear_all_faults, Sweeps
<1>14. QED
  BY <1>8, <1>9, <1>10, <1>11, <1>12, <1>13

-----------------------------------------------------------------------------
(***************************************************************************)
(* The invariant is inductive.                                             *)
(***************************************************************************)

\* The server starts with at most a connection of its own making, and no files.
LEMMA InitInv == Init => IInv
<1> SUFFICES ASSUME Init PROVE IInv
  OBVIOUS
<1>1. TypeOK
  BY InitTyped
<1>2. \A c \in Calls : /\ stage[c] = "idle" /\ loc[c].vin = None /\ deeds[c] = {}
                       /\ ~inode[c].parses
  BY DEF Init, NoLocals
<1>3. Checked /\ MidSection /\ ClearIsOfTheReadCar /\ SweepsItsCar /\ VinIsOfItsCar
  BY <1>2 DEF Checked, MidSection, ClearIsOfTheReadCar, SweepsItsCar, VinIsOfItsCar
<1>4. HeldIsItsOwn
  <2>1. ASSUME NEW car \in Cars, NEW scanned \in BOOLEAN,
               state = [Connection(car, Vin[car]) EXCEPT
                          !.fitted = IF scanned THEN Configured[car] ELSE None]
        PROVE  HeldIsItsOwn
    BY <2>1 DEF Connection, HeldIsItsOwn
  <2>2. QED
    BY <2>1 DEF Init, HeldIsItsOwn
<1>5. LearnedIsOfItsCar
  BY DEF Init, LearnedIsOfItsCar
<1>6. FilesAreKnown
  <2>1. \A v \in Vins : dir[v].tmp = None /\ dir[v].json = None
    BY DEF Init
  <2>2. QED
    BY <1>2, <2>1 DEF FilesAreKnown
<1>7. QED
  BY <1>1, <1>3, <1>4, <1>5, <1>6 DEF IInv

\* The main task only queues for the mutex and drops the connection once it holds
\* it: no call is then in the middle of a lock section.
LEMMA MainIsKept ==
    ASSUME IInv, Shutdown \/ disconnect_now
    PROVE  IInv'
<1>1. /\ UNCHANGED <<stage, req, loc, cache, dir, inode, deeds, learned, raced>>
      /\ state' \in {state, None} /\ (main' # "exited" => main # "exited" /\ state' = state)
  BY DEF Shutdown, disconnect_now, fileVars, history
<1>2. /\ lock \in Seq(Calls \union {Main})
      /\ \/ lock' = Append(lock, Main) /\ state' = state
         \/ Holds(Main) /\ lock' = Tail(lock)
      /\ main' \in {"serving", "closed", "signalled", "exited"}
  BY DEF IInv, TypeOK, Release, Shutdown, disconnect_now
<1>3. \A c \in Calls : Holds(c) => Holds(c)' /\ state' = state
  BY <1>2 DEF Holds
<1>4. lock' \in Seq(Calls \union {Main})
  BY <1>2 DEF Holds
<1>5. TypeOK'
  BY <1>1, <1>2, <1>4 DEF IInv, TypeOK
<1>6. MidSection'
  BY <1>1, <1>3 DEF IInv, MidSection, Deed
<1>7. HeldIsItsOwn'
  BY <1>1 DEF IInv, HeldIsItsOwn
<1>8. VinIsOfItsCar'
  BY <1>1 DEF IInv, VinIsOfItsCar
<1>9. Checked' /\ ClearIsOfTheReadCar' /\ SweepsItsCar' /\ LearnedIsOfItsCar'
  BY <1>1 DEF IInv, Checked, ClearIsOfTheReadCar, SweepsItsCar, LearnedIsOfItsCar
<1>10. FilesAreKnown'
  BY <1>1 DEF IInv, FilesAreKnown, Started, Known
<1>11. QED
  BY <1>5, <1>6, <1>7, <1>8, <1>9, <1>10 DEF IInv

\* Nothing happens.
LEMMA StutterIsKept ==
    ASSUME IInv, UNCHANGED vars
    PROVE  IInv'
<1>1. /\ UNCHANGED <<state, lock, main, stage, req, loc, cache, dir, inode>>
      /\ UNCHANGED <<deeds, learned, raced>>
  BY DEF vars
<1>2. TypeOK' /\ Checked' /\ HeldIsItsOwn'
  BY <1>1 DEF IInv, TypeOK, Checked, HeldIsItsOwn
<1>3. MidSection'
  BY <1>1 DEF IInv, MidSection, Holds, Deed
<1>4. ClearIsOfTheReadCar' /\ SweepsItsCar' /\ VinIsOfItsCar' /\ LearnedIsOfItsCar'
  BY <1>1 DEF IInv, ClearIsOfTheReadCar, SweepsItsCar, VinIsOfItsCar, LearnedIsOfItsCar
<1>5. FilesAreKnown'
  BY <1>1 DEF IInv, FilesAreKnown, Started, Known
<1>6. QED
  BY <1>2, <1>3, <1>4, <1>5 DEF IInv

\* Every step, of any call or of the main task, keeps the invariant.
LEMMA Inductive == IInv /\ [Next]_vars => IInv'
<1> SUFFICES ASSUME IInv, [Next]_vars PROVE IInv'
  OBVIOUS
<1>1. ASSUME NEW c \in Calls, Call(c) \/ Step(c) PROVE IInv'
  <2>1. TypeOK'
    BY <1>1, TypeIsKept DEF IInv
  <2>2. Checked' /\ HeldIsItsOwn' /\ MidSection'
    BY <1>1, CheckedIsKept, HeldIsKept, MidSectionIsKept DEF IInv
  <2>3. ClearIsOfTheReadCar' /\ SweepsItsCar' /\ VinIsOfItsCar'
    BY <1>1, DeedsAreKept, VinIsKept DEF IInv
  <2>4. LearnedIsOfItsCar' /\ learned \subseteq learned'
    BY <1>1, LearnedIsKept DEF IInv
  <2>5. FilesAreKnown'
    BY <1>1, <2>1, <2>4, FilesAreKept DEF IInv
  <2>6. QED
    BY <2>1, <2>2, <2>3, <2>4, <2>5 DEF IInv
<1>2. QED
  BY <1>1, MainIsKept, StutterIsKept DEF Next

\* Types, the exclusion of the lock sections and the contents of the files hold
\* together, at every step of every call and of the shutdown.
THEOREM McpInvariant == Spec => []IInv
BY InitInv, Inductive, PTL DEF Spec

\* The codes clear_faults echoes are those of the car it clears and resets,
\* whatever connect, disconnect or shutdown is called meanwhile.
THEOREM ClearedIsWhatWasRead == Spec => []ClearIsOfTheReadCar
<1>1. IInv => ClearIsOfTheReadCar
  BY DEF IInv
<1>2. QED
  BY <1>1, McpInvariant, PTL

\* A sweep visits the addresses of the car it is done to, and a profile says of a
\* VIN only what was scaled on a car with that VIN, or across a replaced
\* connection.
THEOREM RememberedIsItsCars == Spec => []MemoryIsOfItsCar
<1>1. ASSUME IInv PROVE MemoryIsOfItsCar
  <2>1. ASSUME NEW v \in Vins, NEW e \in Ecus, load(v)[e] # None
        PROVE  \E f \in learned : /\ f.vin = v /\ f.ecu = e /\ f.variant = load(v)[e]
                                  /\ Vin[f.car] = v \/ f.replaced
    <3>1. Known(v, load(v))
      BY <1>1, LoadIsKnown DEF IInv
    <3>2. PICK f \in learned : f.vin = v /\ f.ecu = e /\ f.variant = load(v)[e]
      BY <2>1, <3>1 DEF Known
    <3>3. QED
      BY <1>1, <3>2 DEF IInv, LearnedIsOfItsCar
  <2>2. QED
    BY <1>1, <2>1 DEF IInv, SweepsItsCar, MemoryIsOfItsCar
<1>2. QED
  BY <1>1, McpInvariant, PTL

-----------------------------------------------------------------------------
(***************************************************************************)
(* The profiles that one call at a time records.                           *)
(***************************************************************************)

\* The one writer of a VIN has merged all that is in place, and owns the temporary
\* file it writes; the file in place is whole.
OneWriterOf(v) ==
    /\ \A c, d \in Recording(v) : c = d
    /\ dir[v].json # None => inode[dir[v].json].parses /\ dir[v].tmp # dir[v].json
    /\ \A c \in Recording(v) :
          /\ stage[c] \in {"open", "write", "rename"} =>
                \A e \in Ecus : load(v)[e] # None => loc[c].profile[e] # None
          /\ stage[c] = "write" => loc[c].fd = dir[v].tmp /\ inode[loc[c].fd].size = 0
          /\ stage[c] = "rename" =>
                /\ dir[v].tmp # None /\ inode[dir[v].tmp].parses
                /\ inode[dir[v].tmp].profile = loc[c].profile

OneWriter == \A v \in Vins \ raced : OneWriterOf(v)

\* A call touches only the files of the VIN it records.
LEMMA OtherFilesAreKept ==
    ASSUME IInv, NEW c \in Calls, Call(c) \/ Step(c), NEW v \in Vins, ~InProfile(c) \/ loc[c].vin # v
    PROVE  /\ dir'[v] = dir[v]
           /\ \A i \in {dir[v].tmp, dir[v].json} \ {None} : inode'[i] = inode[i]
           /\ load(v)' = load(v)
<1> USE DEF IInv, TypeOK, fileVars, history
<1>1. \A w \in Vins : \A i \in {dir[w].tmp, dir[w].json} \ {None} :
         i \in Calls /\ loc[i].vin = w /\ Started(i)
  BY DEF FilesAreKnown, Names
<1>2. /\ dir'[v] = dir[v]
      /\ \A i \in {dir[v].tmp, dir[v].json} \ {None} : inode'[i] = inode[i]
  <2>1. CASE ~InProfile(c)
    BY <2>1, FilesAreAlone
  <2>2. CASE record_load(c)
    BY <2>2 DEF record_load
  <2>3. CASE record_open(c) /\ loc[c].vin # v
    <3> DEFINE i == IF dir[loc[c].vin].tmp = None THEN c ELSE dir[loc[c].vin].tmp
    <3>1. loc[c].vin \in Vins
      BY <2>3 DEF record_open, FilesAreKnown
    <3>2. loc[i].vin = loc[c].vin
      BY <1>1, <3>1
    <3>3. dir'[v] = dir[v] /\ \A j \in Calls \ {i} : inode'[j] = inode[j]
      BY <2>3, <3>1 DEF record_open
    <3> HIDE DEF i
    <3>4. QED
      BY <1>1, <2>3, <3>2, <3>3
  <2>4. CASE record_write(c) /\ loc[c].vin # v
    <3>1. loc[loc[c].fd].vin = loc[c].vin
      BY <2>4 DEF record_write, FilesAreKnown
    <3>2. dir' = dir /\ \A j \in Calls \ {loc[c].fd} : inode'[j] = inode[j]
      BY <2>4 DEF record_write
    <3>3. QED
      BY <1>1, <2>4, <3>1, <3>2
  <2>5. CASE record_rename(c) /\ loc[c].vin # v
    BY <2>5 DEF record_rename
  <2>6. InProfile(c) => record_load(c) \/ record_open(c) \/ record_write(c) \/ record_rename(c)
    BY DEF InProfile, Call, Idle, Step, establish, install, disconnect, peek, resolve,
     list_measurements, list_service_functions, list_ecus, fault_help, Lists, not_connected,
     read_faults, read_info_memory, read_fault_detail, identify_vehicle, run_job, Reads, read_data,
     clear_preread, clear_all_dtcs, ecu_reset, fitted_addrs, scan_ecus, read_all_faults,
     clear_all_faults, Sweeps
  <2>7. QED
    BY <2>1, <2>2, <2>3, <2>4, <2>5, <2>6
<1>3. load(v)' = load(v)
  BY <1>2 DEF load
<1>4. QED
  BY <1>2, <1>3

\* A call that records keeps its VIN, and what it does is one of four system calls.
LEMMA RecordingSteps ==
    ASSUME TypeOK, NEW c \in Calls, Call(c) \/ Step(c), InProfile(c)
    PROVE  /\ record_load(c) \/ record_open(c) \/ record_write(c) \/ record_rename(c)
           /\ loc'[c].vin = loc[c].vin /\ raced' = raced
<1>1. record_load(c) \/ record_open(c) \/ record_write(c) \/ record_rename(c)
  BY DEF InProfile, Call, Idle, Step, establish, install, disconnect, peek, resolve,
     list_measurements, list_service_functions, list_ecus, fault_help, Lists, not_connected,
     read_faults, read_info_memory, read_fault_detail, identify_vehicle, run_job, Reads, read_data,
     clear_preread, clear_all_dtcs, ecu_reset, fitted_addrs, scan_ecus, read_all_faults,
     clear_all_faults, Sweeps
<1>2. loc'[c].vin = loc[c].vin /\ raced' = raced
  <2>1. loc' = loc \/ \E x : Set(c, "fd", x) \/ Set(c, "profile", x)
    BY <1>1 DEF record_load, record_open, record_write, record_rename
  <2>2. loc'[c].vin = loc[c].vin
    BY <2>1, SetLeaves DEF TypeOK
  <2>3. raced' = raced
    BY <1>1 DEF record_load, record_open, record_write, record_rename, history
  <2>4. QED
    BY <2>2, <2>3
<1>3. QED
  BY <1>1, <1>2

\* While the calls of other VINs, or the lock sections of any call, make their
\* steps, the one writer of a VIN is alone.
LEMMA OthersLeaveTheWriter ==
    ASSUME IInv, OneWriter, NEW c \in Calls, Call(c) \/ Step(c), NEW v \in Vins,
           v \notin raced', ~InProfile(c) \/ loc[c].vin # v
    PROVE  OneWriterOf(v)'
<1>1. v \notin raced /\ (stage'[c] = "load" /\ loc[c].vin = v => Recording(v) = {})
  <2>1. raced \subseteq raced'
    BY DEF history, Call, Step, establish, install, disconnect, peek, resolve,
     list_measurements, list_service_functions, list_ecus, fault_help, Lists, not_connected,
     read_faults, read_info_memory, read_fault_detail, identify_vehicle, run_job, Reads, read_data,
     clear_preread, clear_all_dtcs, ecu_reset, fitted_addrs, scan_ecus, read_all_faults,
     clear_all_faults, Sweeps, record_load, record_open, record_write, record_rename
  <2>2. ASSUME stage'[c] = "load", loc[c].vin = v PROVE Recording(v) = {}
    <3>1. read_data(c)
      BY <2>2, FilesAreAlone DEF IInv
    <3>2. QED
      BY <2>2, <3>1 DEF read_data, Go, IInv, TypeOK
  <2>3. QED
    BY <2>1, <2>2
<1>2. OneWriterOf(v)
  BY <1>1 DEF OneWriter
<1>3. /\ dir'[v] = dir[v] /\ load(v)' = load(v)
      /\ \A i \in {dir[v].tmp, dir[v].json} \ {None} : inode'[i] = inode[i]
  BY OtherFilesAreKept
<1>4. \A d \in Calls \ {c} :
         /\ stage'[d] = stage[d] /\ loc'[d].vin = loc[d].vin
         /\ loc'[d].profile = loc[d].profile /\ loc'[d].fd = loc[d].fd
  BY OthersAreKept DEF IInv
<1>5. c \in Recording(v)' => stage'[c] = "load" /\ loc[c].vin = v
  <2>1. ASSUME c \in Recording(v)', InProfile(c) PROVE FALSE
    BY <2>1, RecordingSteps DEF IInv, Recording
  <2>2. ASSUME c \in Recording(v)', ~InProfile(c) PROVE stage'[c] = "load" /\ loc[c].vin = v
    <3>1. stage'[c] = "load"
      BY <2>2, FilesAreAlone DEF IInv, Recording, InProfile
    <3>2. loc' = loc
      BY <3>1, FilesAreAlone DEF IInv, read_data
    <3>3. QED
      BY <2>2, <3>1, <3>2 DEF Recording
  <2>3. QED
    BY <2>1, <2>2
<1>6. \A d \in Calls \ {c} : d \in Recording(v)' <=> d \in Recording(v)
  BY <1>4 DEF Recording, InProfile
<1>7. \A d, e \in Recording(v)' : d = e
  BY <1>1, <1>2, <1>5, <1>6 DEF OneWriterOf, Recording
<1>8. ASSUME NEW d \in Recording(v)', d # c
      PROVE  /\ stage'[d] \in {"open", "write", "rename"} =>
                   \A e \in Ecus : load(v)'[e] # None => loc'[d].profile[e] # None
             /\ stage'[d] = "write" => loc'[d].fd = dir'[v].tmp /\ inode'[loc'[d].fd].size = 0
             /\ stage'[d] = "rename" =>
                   /\ dir'[v].tmp # None /\ inode'[dir'[v].tmp].parses
                   /\ inode'[dir'[v].tmp].profile = loc'[d].profile
  <2>1. d \in Recording(v) /\ d \in Calls
    BY <1>6, <1>8 DEF Recording
  <2>2. stage[d] = "write" => loc[d].fd # None
    BY <2>1 DEF IInv, FilesAreKnown
  <2>3. QED
    BY <1>2, <1>3, <1>4, <1>8, <2>1, <2>2 DEF OneWriterOf
<1>9. dir'[v].json # None => inode'[dir'[v].json].parses /\ dir'[v].tmp # dir'[v].json
  BY <1>2, <1>3 DEF OneWriterOf
<1>10. QED
  BY <1>5, <1>7, <1>8, <1>9 DEF OneWriterOf

\* The system calls of the one writer: what is in place is replaced by a whole file
\* that has all of its entries, or is left.
LEMMA WriterIsKept ==
    ASSUME IInv, IInv', OneWriter, NEW c \in Calls, Call(c) \/ Step(c), NEW v \in Vins,
           v \notin raced', InProfile(c), loc[c].vin = v
    PROVE  OneWriterOf(v)' /\ \A e \in Ecus : load(v)[e] # None => load(v)'[e] # None
<1> USE DEF IInv, TypeOK, fileVars, history, Go
<1>1. OneWriterOf(v) /\ c \in Recording(v) /\ loc'[c].vin = v
  BY RecordingSteps DEF OneWriter, Recording
<1>2. Recording(v)' \subseteq {c}
  BY <1>1, OthersAreKept DEF OneWriterOf, Recording, InProfile
<1>3. \A i \in {dir[v].tmp, dir[v].json} \ {None} : i \in Calls /\ loc[i].vin = v /\ Started(i)
  BY DEF FilesAreKnown, Names
<1>4. ASSUME /\ dir'[v].json # None => inode'[dir'[v].json].parses /\ dir'[v].tmp # dir'[v].json
             /\ stage'[c] \in {"open", "write", "rename"} =>
                   \A e \in Ecus : load(v)'[e] # None => loc'[c].profile[e] # None
             /\ stage'[c] = "write" => loc'[c].fd = dir'[v].tmp /\ inode'[loc'[c].fd].size = 0
             /\ stage'[c] = "rename" =>
                   /\ dir'[v].tmp # None /\ inode'[dir'[v].tmp].parses
                   /\ inode'[dir'[v].tmp].profile = loc'[c].profile
      PROVE  OneWriterOf(v)'
  BY <1>2, <1>4 DEF OneWriterOf
<1>5. dir'[v].json = dir[v].json /\ (dir[v].json # None => inode'[dir[v].json] = inode[dir[v].json])
        => load(v)' = load(v)
  BY DEF load
<1>6. CASE record_load(c)
  <2>1. dir' = dir /\ inode' = inode /\ stage'[c] \in {"open", "done"}
    BY <1>6 DEF record_load
  <2>2. loc'[c].profile = Merged(c)
    BY <1>6 DEF record_load, Set, Locals
  <2>3. load(v) \in Profile /\ loc[c].variant # None /\ load(v)' = load(v)
    BY <1>5, <1>6, <2>1, LoadTyped DEF record_load, FilesAreKnown
  <2>4. \A e \in Ecus : load(v)[e] # None => Merged(c)[e] # None
    BY <1>6, <2>3 DEF Merged, Profile
  <2>5. QED
    BY <1>1, <1>4, <2>1, <2>2, <2>3, <2>4 DEF OneWriterOf
<1>7. CASE record_open(c)
  <2>1. CASE Go(c, "done") /\ UNCHANGED <<fileVars, loc>>
    BY <1>1, <1>4, <1>5, <2>1 DEF OneWriterOf
  <2> DEFINE i == IF dir[v].tmp = None THEN c ELSE dir[v].tmp
  <2>2. CASE /\ dir' = [dir EXCEPT ![v].tmp = i]
             /\ inode' = [inode EXCEPT ![i] = [@ EXCEPT !.size = 0, !.parses = FALSE]]
             /\ Set(c, "fd", i)
             /\ Go(c, "write")
    <3>1. i \in Calls /\ i # dir[v].json
      BY <1>1, <1>3, <1>7 DEF record_open, Started, OneWriterOf
    <3>2. dir'[v].tmp = i /\ dir'[v].json = dir[v].json
      BY <2>2, <3>1 DEF Names
    <3>3. inode'[i].size = 0 /\ \A j \in Calls \ {i} : inode'[j] = inode[j]
      BY <2>2, <3>1 DEF Contents
    <3>4. stage'[c] = "write" /\ loc'[c].fd = i /\ loc'[c].profile = loc[c].profile
      BY <2>2 DEF Set, Locals
    <3>5. load(v)' = load(v) /\ (dir[v].json # None => inode'[dir[v].json] = inode[dir[v].json])
      BY <1>3, <1>5, <3>1, <3>2, <3>3
    <3>6. \A e \in Ecus : load(v)[e] # None => loc[c].profile[e] # None
      BY <1>1, <1>7 DEF record_open, OneWriterOf
    <3> HIDE DEF i
    <3>7. QED
      BY <1>1, <1>4, <3>1, <3>2, <3>3, <3>4, <3>5, <3>6 DEF OneWriterOf
  <2>3. QED
    BY <1>7, <2>1, <2>2 DEF record_open
<1>8. CASE record_write(c)
  <2> DEFINE i == dir[v].tmp
             n == Entries(loc[c].profile)
  <2>1. i = loc[c].fd /\ i \in Calls /\ inode[i].size = 0 /\ i # dir[v].json
    <3>1. stage[c] = "write" /\ i = loc[c].fd /\ inode[i].size = 0
      BY <1>1, <1>8 DEF record_write, OneWriterOf
    <3>2. loc[c].fd # None
      BY <3>1 DEF FilesAreKnown
    <3>3. i \in Calls
      BY <1>3, <3>1, <3>2
    <3>4. i # dir[v].json
      BY <1>1, <3>3 DEF OneWriterOf
    <3>5. QED
      BY <3>1, <3>3, <3>4
  <2>2. dir' = dir /\ loc' = loc /\ \A j \in Calls \ {i} : inode'[j] = inode[j]
    BY <1>8, <2>1 DEF record_write
  <2>3. load(v)' = load(v) /\ (dir[v].json # None => inode'[dir[v].json] = inode[dir[v].json])
    BY <1>3, <1>5, <2>1, <2>2
  <2>4. stage'[c] \in {"rename", "done"}
    BY <1>8 DEF record_write
  <2>5. stage'[c] = "rename" => inode'[i].parses /\ inode'[i].profile = loc[c].profile
    <3>1. ~(inode[i].size > n)
      BY <2>1, EntriesTyped
    <3> DEFINE file == [size |-> IF inode[i].size > n THEN inode[i].size ELSE n,
                        parses |-> ~(inode[i].size > n), profile |-> loc[c].profile]
    <3>2. stage'[c] = "rename" => inode' = [inode EXCEPT ![i] = file]
      BY <1>8, <2>1 DEF record_write
    <3>3. file.parses /\ file.profile = loc[c].profile
      BY <3>1
    <3> HIDE DEF file, i, n
    <3>4. QED
      BY <2>1, <3>2, <3>3
  <2>6. \A e \in Ecus : load(v)[e] # None => loc[c].profile[e] # None
    BY <1>1, <1>8 DEF record_write, OneWriterOf
  <2>7. QED
    <3> HIDE DEF i, n
    <3>1. dir'[v] = dir[v] /\ dir[v].tmp = i /\ loc'[c] = loc[c]
      BY <2>2 DEF i
    <3>2. dir[v].json # None => inode[dir[v].json].parses /\ dir[v].tmp # dir[v].json
      BY <1>1 DEF OneWriterOf
    <3>3. dir'[v].json # None => inode'[dir'[v].json].parses /\ dir'[v].tmp # dir'[v].json
      BY <2>3, <3>1, <3>2
    <3>4. \A e \in Ecus : load(v)'[e] # None => loc'[c].profile[e] # None
      BY <2>3, <2>6, <3>1
    <3>5. stage'[c] = "rename" =>
                   /\ dir'[v].tmp # None /\ inode'[dir'[v].tmp].parses
                   /\ inode'[dir'[v].tmp].profile = loc'[c].profile
      BY <2>1, <2>5, <3>1
    <3>6. QED
      BY <1>4, <2>3, <2>4, <2>6, <3>3, <3>4, <3>5
<1>9. CASE record_rename(c)
  <2>1. /\ dir[v].tmp # None /\ inode[dir[v].tmp].parses /\ inode[dir[v].tmp].profile = loc[c].profile
        /\ \A e \in Ecus : load(v)[e] # None => loc[c].profile[e] # None
    BY <1>1, <1>9 DEF record_rename, OneWriterOf
  <2>2. dir'[v] = [tmp |-> None, json |-> dir[v].tmp] /\ inode' = inode /\ stage'[c] = "done"
    BY <1>9, <2>1 DEF record_rename
  <2>3. load(v)' = loc[c].profile
    BY <2>1, <2>2 DEF load
  <2>4. QED
    BY <1>4, <2>1, <2>2, <2>3
<1>10. QED
  BY <1>6, <1>7, <1>8, <1>9, RecordingSteps

\* Of the VINs that no two calls recorded at the same time.
LEMMA OneWriterInductive ==
    /\ Init => OneWriter
    /\ IInv /\ IInv' /\ OneWriter /\ [Next]_vars => OneWriter'
<1>1. Init => OneWriter
  BY DEF Init, OneWriter, OneWriterOf, Recording, InProfile
<1>2. ASSUME IInv, IInv', OneWriter, [Next]_vars PROVE OneWriter'
  <2>1. ASSUME NEW c \in Calls, Call(c) \/ Step(c) PROVE OneWriter'
    BY <1>2, <2>1, OthersLeaveTheWriter, WriterIsKept DEF OneWriter
  <2>2. CASE Shutdown \/ disconnect_now \/ UNCHANGED vars
    <3>1. UNCHANGED <<stage, loc, dir, inode, raced>>
      BY <2>2 DEF Shutdown, disconnect_now, vars, fileVars, history
    <3>2. QED
      BY <1>2, <3>1 DEF OneWriter, OneWriterOf, Recording, InProfile, load
  <2>3. QED
    BY <1>2, <2>1, <2>2 DEF Next
<1>3. QED
  BY <1>1, <1>2

\* A profile that no two calls recorded at the same time is a whole file in every
\* state and loses no entry in any step, whichever system call fails.
THEOREM ProfilesAreKept == Spec => ProfileIsKept
<1> DEFINE Kept == \A v \in Vins \ raced' :
                      /\ dir'[v].json # None => inode'[dir'[v].json].parses
                      /\ \A e \in Ecus : load(v)[e] # None => (load(v)[e])' # None
<1>1. ASSUME IInv, IInv', OneWriter, OneWriter', [Next]_vars PROVE [Kept]_vars
  <2>1. ASSUME NEW c \in Calls, Call(c) \/ Step(c) PROVE Kept
    <3>1. ASSUME NEW v \in Vins \ raced', NEW e \in Ecus, load(v)[e] # None PROVE (load(v)[e])' # None
      <4>1. CASE InProfile(c) /\ loc[c].vin = v
        BY <1>1, <2>1, <3>1, <4>1, WriterIsKept
      <4>2. CASE ~InProfile(c) \/ loc[c].vin # v
        BY <1>1, <2>1, <3>1, <4>2, OtherFilesAreKept
      <4>3. QED
        BY <4>1, <4>2
    <3>2. QED
      BY <1>1, <3>1 DEF OneWriter, OneWriterOf
  <2>2. CASE Shutdown \/ disconnect_now
    <3>1. UNCHANGED <<dir, inode, raced>>
      BY <2>2 DEF Shutdown, disconnect_now, fileVars, history
    <3>2. QED
      BY <1>1, <3>1 DEF OneWriter, OneWriterOf, load
  <2>3. QED
    BY <1>1, <2>1, <2>2 DEF Next
<1>2. QED
  BY <1>1, McpInvariant, OneWriterInductive, PTL DEF Spec, ProfileIsKept

=============================================================================
