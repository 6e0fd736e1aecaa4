------------------------------ MODULE BestJob ------------------------------
(***************************************************************************)
(* A job of the BEST/2 machine: step of exec.rs in the loop of engine.rs,  *)
(* which looks the next instruction up by the program counter.  What an    *)
(* exchange and a wait do is JobEngine's; here the job just goes on.       *)
(***************************************************************************)
EXTENDS BestData

CONSTANTS
    Jobs,              \* the programs: sequences of instructions
    Start(_)           \* the machines a program is started with

VARIABLES
    job,
    m,                 \* the machine and its context
    flow,              \* what the last step returned: a Flow, or an error
    last               \* history: the last instruction and the machine before it

vars == <<job, m, flow, last>>

Running == {"Next", "Jumped", "Exchange", "Wait"}

step(machine, op) ==
    Bind(fold_index_increments([machine EXCEPT !.pc = op.offset + op.len], op),
        LAMBDA m1, folded :
            IF op.op \in DataOps THEN DataStep(m1, folded) ELSE IntegerStep(m1, folded))

Init ==
    /\ job \in Jobs
    /\ m \in Start(job)
    /\ flow = "Next"
    /\ last = [op |-> "none"]

\* One pass of the loop of run_job.
Run ==
    /\ flow \in Running
    /\ \E i \in DOMAIN job :
        /\ job[i].offset = m.pc
        /\ LET r == step(m, job[i])
           IN  /\ m' = r.m
               /\ flow' = IF r.err = "" THEN r.v ELSE r.err
               /\ last' = [op |-> job[i].op, mode0 |-> job[i].mode0, arg0 |-> job[i].arg0,
                           mode1 |-> job[i].mode1, arg1 |-> job[i].arg1, before |-> m]
    /\ UNCHANGED job

BadPc ==
    /\ flow \in Running
    /\ \A i \in DOMAIN job : job[i].offset # m.pc
    /\ flow' = "BadPc"
    /\ UNCHANGED <<job, m, last>>

Stopped == flow \notin Running /\ UNCHANGED vars

Next == Run \/ BadPc \/ Stopped

Spec == Init /\ [][Next]_vars

-----------------------------------------------------------------------------
(***************************************************************************)
(* What the properties compare with: the operands as numbers.              *)
(***************************************************************************)

Value(machine, o) == read(machine, o).v.v
Was(o) == Value(last.before, o)
Is(o) == Value(m, o)

Did(ops) == last.op \in ops /\ flow = "Next"
SameBank == IsIntReg(last.arg0) /\ IsIntReg(last.arg1) /\ last.arg0.bank = last.arg1.bank
Size == Width[last.arg0.bank]
Lowest(len) == - (Pow(len) \div 2)
Fits(v, len) == v \in Lowest(len) .. - Lowest(len) - 1

\* The first instruction compared two registers.
Compared ==
    /\ job[1].op = "comp"
    /\ last.op \in Branches
    /\ flow \in {"Next", "Jumped"}

(***************************************************************************)
(* Sums and differences are exact modulo the width, and their flags are    *)
(* those of the exact result: carry is an unsigned result out of range,    *)
(* overflow a signed one.  When the lowest number is subtracted, overflow  *)
(* is the opposite, since set_overflow is given the negated subtrahend     *)
(* (op_adds, op_subb, op_comp, exec.rs:455-484).                           *)
(***************************************************************************)
SumsAreExact ==
    Did({"adds", "subb", "comp"}) /\ SameBank =>
        LET a == Was(last.arg0)
            b == Was(last.arg1)
            n == IF last.op = "adds" THEN a + b ELSE a - b
            s == IF last.op = "adds" THEN Signed(a, Size) + Signed(b, Size)
                 ELSE Signed(a, Size) - Signed(b, Size)
            inverted == last.op # "adds" /\ Signed(b, Size) = Lowest(Size)
        IN  /\ Is(last.arg0) = IF last.op = "comp" THEN a ELSE n % Pow(Size)
            /\ m.flags.z = (n % Pow(Size) = 0)
            /\ m.flags.s = (Signed(n, Size) < 0)
            /\ m.flags.c = (n \notin 0 .. Pow(Size) - 1)
            /\ m.flags.v = (inverted # ~ Fits(s, Size))

(***************************************************************************)
(* A conditional jump after a comp is taken exactly if its relation holds  *)
(* of the two registers, signed or unsigned.  The signed ones fail against *)
(* the lowest number, where comp inverts overflow (step, exec.rs:262-330). *)
(***************************************************************************)
JumpsFollowTheComparison ==
    Compared =>
        LET len == Width[job[1].arg0.bank]
            a == Is(job[1].arg0)
            b == Is(job[1].arg1)
            x == Signed(a, len)
            y == Signed(b, len)
            holds == [jz |-> a = b, jnz |-> a # b, jc |-> a < b, jae |-> a >= b,
                      ja |-> a > b, jbe |-> a <= b,
                      jg |-> x > y, jge |-> x >= y, jl |-> x < y, jle |-> x <= y]
        IN  last.op \in DOMAIN holds /\ (y # Lowest(len) \/ last.op \notin {"jg", "jge", "jl", "jle"})
                => (flow = "Jumped") = holds[last.op]

(***************************************************************************)
(* A shift is a multiplication or a floored division by a power of two,    *)
(* and its carry is the last bit shifted out, whatever the count: none, a  *)
(* whole register, more, or a negative one, which does nothing.  Checked   *)
(* where the product fits TLC (op_shift_left, op_lsr, op_asr).             *)
(***************************************************************************)
ShiftsAreExact ==
    Did({"lsl", "asl", "lsr", "asr"}) /\ SameBank /\ Size < 4 =>
        LET a == Was(last.arg0)
            k == Min({Signed(Was(last.arg1), 4), 16})
            x == IF last.op = "asr" THEN Signed(a, Size) ELSE a
            n == IF last.op \in {"lsl", "asl"} THEN x * 2 ^ k ELSE x \div 2 ^ k
            out == IF last.op \in {"lsl", "asl"} THEN n \div Pow(Size) ELSE x \div 2 ^ (k - 1)
        IN  IF k < 0 THEN Is(last.arg0) = a /\ m.flags.c = last.before.flags.c
            ELSE /\ Is(last.arg0) = n % Pow(Size)
                 /\ m.flags.c = (k > 0 /\ out % 2 = 1)

(***************************************************************************)
(* mult leaves the two halves of the signed product of two bytes or words, *)
(* and divs a quotient and a remainder that give the dividend back, with   *)
(* the remainder smaller than the divisor and of the dividend's sign.  A   *)
(* division that has no result ends the job and has written nothing        *)
(* (op_mult, op_divs).                                                     *)
(***************************************************************************)
ProductsAndQuotients ==
    /\ Did({"mult"}) /\ SameBank /\ Size < 4 =>
          Signed(Is(last.arg0) + Pow(Size) * Is(last.arg1), 2 * Size)
              = Signed(Was(last.arg0), Size) * Signed(Was(last.arg1), Size)
    /\ Did({"divs"}) /\ SameBank =>
          LET a == Signed(Was(last.arg0), 4)
              b == Signed(Was(last.arg1), 4)
              q == Signed(Is(last.arg0), 4)
              r == Signed(Is(last.arg1), 4)
          IN  /\ a = b * q + r
              /\ r = 0 \/ (r < 0) = (a < 0)
              /\ r \in - Max({b, - b}) + 1 .. Max({b, - b}) - 1
    /\ last.op = "divs" => (flow = "DivideByZero") =
          (\/ Was(last.arg1) = 0
           \/ Signed(Was(last.arg0), 4) = Lowest(4) /\ Signed(Was(last.arg1), 4) = -1)
    /\ flow = "DivideByZero" => m.regs = last.before.regs

(***************************************************************************)
(* The interpreter computes what the instruction is meant to compute, and  *)
(* its flags are those of the exact result, so that a comparison and the   *)
(* jump after it decide as the two numbers do: the four parts above        *)
(* (exec.rs:262-330, 455-484, op_mult, op_divs, op_shift_left, op_asr).    *)
(***************************************************************************)
ArithmeticIsExact ==
    /\ SumsAreExact
    /\ JumpsFollowTheComparison
    /\ ShiftsAreExact
    /\ ProductsAndQuotients

(***************************************************************************)
(* atsp reads at a position what pop would return once the bytes above it  *)
(* are gone, and pop returns what push stored, for every mixture of widths *)
(* of registers and immediates (op_push, op_pop, op_atsp).                 *)
(***************************************************************************)
StackIsConsistent ==
    /\ Did({"atsp"}) =>
          LET above == Was(last.arg1) - Size
              rest  == [last.before EXCEPT !.stack = SubSeq(@, 1, Len(@) - above)]
          IN  Is(last.arg0) = Value(op_pop(rest, [arg0 |-> last.arg0]).m, last.arg0)
    /\ Did({"push"}) /\ IsIntReg(last.arg0) =>
          op_pop(m, [arg0 |-> last.arg0]).m.regs = m.regs
    /\ m.stack # <<>> => \A i \in DOMAIN m.stack : m.stack[i] \in 0 .. Radix - 1

(***************************************************************************)
(* An indexed access whose reach is past the end of the buffers records    *)
(* the error.  A job that masks it goes on, with no bytes read and nothing *)
(* stored; another one ends there.  No indexed access makes a register     *)
(* longer than the bound (read_source, write_indexed_dest, op_swap).       *)
(***************************************************************************)
BoundsAreTrapped ==
    last.op \in {"move", "adds", "comp", "swap"} =>
        LET \* The end of the bytes an operand names; an increment adds to the index.
            Reach(o, mode, n) ==
                IF o.kind # "Indexed" THEN 0
                ELSE Was(o.index) + (IF o.len = None THEN 0 ELSE Was(o.len))
                                  + (IF o.len = None \/ mode = "IdxRegImm" THEN n ELSE 0)
            bytes == IF last.op = "move" /\ IsReg(last.arg1, {"S"}) THEN Len(Was(last.arg1)) ELSE 1
            target == Reach(last.arg0, last.mode0, bytes) > ARRAY_MAX_SIZE
            past   == target \/ Reach(last.arg1, last.mode1, 1) > ARRAY_MAX_SIZE
        IN  /\ past => /\ flow = IF Bit(last.before.trap_mask, 0) THEN "Next" ELSE "Trapped"
                       /\ m.trap_bit = TRAP_BIT_UNMAPPED
                       /\ target => m.s = last.before.s
            /\ ~ past => m.trap_bit = last.before.trap_bit
            /\ \A i \in DOMAIN m.s : Len(m.s[i]) <= ARRAY_MAX_SIZE

(***************************************************************************)
(* The row of the cursor is a row of the selected table, so tabget never   *)
(* fails for the row, whatever tables and rows a job selected before; and  *)
(* the committed result sets all hold something (op_tabset, seek_result,   *)
(* op_tabline, op_tabget, op_enewset).                                     *)
(***************************************************************************)
CursorIsInItsTable ==
    /\ m.table = 0 => m.row = 0
    /\ m.table # 0 => m.row \in 0 .. Len(m.tables[m.table].rows)
    /\ last.op = "tabget" => flow # "TableRow"
    /\ \A k \in 1 .. Len(m.results) - 1 : m.results[k] # <<>>

(***************************************************************************)
(* The stack and the table cursor stay consistent over any sequence of     *)
(* instructions, as the two parts above say: what was pushed is what atsp  *)
(* and pop give back, and a cursor is never outside the table it is in,    *)
(* whichever table is selected next (op_atsp, op_pop, op_tabset, op_tabget)*)
(***************************************************************************)
StateIsConsistent == StackIsConsistent /\ CursorIsInItsTable

(***************************************************************************)
(* A job that ends where its edits are undone or its conversions reversed  *)
(* ends with the register it began with: spaste and serase, scat and scut, *)
(* fix2hex or fix2dez and a2fix, y2hex and hex2y, flt2a and a2flt of an    *)
(* integer of at most four digits.  a2fix takes the hexadecimal text of a  *)
(* negative L register for a number above the range and saturates it       *)
(* (op_a2fix, exec.rs:1449).  Such jobs write what they reverse to another *)
(* register of the bank, and name the two in their last instruction, a nop.*)
(***************************************************************************)
ReversedIsUnchanged ==
    last.op = "nop" /\ last.arg0 # None =>
        IF last.arg0.bank = "F"
        THEN LET v == Is(last.arg0) IN v[1] \in -9999 .. 9999 => Is(last.arg1) = v
        ELSE IF job[1].op = "fix2hex" /\ last.arg0.bank = "L" /\ Sign(Is(last.arg0), 4)
        THEN Is(last.arg1) = Pow(4) - 1
        ELSE Is(last.arg0) = Is(last.arg1)
=============================================================================
