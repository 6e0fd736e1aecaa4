----------------------------- MODULE BestArith -----------------------------
(***************************************************************************)
(* exec.rs of crates/best, the instructions that work on integers: moves,  *)
(* arithmetic, logic, shifts, the data stack, branches and the error trap. *)
(* A handler returns the machine and what the run loop does next, or the   *)
(* error that ends the job.                                                *)
(***************************************************************************)
EXTENDS BestMachine

TRAP_BIT_UNMAPPED == 0

-----------------------------------------------------------------------------
(***************************************************************************)
(* Flags and operands.                                                     *)
(***************************************************************************)

update_zs(m, value, len) ==
    [m EXCEPT !.flags.z = Low(value, len) = 0, !.flags.s = Sign(value, len)]

\* The bit just above the width.
set_carry(m, value, len) == [m EXCEPT !.flags.c = Bit(value, ByteBits * len)]

set_overflow(m, v0, v1, result, len) ==
    [m EXCEPT !.flags.v = /\ Sign(v0, len) = Sign(v1, len)
                          /\ Sign(v0, len) # Sign(result, len)]

ClearFlags(m) == [m EXCEPT !.flags = [z |-> FALSE, s |-> FALSE, c |-> FALSE, v |-> FALSE]]

\* Most integer instructions end so.
ZsWithoutOverflow(m, value, len) == [update_zs(m, value, len) EXCEPT !.flags.v = FALSE]

\* The fault goes on whatever the mask.
set_error_Unmasked(m, bit) == Ok([m EXCEPT !.trap_bit = bit], 0)

set_error(m, bit) ==
    LET recorded == [m EXCEPT !.trap_bit = bit]
    IN  IF Bit(m.trap_mask, bit) THEN Ok(recorded, 0) ELSE Fail(recorded, "Trapped")

\* A read out of bounds is an error the job may mask, and then gives no bytes.
read_source(m, o) ==
    LET r == read(m, o)
    IN  IF r.err # "IndexOutOfBounds" THEN r
        ELSE Bind(set_error(m, TRAP_BIT_UNMAPPED), LAMBDA m1, x : Ok(m1, BytesVal(<<>>)))

write_indexed_dest(m, o, value, len) ==
    LET r == write_indexed(m, o, value, len)
    IN  IF r.err # "IndexOutOfBounds" THEN r ELSE set_error(m, TRAP_BIT_UNMAPPED)

read_int(m, o, len) ==
    Bind(read_source(m, o), LAMBDA m1, value :
        CASE value.kind = "Int"   -> Ok(m1, value.v)
          [] value.kind = "Bytes" -> Ok(m1, LeValue(value.v, len))
          [] value.kind = "Float" -> Fail(m1, "InvalidOperand"))

read_bytes(m, o) ==
    Bind(read_source(m, o), LAMBDA m1, value :
        IF value.kind = "Bytes" THEN Ok(m1, value.v) ELSE Fail(m1, "InvalidOperand"))

read_value_data(m, o) ==
    Bind(read(m, o), LAMBDA m1, value :
        IF value.kind = "Int" THEN Ok(m1, value.v) ELSE Fail(m1, "InvalidOperand"))

fold_increment(m, o) ==
    IF o.kind # "Indexed" \/ o.len = None THEN Ok(m, o)
    ELSE Bind(resolve_index(m, o.index), LAMBDA m1, index :
            Bind(resolve_index(m, o.len), LAMBDA m2, increment :
                Ok(m, Indexed(o.base, Imm(index + increment), None))))

\* IdxRegImm has its increment where the other modes have a length: only the
\* mode tells, and the operand becomes one without a length.
fold_index_increments(m, op) ==
    Bind(IF op.mode0 = "IdxRegImm" THEN fold_increment(m, op.arg0) ELSE Ok(m, op.arg0),
         LAMBDA m1, arg0 :
    Bind(IF op.mode1 = "IdxRegImm" THEN fold_increment(m, op.arg1) ELSE Ok(m, op.arg1),
         LAMBDA m2, arg1 : Ok(m, [op EXCEPT !.arg0 = arg0, !.arg1 = arg1])))

Next_(m) == Ok(m, "Next")

\* arg_width: the handler runs if the target is an integer register.
arg_width(m, o, Then(_)) ==
    IF IsIntReg(o) THEN Then(Width[o.bank]) ELSE Fail(m, "InvalidOperand")

\* arith_arg0_len also takes one byte of an S register.
arith_arg0_len(m, o, Then(_)) ==
    IF o.kind = "Indexed" /\ o.len = None THEN Then(1) ELSE arg_width(m, o, Then)

ReadBoth(m, op, len, Then(_, _, _)) ==
    Bind(read_int(m, op.arg0, len), LAMBDA m1, v0 :
        Bind(read_int(m1, op.arg1, len), LAMBDA m2, v1 : Then(m2, v0, v1)))

\* Writes an integer and goes on with the machine.
Store(m, o, value, Then(_)) ==
    Bind(write(m, o, IntVal(value)), LAMBDA m1, x : Then(m1))

StoreOrIndexed(m, o, value, len, Then(_)) ==
    IF o.kind = "Indexed"
    THEN Bind(write_indexed_dest(m, o, IntVal(value), len), LAMBDA m1, x : Then(m1))
    ELSE Store(m, o, value, Then)

-----------------------------------------------------------------------------
(***************************************************************************)
(* Moves.                                                                  *)
(***************************************************************************)

move_S(m, op) ==
    Bind(read_bytes(m, op.arg1), LAMBDA m1, source :
    Bind(read_bytes(m1, op.arg0), LAMBDA m2, dest :
    Bind(write(m2, op.arg0, BytesVal(Stored(dest, 0, source))), LAMBDA m3, x :
        Next_(ClearFlags(m3)))))

move_Indexed(m, op) ==
    Bind(read_source(m, op.arg1), LAMBDA m1, value :
        IF value.kind = "Float" THEN Fail(m1, "InvalidOperand")
        ELSE Bind(write_indexed_dest(m1, op.arg0, value, 1), LAMBDA m2, x :
                Next_(IF value.kind = "Int" THEN update_zs(ClearFlags(m2), value.v, 1)
                      ELSE ClearFlags(m2))))

move_F(m, op) ==
    Bind(read_source(m, op.arg1), LAMBDA m1, value :
        IF value.kind # "Float" THEN Fail(m1, "InvalidOperand")
        ELSE Bind(write(m1, op.arg0, value), LAMBDA m2, x : Next_(ClearFlags(m2))))

move_Int(m, op) ==
    arg_width(m, op.arg0, LAMBDA len :
        Bind(read_int(m, op.arg1, len), LAMBDA m1, value :
            Store(m1, op.arg0, value, LAMBDA m2 : Next_(update_zs(ClearFlags(m2), value, len)))))

op_move(m, op) ==
    CASE IsReg(op.arg0, {"S"})    -> move_S(m, op)
      [] op.arg0.kind = "Indexed" -> move_Indexed(m, op)
      [] IsReg(op.arg0, {"F"})    -> move_F(m, op)
      [] OTHER                    -> move_Int(m, op)

op_swap(m, op) ==
    IF ~ (op.arg0.kind = "Indexed" /\ op.arg0.len # None)
    THEN Fail(m, "InvalidOperand")
    ELSE Bind(resolve_index(m, op.arg0.index), LAMBDA m1, start :
         Bind(resolve_index(m, op.arg0.len), LAMBDA m2, len :
         Bind(IF start + len > ARRAY_MAX_SIZE THEN set_error(m, TRAP_BIT_UNMAPPED)
              ELSE swap_s_slice(m, op.arg0.base, start, len), LAMBDA m3, x : Next_(m3))))

op_clear(m, op) ==
    IF op.arg0.kind # "Reg" THEN Fail(m, "InvalidOperand")
    ELSE Bind(write(m, op.arg0, CASE op.arg0.bank = "S" -> BytesVal(<<>>)
                                  [] op.arg0.bank = "F" -> FloatVal(<<0, 1>>)
                                  [] OTHER              -> IntVal(0)),
              LAMBDA m1, x : Next_([ClearFlags(m1) EXCEPT !.flags.z = TRUE]))

-----------------------------------------------------------------------------
(***************************************************************************)
(* Arithmetic and logic.                                                   *)
(***************************************************************************)

SumFlags(m, v0, v1, result, len) ==
    Next_(set_carry(set_overflow(update_zs(m, result, len), v0, v1, result, len), result, len))

op_comp(m, op) ==
    arith_arg0_len(m, op.arg0, LAMBDA len : ReadBoth(m, op, len, LAMBDA m1, v0, v1 :
        SumFlags(m1, v0, - v1, v0 - v1, len)))

op_subb(m, op) ==
    arg_width(m, op.arg0, LAMBDA len : ReadBoth(m, op, len, LAMBDA m1, v0, v1 :
        Store(m1, op.arg0, v0 - v1, LAMBDA m2 : SumFlags(m2, v0, - v1, v0 - v1, len))))

op_adds(m, op) ==
    arith_arg0_len(m, op.arg0, LAMBDA len : ReadBoth(m, op, len, LAMBDA m1, v0, v1 :
        StoreOrIndexed(m1, op.arg0, v0 + v1, 1, LAMBDA m2 :
            SumFlags(m2, v0, v1, v0 + v1, len))))

\* Where the high half of a product or a remainder goes, if anywhere.
StoreSecond(m, o, value, len) ==
    IF o.kind \in {"Reg", "Indexed"} THEN StoreOrIndexed(m, o, value, len, Next_) ELSE Next_(m)

op_mult(m, op) ==
    arg_width(m, op.arg0, LAMBDA len : ReadBoth(m, op, len, LAMBDA m1, v0, v1 :
        LET result == Low(Signed(v0, len) * Signed(v1, len), 4)
        IN  Store(m1, op.arg0, result, LAMBDA m2 :
                StoreSecond(ZsWithoutOverflow(m2, result, len), op.arg1,
                            result \div Pow(len), len))))

\* checked_div and checked_rem of two i32, rounding toward zero.
Quotient(a, b) ==
    LET magnitude == (IF a < 0 THEN - a ELSE a) \div (IF b < 0 THEN - b ELSE b)
    IN  IF (a < 0) = (b < 0) THEN magnitude ELSE - magnitude

op_divs(m, op) ==
    arg_width(m, op.arg0, LAMBDA len : ReadBoth(m, op, len, LAMBDA m1, v0, v1 :
        LET dividend == Signed(v0, 4)
            divisor  == Signed(v1, 4)
            quotient == Quotient(dividend, divisor)
        IN  IF divisor = 0 \/ (dividend = - (Pow(4) \div 2) /\ divisor = -1)
            THEN Fail(m1, "DivideByZero")
            ELSE Store(m1, op.arg0, quotient, LAMBDA m2 :
                    StoreSecond(ZsWithoutOverflow(m2, quotient, len), op.arg1,
                                dividend - divisor * quotient, len))))

Bitwise(v0, v1, len, F(_, _)) ==
    SumSet({2 ^ k : k \in {i \in 0 .. ByteBits * len - 1 : F(Bit(v0, i), Bit(v1, i))}})

op_bitwise(m, op, F(_, _)) ==
    arg_width(m, op.arg0, LAMBDA len : ReadBoth(m, op, len, LAMBDA m1, v0, v1 :
        LET value == Bitwise(v0, v1, len, F)
        IN  Store(m1, op.arg0, value, LAMBDA m2 : Next_(ZsWithoutOverflow(m2, value, len)))))

op_not(m, op) ==
    arg_width(m, op.arg0, LAMBDA len : Bind(read_int(m, op.arg0, len), LAMBDA m1, v :
        Store(m1, op.arg0, -1 - v, LAMBDA m2 : Next_(ZsWithoutOverflow(m2, -1 - v, len)))))

\* A shift: Carried and Shifted give the carry and the value of a positive
\* one; one of 0 clears the carry, and a negative one leaves both alone.
Shift(m, op, Carried(_, _, _), Shifted(_, _, _)) ==
    arg_width(m, op.arg0, LAMBDA len : ReadBoth(m, op, len, LAMBDA m1, v0, v1 :
        LET shift == Signed(v1, 4)
            value == IF shift <= 0 THEN v0 ELSE Shifted(v0, shift, len)
            m2    == CASE shift < 0 -> m1
                       [] shift = 0 -> [m1 EXCEPT !.flags.c = FALSE]
                       [] shift > 0 -> [m1 EXCEPT !.flags.c = Carried(v0, shift, len)]
        IN  Store(m2, op.arg0, value, LAMBDA m3 : Next_(ZsWithoutOverflow(m3, value, len)))))

Bits(len) == ByteBits * len

LeftCarry(v, shift, len) == shift <= Bits(len) /\ Bit(v, Bits(len) - shift)

op_shift_left(m, op) ==
    Shift(m, op, LeftCarry,
          LAMBDA v, shift, len : IF shift >= Bits(len) THEN 0
                                 ELSE (v % 2 ^ (Bits(len) - shift)) * 2 ^ shift)

op_lsr(m, op) ==
    Shift(m, op, LAMBDA v, shift, len : shift <= Bits(len) /\ Bit(v, shift - 1),
          LAMBDA v, shift, len : IF shift >= Bits(len) THEN 0 ELSE v \div 2 ^ shift)

op_asr(m, op) ==
    Shift(m, op, LAMBDA v, shift, len :
                    IF shift > Bits(len) THEN Sign(v, len) ELSE Bit(v, shift - 1),
          LAMBDA v, shift, len :
                    IF shift >= Bits(len) THEN (IF Sign(v, len) THEN -1 ELSE 0)
                    ELSE Signed(v, len) \div 2 ^ shift)

-----------------------------------------------------------------------------
(***************************************************************************)
(* The data stack, whose top is the end of the sequence.                   *)
(***************************************************************************)

\* The encoded width of an immediate is in its addressing mode.
value_data_len(m, mode, o, Then(_)) ==
    CASE IsIntReg(o)                          -> Then(Width[o.bank])
      [] o.kind = "Imm" /\ mode = "Imm8"      -> Then(1)
      [] o.kind = "Imm" /\ mode = "Imm16"     -> Then(2)
      [] o.kind = "Imm" /\ mode = "Imm32"     -> Then(4)
      [] OTHER                                -> Fail(m, "InvalidOperand")

op_push(m, op) ==
    value_data_len(m, op.mode0, op.arg0, LAMBDA len :
        Bind(read_int(m, op.arg0, len), LAMBDA m1, value :
            Next_([m1 EXCEPT !.stack = @ \o LeBytes(value, len)])))

op_pop(m, op) ==
    arg_width(m, op.arg0, LAMBDA len :
        LET left  == Len(m.stack) - len
            value == LeValue(SubSeq(m.stack, left + 1, Len(m.stack)), len)
        IN  IF left < 0 THEN Fail(m, "StackUnderflow")
            ELSE Store([m EXCEPT !.stack = SubSeq(@, 1, left)], op.arg0, value, LAMBDA m1 :
                    Next_(ZsWithoutOverflow(m1, value, len))))

\* len bytes from the one index below the top, the topmost as the highest.
Peek(stack, index, len) ==
    LeValue(SubSeq(stack, Len(stack) - index - len + 1, Len(stack) - index), len)

op_atsp(m, op) ==
    arg_width(m, op.arg0, LAMBDA len : Bind(read_value_data(m, op.arg1), LAMBDA m1, pos :
        IF pos < len \/ pos > Len(m.stack) THEN Fail(m, "AtspStack")
        ELSE LET value == Peek(m.stack, pos - len, len)
             IN  Store(m, op.arg0, value, LAMBDA m2 : Next_(update_zs(m2, value, len)))))

-----------------------------------------------------------------------------
(***************************************************************************)
(* Branches and the trap.                                                  *)
(***************************************************************************)

\* The program counter has been advanced past the instruction.
branch(m, op, taken) ==
    IF ~ taken THEN Next_(m)
    ELSE IF op.arg0.kind # "Imm" THEN Fail(m, "InvalidOperand")
    ELSE Ok([m EXCEPT !.pc = @ + Signed(op.arg0.v, 4)], "Jumped")

\* Signed "greater" from the sign alone.
Condition_NoOverflow(f) ==
    [jump |-> TRUE, jc |-> f.c, jae |-> ~ f.c, jz |-> f.z, jnz |-> ~ f.z, jv |-> f.v,
     jnv |-> ~ f.v, jmi |-> f.s, jpl |-> ~ f.s,
     jg |-> ~ f.s /\ ~ f.z, jge |-> f.z \/ ~ f.s, jl |-> ~ f.z /\ f.s, jle |-> f.s \/ f.z,
     ja |-> ~ f.c /\ ~ f.z, jbe |-> f.c \/ f.z]

Condition(f) ==
    [jump |-> TRUE, jc |-> f.c, jae |-> ~ f.c, jz |-> f.z, jnz |-> ~ f.z, jv |-> f.v,
     jnv |-> ~ f.v, jmi |-> f.s, jpl |-> ~ f.s,
     jg |-> f.s = f.v /\ ~ f.z, jge |-> f.z \/ f.s = f.v,
     jl |-> ~ f.z /\ f.s # f.v, jle |-> f.s # f.v \/ f.z,
     ja |-> ~ f.c /\ ~ f.z, jbe |-> f.c \/ f.z]

Branches ==
    {"jump", "jc", "jae", "jz", "jnz", "jv", "jnv", "jmi", "jpl",
     "jg", "jge", "jl", "jle", "ja", "jbe"}

\* The test bit one past the mask's bits, 32, stands for the unmapped errors.
trap_detected(m, op, Then(_)) ==
    Bind(IF op.arg1 = None THEN Ok(m, 0) ELSE read_value_data(m, op.arg1), LAMBDA m1, bit :
        Then(IF m.trap_bit = -1 THEN FALSE
             ELSE IF bit > 0 THEN m.trap_bit = bit \/ (m.trap_bit = 0 /\ bit = Bits(4))
             ELSE m.trap_bit >= 2 ^ (Bits(4) - 2)))

op_gettmr(m, op) ==
    arg_width(m, op.arg0, LAMBDA len : Store(m, op.arg0, m.trap_mask, LAMBDA m1 :
        Next_(update_zs(m1, m.trap_mask, len))))

op_settmr(m, op) ==
    Bind(read_value_data(m, op.arg0), LAMBDA m1, mask : Next_([m EXCEPT !.trap_mask = mask]))

-----------------------------------------------------------------------------

\* step, for the instructions of this module.
IntegerStep(m, op) ==
    CASE op.op = "move" -> op_move(m, op)
      [] op.op = "clear" -> op_clear(m, op)
      [] op.op = "swap" -> op_swap(m, op)
      [] op.op = "comp" -> op_comp(m, op)
      [] op.op = "subb" -> op_subb(m, op)
      [] op.op = "adds" -> op_adds(m, op)
      [] op.op = "mult" -> op_mult(m, op)
      [] op.op = "divs" -> op_divs(m, op)
      [] op.op = "and" -> op_bitwise(m, op, LAMBDA a, b : a /\ b)
      [] op.op = "or" -> op_bitwise(m, op, LAMBDA a, b : a \/ b)
      [] op.op = "xor" -> op_bitwise(m, op, LAMBDA a, b : a # b)
      [] op.op = "not" -> op_not(m, op)
      [] op.op \in Branches -> branch(m, op, Condition(m.flags)[op.op])
      [] op.op = "clrc" -> Next_([m EXCEPT !.flags.c = FALSE])
      [] op.op = "setc" -> Next_([m EXCEPT !.flags.c = TRUE])
      [] op.op = "asr" -> op_asr(m, op)
      [] op.op \in {"lsl", "asl"} -> op_shift_left(m, op)
      [] op.op = "lsr" -> op_lsr(m, op)
      [] op.op = "nop" -> Next_(m)
      [] op.op = "eoj" -> Ok(m, "EndOfJob")
      [] op.op = "push" -> op_push(m, op)
      [] op.op = "pop" -> op_pop(m, op)
      [] op.op = "atsp" -> op_atsp(m, op)
      [] op.op = "gettmr" -> op_gettmr(m, op)
      [] op.op = "settmr" -> op_settmr(m, op)
      [] op.op = "clrt" -> Next_([m EXCEPT !.trap_bit = -1])
      [] op.op = "jt" -> trap_detected(m, op, LAMBDA taken : branch(m, op, taken))
      [] op.op = "jnt" -> trap_detected(m, op, LAMBDA taken : branch(m, op, ~ taken))
      [] op.op = "break" -> Fail(m, "Break")
      [] op.op = "wait" -> Bind(read_value_data(m, op.arg0), LAMBDA m1, seconds : Ok(m, "Wait"))
      [] op.op = "xsend" -> Bind(read_bytes(m, op.arg1), LAMBDA m1, request : Ok(m1, "Exchange"))
      [] OTHER -> Fail(m, "Unimplemented")
=============================================================================
