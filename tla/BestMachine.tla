---------------------------- MODULE BestMachine ----------------------------
(***************************************************************************)
(* machine.rs of crates/best: the register banks of the BEST/2 machine and *)
(* the access to an operand.  The B, I and L banks are little-endian views *)
(* of one file of bytes.                                                   *)
(*                                                                         *)
(* A byte has ByteBits bits, 8 in the code: a B, I or L register and the   *)
(* u32 of the code have 1, 2, 4 and 4 bytes of that width, so a small byte *)
(* keeps every relation between the widths.  Floats are fractions          *)
(* <<numerator, denominator>>: the rounding of f64 is left out, and a      *)
(* denominator of 0 stands for what is not finite.                         *)
(*                                                                         *)
(* An access returns [m, v, err]: the machine, the value, and an error,    *)
(* which is "" if there is none; Bind is the code's `?`.                   *)
(***************************************************************************)
EXTENDS Integers, Sequences, FiniteSetsExt

CONSTANTS
    ByteBits,          \* 8
    FileBytes,         \* bytes of the register file: 32
    SCount,            \* S registers: 16
    FCount,            \* F registers: 8
    ARRAY_MAX_SIZE     \* the reach of an indexed access: 1023

ASSUME WidthAssumption == {ByteBits, FileBytes, SCount, FCount, ARRAY_MAX_SIZE} \subseteq Nat \ {0}

Radix == 2 ^ ByteBits
Width == [B |-> 1, I |-> 2, L |-> 4]

\* The low len bytes of v, a bit of v, and the sign bit at that width.
Pow(len) == 2 ^ (ByteBits * len)
Low(v, len) == v % Pow(len)
Bit(v, k) == (v \div 2 ^ k) % 2 = 1
Sign(v, len) == Bit(v, ByteBits * len - 1)
Signed(v, len) == IF Sign(v, len) THEN Low(v, len) - Pow(len) ELSE Low(v, len)

LeBytes(v, len) == [i \in 1 .. len |-> (v \div Pow(i - 1)) % Radix]

\* The first len bytes, little-endian; missing ones count as zero.
LeValue(bytes, len) ==
    LET value[i \in 0 .. len] ==
            IF i = len THEN 0
            ELSE (IF i < Len(bytes) THEN bytes[i + 1] ELSE 0) + Radix * value[i + 1]
    IN  value[0]

Ok(m, v) == [m |-> m, v |-> v, err |-> ""]
Fail(m, error) == [m |-> m, v |-> 0, err |-> error]
Bind(r, Then(_, _)) == IF r.err = "" THEN Then(r.m, r.v) ELSE r

IntVal(v) == [kind |-> "Int", v |-> v]
BytesVal(v) == [kind |-> "Bytes", v |-> v]
FloatVal(v) == [kind |-> "Float", v |-> v]

\* Operands.  An index or a length is an immediate or a register.
None == [kind |-> "None"]
Imm(v) == [kind |-> "Imm", v |-> v]
Str(bytes) == [kind |-> "Str", bytes |-> bytes]
Reg(bank, idx) == [kind |-> "Reg", bank |-> bank, idx |-> idx]
Indexed(base, index, len) == [kind |-> "Indexed", base |-> base, index |-> index, len |-> len]

IsReg(o, banks) == o.kind = "Reg" /\ o.bank \in banks
IsIntReg(o) == IsReg(o, {"B", "I", "L"})

\* The bytes of the file that an integer register is a view of.
ViewOf(o) == (o.idx * Width[o.bank]) .. ((o.idx + 1) * Width[o.bank] - 1)

NewMachine ==
    [regs  |-> [i \in 0 .. FileBytes - 1 |-> 0],
     s     |-> [i \in 0 .. SCount - 1 |-> <<>>],
     f     |-> [i \in 0 .. FCount - 1 |-> <<0, 1>>],
     flags |-> [z |-> FALSE, s |-> FALSE, c |-> FALSE, v |-> FALSE],
     stack |-> <<>>,
     pc    |-> 0,
     trap_bit  |-> -1,
     trap_mask |-> 0]

read_reg(m, o) ==
    CASE o.bank = "S" ->
            IF o.idx < SCount THEN Ok(m, BytesVal(m.s[o.idx])) ELSE Fail(m, "OutOfRange")
      [] o.bank = "F" ->
            IF o.idx < FCount THEN Ok(m, FloatVal(m.f[o.idx])) ELSE Fail(m, "OutOfRange")
      [] OTHER ->
            LET len == Width[o.bank]
            IN  IF ViewOf(o) \subseteq DOMAIN m.regs
                THEN Ok(m, IntVal(LeValue([i \in 1 .. len |-> m.regs[o.idx * len + i - 1]], len)))
                ELSE Fail(m, "OutOfRange")

write_reg(m, o, value) ==
    CASE o.bank = "S" /\ value.kind = "Bytes" ->
            IF o.idx < SCount THEN Ok([m EXCEPT !.s[o.idx] = value.v], 0)
            ELSE Fail(m, "OutOfRange")
      [] o.bank = "F" /\ value.kind = "Float" ->
            IF o.idx < FCount THEN Ok([m EXCEPT !.f[o.idx] = value.v], 0)
            ELSE Fail(m, "OutOfRange")
      [] o.bank \in DOMAIN Width /\ value.kind = "Int" ->
            LET low == o.idx * Width[o.bank]
                le  == LeBytes(value.v, Width[o.bank])
            IN  IF ViewOf(o) \subseteq DOMAIN m.regs
                THEN Ok([m EXCEPT !.regs = [i \in DOMAIN @ |->
                            IF i \in ViewOf(o) THEN le[i - low + 1] ELSE @[i]]], 0)
                ELSE Fail(m, "OutOfRange")
      [] OTHER -> Fail(m, "Unsupported")

resolve_index(m, arg) ==
    IF arg.kind = "Imm" THEN Ok(m, arg.v)
    ELSE Bind(read_reg(m, arg), LAMBDA m1, value :
            IF value.kind = "Int" THEN Ok(m1, value.v) ELSE Fail(m1, "Unsupported"))

\* Exactly len bytes of data from idx, zeros where it has none.
Slice(data, idx, len) ==
    [i \in 1 .. len |-> IF idx + i <= Len(data) THEN data[idx + i] ELSE 0]

read_indexed(m, o) ==
    IF o.base.bank # "S" THEN Fail(m, "Unsupported")
    ELSE IF o.base.idx >= SCount THEN Fail(m, "OutOfRange")
    ELSE Bind(resolve_index(m, o.index), LAMBDA m1, idx :
        LET data == m.s[o.base.idx] IN
        IF o.len = None
        THEN IF idx + 1 > ARRAY_MAX_SIZE THEN Fail(m, "IndexOutOfBounds")
             ELSE Ok(m, BytesVal(SubSeq(data, idx + 1, Len(data))))
        ELSE Bind(resolve_index(m, o.len), LAMBDA m2, len :
                IF idx + len > ARRAY_MAX_SIZE THEN Fail(m, "IndexOutOfBounds")
                ELSE Ok(m, BytesVal(Slice(data, idx, len)))))

read(m, o) ==
    CASE o.kind = "Imm"     -> Ok(m, IntVal(o.v))
      [] o.kind = "Str"     -> Ok(m, BytesVal(o.bytes))
      [] o.kind = "Reg"     -> read_reg(m, o)
      [] o.kind = "Indexed" -> read_indexed(m, o)
      [] o.kind = "None"    -> Fail(m, "Unsupported")

\* data with bytes stored from idx: it grows, and never shrinks.
Stored(data, idx, bytes) ==
    [i \in 1 .. Max({Len(data), idx + Len(bytes)}) |->
        IF i \in idx + 1 .. idx + Len(bytes) THEN bytes[i - idx]
        ELSE IF i <= Len(data) THEN data[i] ELSE 0]

\* An integer stores len of its bytes, a buffer all of its own.
write_indexed(m, o, value, len) ==
    IF o.kind # "Indexed" \/ o.base.bank # "S" \/ value.kind = "Float"
    THEN Fail(m, "Unsupported")
    ELSE LET bytes == IF value.kind = "Int" THEN LeBytes(value.v, len) ELSE value.v IN
         Bind(resolve_index(m, o.index), LAMBDA m1, idx :
            IF idx + Len(bytes) > ARRAY_MAX_SIZE THEN Fail(m, "IndexOutOfBounds")
            ELSE IF o.base.idx >= SCount THEN Fail(m, "OutOfRange")
            ELSE Ok([m EXCEPT !.s[o.base.idx] = Stored(@, idx, bytes)], 0))

write(m, o, value) ==
    CASE o.kind = "Reg"     -> write_reg(m, o, value)
      [] o.kind = "Indexed" -> write_indexed(m, o, value, 1)
      [] OTHER              -> Fail(m, "Unsupported")

\* Reverses a slice; what it pulls in from beyond the used bytes is zero, and
\* the used length stays.
swap_s_slice(m, base, start, len) ==
    IF base.bank # "S" THEN Fail(m, "Unsupported")
    ELSE IF base.idx >= SCount THEN Fail(m, "OutOfRange")
    ELSE LET data == m.s[base.idx]
             wide == Slice(data, 0, Max({Len(data), start + len}))
         IN  Ok([m EXCEPT !.s[base.idx] = [i \in 1 .. Len(data) |->
                    IF i \in start + 1 .. start + len THEN wide[2 * start + len + 1 - i]
                    ELSE data[i]]], 0)
=============================================================================
