------------------------------ MODULE BestData ------------------------------
(***************************************************************************)
(* exec.rs and result.rs of crates/best, the other instructions: buffers   *)
(* and strings, floats and conversions, results, arguments and tables.     *)
(* The record m also has what ExecCtx holds: results (the sets, the last   *)
(* one current), args, tables, and the cursor table and row, which count   *)
(* from 1 and are 0 where the code has None.  y42flt and y82flt, which     *)
(* read the bits of an IEEE number, are left out.                          *)
(***************************************************************************)
EXTENDS BestArith, BestText

NewContext(args, tables) ==
    [results |-> << <<>> >>, args |-> args, tables |-> tables, table |-> 0, row |-> 0]

read_float(m, o) ==
    Bind(read(m, o), LAMBDA m1, value :
        IF value.kind = "Float" THEN Ok(m1, value.v) ELSE Fail(m1, "InvalidOperand"))

\* The bytes up to the first NUL, as text.
read_string(m, o) == Bind(read_bytes(m, o), LAMBDA m1, bytes : Ok(m1, decode(Before(bytes, {0}))))

\* A text that is not empty gets its NUL, unless it ends in one.
write_string(m, o, text) ==
    LET bytes == encode(text)
    IN  Bind(write(m, o, BytesVal(IF bytes # <<>> /\ Last(bytes) # 0 THEN Append(bytes, 0) ELSE bytes)),
             LAMBDA m1, x : Next_(m1))

data_len(m, o, Then(_)) ==
    CASE IsIntReg(o) -> Then(Width[o.bank])
      [] IsReg(o, {"S"}) \/ o.kind = "Str" ->
            Bind(read(m, o), LAMBDA m1, value : Then(Len(value.v)))
      [] OTHER -> Fail(m, "InvalidOperand")

\* Stores a count and its flags.
StoreCount(m, o, value) ==
    arg_width(m, o, LAMBDA len : Store(m, o, value, LAMBDA m1 :
        Next_(ZsWithoutOverflow(m1, value, len))))

WriteBytes(m, o, bytes) == Bind(write(m, o, BytesVal(bytes)), LAMBDA m1, x : Next_(m1))

-----------------------------------------------------------------------------
(***************************************************************************)
(* Floats, numbers and text.                                               *)
(***************************************************************************)

Arith(op, a, b) ==
    CASE op = "fadd" -> <<a[1] * b[2] + b[1] * a[2], a[2] * b[2]>>
      [] op = "fsub" -> <<a[1] * b[2] - b[1] * a[2], a[2] * b[2]>>
      [] op = "fmul" -> <<a[1] * b[1], a[2] * b[2]>>
      [] op = "fdiv" -> IF b[1] < 0 THEN <<- a[1] * b[2], - a[2] * b[1]>>
                        ELSE <<a[1] * b[2], a[2] * b[1]>>

op_float_arith(m, op) ==
    Bind(read_float(m, op.arg0), LAMBDA m1, a : Bind(read_float(m, op.arg1), LAMBDA m2, b :
        LET result == Arith(op.op, a, b)
        IN  IF result[2] = 0 THEN Fail(m, "NonFinite")
            ELSE Bind(write(m, op.arg0, FloatVal(result)), LAMBDA m3, x : Next_(m3))))

op_fcomp(m, op) ==
    Bind(read_float(m, op.arg0), LAMBDA m1, a : Bind(read_float(m, op.arg1), LAMBDA m2, b :
        LET diff == Arith("fsub", a, b)
        IN  Next_([m EXCEPT !.flags.c = @ \/ diff[2] = 0, !.flags.z = diff[1] = 0,
                            !.flags.s = diff[1] < 0, !.flags.v = FALSE])))

op_a2flt(m, op) ==
    Bind(read_string(m, op.arg1), LAMBDA m1, text :
        IF Decimal(text).ok
        THEN Bind(write(m1, op.arg0, FloatVal(Decimal(text).v)), LAMBDA m2, x : Next_(m2))
        ELSE Fail(m1, "BadFloatString"))

I32Max == 2 ^ (Bits(4) - 2) - 1 + 2 ^ (Bits(4) - 2)

\* Below i32::MIN is i32::MIN; above i32::MAX is 0xFFFFFFFF, here -1.
Clamped(value) ==
    IF value < - I32Max - 1 THEN - I32Max - 1 ELSE IF value > I32Max THEN -1 ELSE value

op_a2fix(m, op) ==
    Bind(read_string(m, op.arg1), LAMBDA m1, text :
        Store(m1, op.arg0, Clamped(string_to_value(text)), LAMBDA m2 :
            Next_([m2 EXCEPT !.flags.z = FALSE, !.flags.s = FALSE, !.flags.v = FALSE])))

op_fix2flt(m, op) ==
    arg_width(m, op.arg1, LAMBDA len : Bind(read_int(m, op.arg1, len), LAMBDA m1, raw :
        Bind(write(m1, op.arg0, FloatVal(<<Signed(raw, len), 1>>)), LAMBDA m2, x : Next_(m2))))

op_flt2fix(m, op) ==
    Bind(read_float(m, op.arg1), LAMBDA m1, value :
        IF value[2] = 0 THEN Fail(m, "NonFinite")
        ELSE LET result == Quotient(value[1], value[2])
             IN  Store(m, op.arg0, result, LAMBDA m2 : Next_(ZsWithoutOverflow(m2, result, 4))))

op_flt2a(m, op) ==
    Bind(read_float(m, op.arg1), LAMBDA m1, value :
        IF value[2] = 0 THEN Fail(m, "NonFinite") ELSE write_string(m, op.arg0, FormattedFloat(value)))

op_a2y(m, op) ==
    Bind(read_string(m, op.arg1), LAMBDA m1, text : WriteBytes(m1, op.arg0, a2y(text)))

op_hex2y(m, op) ==
    Bind(read_string(m, op.arg1), LAMBDA m1, text :
        LET r == hex_to_bytes(text)
        IN  Bind(write(m1, op.arg0, BytesVal(IF r.ok THEN r.v ELSE <<>>)), LAMBDA m2, x :
                Next_([m2 EXCEPT !.flags.c = ~ r.ok])))

op_y2bcd(m, op) ==
    Bind(read_bytes(m, op.arg1), LAMBDA m1, b : write_string(m1, op.arg0, Nibbles(b, bcd_nibble)))

op_y2hex(m, op) ==
    Bind(read_bytes(m, op.arg1), LAMBDA m1, b : write_string(m1, op.arg0, Nibbles(b, hex_digit)))

\* The text of an integer of len bytes, as fix2dez without the sign gives it.
FixText_Unsigned(op, raw, len) ==
    IF op = "fix2dez" THEN FormattedInt(raw)
    ELSE <<Digit0, 120>> \o Formatted(raw, 16, 2 * len)

FixText(op, raw, len) ==
    IF op = "fix2dez" THEN FormattedInt(Signed(raw, len))
    ELSE <<Digit0, 120>> \o Formatted(raw, 16, 2 * len)

op_fix2(m, op) ==
    LET Text(len) == Bind(read_int(m, op.arg1, len), LAMBDA m1, raw :
                        write_string(m1, op.arg0, FixText(op.op, raw, len)))
    IN  CASE IsIntReg(op.arg1)     -> Text(Width[op.arg1.bank])
          [] op.arg1.kind = "Imm"  -> value_data_len(m, op.mode1, op.arg1, Text)
          [] OTHER                 -> Text(1)

-----------------------------------------------------------------------------
(***************************************************************************)
(* Buffers and strings.                                                    *)
(***************************************************************************)

op_scmp(m, op) ==
    Bind(read_bytes(m, op.arg0), LAMBDA m1, a : Bind(read_bytes(m1, op.arg1), LAMBDA m2, b :
        Next_([m2 EXCEPT !.flags.z = (a = b)])))

op_scat(m, op) ==
    Bind(read_bytes(m, op.arg0), LAMBDA m1, a : Bind(read_bytes(m1, op.arg1), LAMBDA m2, b :
        WriteBytes(m2, op.arg0, a \o b)))

op_scut(m, op) ==
    Bind(read_bytes(m, op.arg0), LAMBDA m1, data :
        Bind(read_value_data(m1, op.arg1), LAMBDA m2, len :
            WriteBytes(m2, op.arg0, SubSeq(data, 1, Len(data) - len))))

op_slen(m, op) == data_len(m, op.arg1, LAMBDA value : StoreCount(m, op.arg0, value))

\* The base register and the start of an indexed operand without a length.
indexed_base_and_start(m, o, Then(_, _)) ==
    IF o.kind = "Indexed" /\ o.len = None
    THEN Bind(IF o.index.kind = "Imm" THEN Ok(m, o.index.v) ELSE read_value_data(m, o.index),
              LAMBDA m1, start : Then(o.base, start))
    ELSE Fail(m, "InvalidOperand")

op_spaste(m, op) ==
    indexed_base_and_start(m, op.arg0, LAMBDA base, start :
        Bind(read_bytes(m, base), LAMBDA m1, dest :
            Bind(read_bytes(m1, op.arg1), LAMBDA m2, source :
                IF start < Len(dest)
                THEN WriteBytes(m2, base, SubSeq(dest, 1, start) \o source \o Drop(dest, start))
                ELSE Next_(m2))))

\* What is before the start, and what is from start + len on.
Erased(data, start, len) == SubSeq(data, 1, Min({start, Len(data)})) \o Drop(data, start + len)

op_serase(m, op) ==
    indexed_base_and_start(m, op.arg0, LAMBDA base, start :
        Bind(read_bytes(m, base), LAMBDA m1, data :
            Bind(read_value_data(m1, op.arg1), LAMBDA m2, len :
                WriteBytes(m2, base, Erased(data, start, len)))))

op_strcat(m, op) ==
    Bind(read_string(m, op.arg0), LAMBDA m1, s : Bind(read_string(m1, op.arg1), LAMBDA m2, t :
        write_string(m2, op.arg0, s \o t)))

\* Zero on inequality, the inverse of scmp.
op_strcmp(m, op) ==
    Bind(read_string(m, op.arg0), LAMBDA m1, a : Bind(read_string(m1, op.arg1), LAMBDA m2, b :
        Next_([m2 EXCEPT !.flags.z = (a # b)])))

op_strlen(m, op) ==
    arg_width(m, op.arg0, LAMBDA len : Bind(read_string(m, op.arg1), LAMBDA m1, text :
        StoreCount(m1, op.arg0, Len(text))))

-----------------------------------------------------------------------------
(***************************************************************************)
(* Results.                                                                *)
(***************************************************************************)

push_named(m, name, kind, value) ==
    LET current == Len(m.results)
    IN  [m EXCEPT !.results[current] = Append(@, [name |-> name, kind |-> kind, v |-> value])]

\* The type, the width and the signedness of an integer result are its opcode's.
ErgInt ==
    [ergb |-> <<"Byte", 1, FALSE>>, ergw |-> <<"Word", 2, FALSE>>, ergd |-> <<"Dword", 4, FALSE>>,
     ergc |-> <<"Int", 1, TRUE>>, ergi |-> <<"Int", 2, TRUE>>, ergl |-> <<"Int", 4, TRUE>>]

op_ergX(m, op) ==
    LET kind == ErgInt[op.op][1]
        len  == ErgInt[op.op][2]
    IN  Bind(read_string(m, op.arg0), LAMBDA m1, name :
            Bind(read_int(m1, op.arg1, len), LAMBDA m2, v :
                Next_(push_named(m2, name, kind,
                        IF ErgInt[op.op][3] THEN Signed(v, len) ELSE Low(v, len)))))

op_ergr(m, op) ==
    Bind(read_string(m, op.arg0), LAMBDA m1, name : Bind(read_float(m1, op.arg1), LAMBDA m2, v :
        Next_(push_named(m2, name, "Real", v))))

op_ergs(m, op) ==
    Bind(read_string(m, op.arg0), LAMBDA m1, name : Bind(read_string(m1, op.arg1), LAMBDA m2, v :
        Next_(push_named(m2, name, "Text", v))))

op_ergy(m, op) ==
    Bind(read_string(m, op.arg0), LAMBDA m1, name : Bind(read_bytes(m1, op.arg1), LAMBDA m2, v :
        Next_(push_named(m2, name, "Binary", v))))

\* Only a set that holds something is committed.
op_enewset(m) ==
    Next_(IF Last(m.results) = <<>> THEN m ELSE [m EXCEPT !.results = Append(@, <<>>)])

-----------------------------------------------------------------------------
(***************************************************************************)
(* Arguments.                                                              *)
(***************************************************************************)

arg_strings(args) == IF args = <<>> THEN <<>> ELSE Split(args, {59})

\* Field pos of the arguments, counted from 1; an absent one is empty.
Field(m, pos) == IF pos \in DOMAIN arg_strings(m.args) THEN arg_strings(m.args)[pos] ELSE <<>>

op_parl(m, op) ==
    Bind(read_value_data(m, op.arg1), LAMBDA m1, pos :
        Store(m, op.arg0, string_to_value(Field(m, pos)), LAMBDA m2 :
            Next_([ClearFlags(m2) EXCEPT !.flags.z = Field(m, pos) = <<>>])))

op_parr(m, op) ==
    Bind(read_value_data(m, op.arg1), LAMBDA m1, pos :
        LET number == Decimal(Field(m, pos))
        IN  Bind(write(m, op.arg0, FloatVal(IF number.ok THEN number.v ELSE <<0, 1>>)), LAMBDA m2, x :
                Next_([ClearFlags(m2) EXCEPT !.flags.z = Field(m, pos) = <<>>])))

op_pars(m, op) ==
    Bind(read_value_data(m, op.arg1), LAMBDA m1, pos :
        Bind(write_string(m, op.arg0, Field(m, pos)), LAMBDA m2, x :
            Next_([m2 EXCEPT !.flags.z = Field(m, pos) = <<>>])))

op_pary(m, op) ==
    Bind(write(m, op.arg0, BytesVal(m.args)), LAMBDA m1, x :
        Next_([m1 EXCEPT !.flags.z = m.args = <<>>]))

op_parn(m, op) == StoreCount(m, op.arg0, Len(arg_strings(m.args)))

-----------------------------------------------------------------------------
(***************************************************************************)
(* Tables.                                                                 *)
(***************************************************************************)

\* The first element Matches holds of, or 0.
Position(seq, Matches(_)) ==
    LET at == {i \in DOMAIN seq : Matches(seq[i])} IN IF at = {} THEN 0 ELSE Min(at)

table_index(m, name) == Position(m.tables, LAMBDA t : SameText(t.name, name))

selected_table(m, Then(_)) ==
    IF m.table = 0 THEN Fail(m, "TableNotSelected") ELSE Then(m.tables[m.table])

column_index(m, table, name, Then(_)) ==
    LET col == Position(table.columns, LAMBDA c : SameText(c, name))
    IN  IF col = 0 THEN Fail(m, "TableColumn") ELSE Then(col)

\* Selecting a table that leaves the cursor's row alone.
Select_KeepingRow(m, idx) == [m EXCEPT !.table = idx]

\* The row stays only when the same table is selected again.
Select(m, idx) == [m EXCEPT !.table = idx, !.row = IF m.table = idx THEN @ ELSE 0]

op_tabset(m, op) ==
    Bind(read_string(m, op.arg0), LAMBDA m1, name :
        IF table_index(m, name) = 0 THEN Fail(m1, "TableNotFound")
        ELSE Next_(Select(m1, table_index(m, name))))

\* A miss goes to the last row and sets Zero.
seek_result(m, rows, hit) ==
    IF hit = 0 /\ rows = 0 THEN Fail(m, "TableRow")
    ELSE Next_([m EXCEPT !.row = IF hit = 0 THEN rows ELSE hit, !.flags.z = hit = 0])

Seek(m, op, table, column, Matches(_)) ==
    column_index(m, table, column, LAMBDA col :
        seek_result(m, Len(table.rows),
            Position(table.rows, LAMBDA r : col \in DOMAIN r /\ Matches(r[col]))))

op_tabseek(m, op) ==
    selected_table(m, LAMBDA table :
        Bind(read_string(m, op.arg0), LAMBDA m1, column :
            Bind(read_string(m1, op.arg1), LAMBDA m2, key :
                Seek(m2, op, table, column, LAMBDA cell : SameText(cell, key)))))

op_tabseeku(m, op) ==
    selected_table(m, LAMBDA table :
        Bind(read_string(m, op.arg0), LAMBDA m1, column :
            Bind(read_value_data(m1, op.arg1), LAMBDA m2, key :
                Seek(m2, op, table, column, LAMBDA cell : Low(string_to_value(cell), 4) = key))))

op_tabget(m, op) ==
    selected_table(m, LAMBDA table :
        Bind(read_string(m, op.arg1), LAMBDA m1, column :
            column_index(m1, table, column, LAMBDA col :
                IF m.row = 0 THEN write_string(m1, op.arg0, <<>>)
                ELSE IF m.row \in DOMAIN table.rows /\ col \in DOMAIN table.rows[m.row]
                THEN write_string(m1, op.arg0, table.rows[m.row][col])
                ELSE Fail(m1, "TableRow"))))

\* A line past the end is the last one, and sets Zero; lines count from 0.
op_tabline(m, op) ==
    selected_table(m, LAMBDA table :
        LET rows == Len(table.rows)
        IN  Bind(read_value_data(m, op.arg0), LAMBDA m1, line :
                IF rows = 0 THEN Fail(m1, "TableRow")
                ELSE Next_([m1 EXCEPT !.row = IF line >= rows THEN rows ELSE line + 1,
                                      !.flags.z = line >= rows])))

op_tabcols(m, op) ==
    Store(m, op.arg0, IF m.table = 0 THEN 0 ELSE Len(m.tables[m.table].columns), Next_)

\* The header counts as a row.
op_tabrows(m, op) ==
    Store(m, op.arg0, IF m.table = 0 THEN 0 ELSE Len(m.tables[m.table].rows) + 1, Next_)

-----------------------------------------------------------------------------

DataOps ==
    {"fadd", "fsub", "fmul", "fdiv", "fcomp", "a2flt", "a2fix", "fix2flt", "flt2fix", "flt2a",
     "a2y", "hex2y", "y2bcd", "y2hex", "fix2hex", "fix2dez", "scmp", "scat", "scut", "slen",
     "spaste", "serase", "strcat", "strcmp", "strlen", "ergb", "ergw", "ergd", "ergc", "ergi",
     "ergl", "ergr", "ergs", "ergy", "enewset", "etag", "parb", "parw", "parl", "parr", "pars",
     "pary", "parn", "tabset", "tabseek", "tabseeku", "tabget", "tabline", "tabcols", "tabrows"}

\* step, for the instructions of this module.
DataStep(m, op) ==
    CASE op.op \in {"fadd", "fsub", "fmul", "fdiv"} -> op_float_arith(m, op)
      [] op.op = "fcomp" -> op_fcomp(m, op)
      [] op.op = "a2flt" -> op_a2flt(m, op)
      [] op.op = "a2fix" -> op_a2fix(m, op)
      [] op.op = "fix2flt" -> op_fix2flt(m, op)
      [] op.op = "flt2fix" -> op_flt2fix(m, op)
      [] op.op = "flt2a" -> op_flt2a(m, op)
      [] op.op = "a2y" -> op_a2y(m, op)
      [] op.op = "hex2y" -> op_hex2y(m, op)
      [] op.op = "y2bcd" -> op_y2bcd(m, op)
      [] op.op = "y2hex" -> op_y2hex(m, op)
      [] op.op \in {"fix2hex", "fix2dez"} -> op_fix2(m, op)
      [] op.op = "scmp" -> op_scmp(m, op)
      [] op.op = "scat" -> op_scat(m, op)
      [] op.op = "scut" -> op_scut(m, op)
      [] op.op = "slen" -> op_slen(m, op)
      [] op.op = "spaste" -> op_spaste(m, op)
      [] op.op = "serase" -> op_serase(m, op)
      [] op.op = "strcat" -> op_strcat(m, op)
      [] op.op = "strcmp" -> op_strcmp(m, op)
      [] op.op = "strlen" -> op_strlen(m, op)
      [] op.op \in DOMAIN ErgInt -> op_ergX(m, op)
      [] op.op = "ergr" -> op_ergr(m, op)
      [] op.op = "ergs" -> op_ergs(m, op)
      [] op.op = "ergy" -> op_ergy(m, op)
      [] op.op = "enewset" -> op_enewset(m)
      [] op.op = "etag" -> Next_(m)
      [] op.op \in {"parb", "parw", "parl"} -> op_parl(m, op)
      [] op.op = "parr" -> op_parr(m, op)
      [] op.op = "pars" -> op_pars(m, op)
      [] op.op = "pary" -> op_pary(m, op)
      [] op.op = "parn" -> op_parn(m, op)
      [] op.op = "tabset" -> op_tabset(m, op)
      [] op.op = "tabseek" -> op_tabseek(m, op)
      [] op.op = "tabseeku" -> op_tabseeku(m, op)
      [] op.op = "tabget" -> op_tabget(m, op)
      [] op.op = "tabline" -> op_tabline(m, op)
      [] op.op = "tabcols" -> op_tabcols(m, op)
      [] op.op = "tabrows" -> op_tabrows(m, op)
=============================================================================
