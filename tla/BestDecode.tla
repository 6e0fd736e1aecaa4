----------------------------- MODULE BestDecode -----------------------------
(***************************************************************************)
(* decode.rs and opcode.rs of crates/best, on the jobs of a file that      *)
(* SgbdFile reads: a file is opened, a job is taken from it and decoded    *)
(* instruction by instruction.  The operands are the ones the machine      *)
(* (BestMachine) executes.                                                 *)
(***************************************************************************)
EXTENDS SgbdFile, BestMachine

CONSTANTS
    Contents,     \* what was put into a file: [tables, jobs, order, plain]
    Cuts          \* by how many bytes a file may be cut short

VARIABLES
    content,      \* history: what was put into the file
    cut,          \* history: how many bytes are missing
    prg,          \* the opened file
    job,          \* the name of the job being decoded
    code,         \* its bytes
    pos,          \* the reader's position in them
    ops,          \* the instructions decoded so far
    seen_eoj,
    state         \* closed, open, failed, decoding, decoded, DecodeError

vars == <<content, cut, prg, job, code, pos, ops, seen_eoj, state>>

-----------------------------------------------------------------------------
(***************************************************************************)
(* opcode.rs: the class of an opcode, by its byte.                         *)
(***************************************************************************)
OPCODES ==
    [Arith    |-> 0 .. 10,
     Control  |-> 11 .. 21,
     Flag     |-> 22 .. 27,
     Stack    |-> {30, 31, 111},
     StringOp |-> 32 .. 37,
     Comm     |-> 38 .. 51,
     Result   |-> 52 .. 57 \cup 63 .. 65,
     Float    |-> 58 .. 62,
     Table    |-> {80, 131, 154, 170, 182, 183} \cup 123 .. 125,
     Param    |-> 85 .. 88 \cup {105, 127, 128},
     ByteConv |-> {140, 142, 145, 146},
     Unimplemented |-> {112, 120, 141, 160} \cup 132 .. 134 \cup 175 .. 180]

\* Whatever is in no other class is "Misc"; above 183 there is no opcode.
info(byte) ==
    IF byte > 183 THEN "none"
    ELSE IF \E c \in DOMAIN OPCODES : byte \in OPCODES[c]
         THEN CHOOSE c \in DOMAIN OPCODES : byte \in OPCODES[c]
         ELSE "Misc"

EOJ == 29

-----------------------------------------------------------------------------
(***************************************************************************)
(* decode.rs.  A read returns [v, at, err]: the value, the position after  *)
(* it, and an error or "".                                                 *)
(***************************************************************************)
Read(v, at) == [v |-> v, at |-> at, err |-> ""]
Then(r, Next(_, _)) == IF r.err = "" THEN Next(r.v, r.at) ELSE r
Bad(error) == [v |-> 0, at |-> 0, err |-> error]

read_bytes(at, n) ==
    IF at + n > Len(code) THEN Bad("Truncated") ELSE Read(SubSeq(code, at + 1, at + n), at + n)

\* read_u8, read_u16_le, read_u32_le
read_uint(at, n) == Then(read_bytes(at, n), LAMBDA b, next : Read(LeValue(b, n), next))

register(selector) ==
    CASE selector \in 0 .. 15    -> <<"B", selector>>
      [] selector \in 16 .. 23   -> <<"I", selector - 16>>
      [] selector \in 24 .. 27   -> <<"L", selector - 24>>
      [] selector \in 28 .. 35   -> <<"S", selector - 28>>
      [] selector \in 36 .. 43   -> <<"F", selector - 36>>
      [] selector \in 44 .. 51   -> <<"S", selector - 44 + 8>>
      [] selector \in 128 .. 143 -> <<"B", selector - 128 + 16>>
      [] selector \in 144 .. 151 -> <<"I", selector - 144 + 8>>
      [] selector \in 152 .. 155 -> <<"L", selector - 152 + 4>>
      [] OTHER -> <<"BadRegister", selector>>

read_register(at) ==
    Then(read_uint(at, 1), LAMBDA selector, next :
        LET r == register(selector)
        IN  IF r[1] = "BadRegister" THEN Bad("BadRegister") ELSE Read(Reg(r[1], r[2]), next))

read_imm(at, n) == Then(read_uint(at, n), LAMBDA v, next : Read(Imm(v), next))

read_str(at) ==
    Then(read_uint(at, 2), LAMBDA len, start :
        Then(read_bytes(start, len), LAMBDA bytes, next : Read(Str(bytes), next)))

\* What the indexed modes 9 to 15 read after the base: the index, the length.
IndexParts == <<<<"imm">>, <<"reg">>, <<"reg", "imm">>, <<"imm", "imm">>,
                <<"imm", "reg">>, <<"reg", "imm">>, <<"reg", "reg">>>>

\* An index of one byte.
read_part_Byte(part, at) == IF part = "reg" THEN read_register(at) ELSE read_imm(at, 1)

read_part(part, at) == IF part = "reg" THEN read_register(at) ELSE read_imm(at, 2)

read_indexed_operand(at, parts) ==
    Then(read_register(at), LAMBDA base, a1 :
        Then(read_part(parts[1], a1), LAMBDA index, a2 :
            IF Len(parts) = 1 THEN Read(Indexed(base, index, None), a2)
            ELSE Then(read_part(parts[2], a2), LAMBDA len, a3 :
                        Read(Indexed(base, index, len), a3))))

read_operand(at, mode) ==
    CASE mode = 0       -> Read(None, at)
      [] mode \in 1 .. 4 -> read_register(at)
      [] mode = 5       -> read_imm(at, 1)
      [] mode = 6       -> read_imm(at, 2)
      [] mode = 7       -> read_imm(at, 4)
      [] mode = 8       -> read_str(at)
      [] OTHER          -> read_indexed_operand(at, IndexParts[mode - 8])

\* The opcode is judged before its mode byte is required.
decode_one(at) ==
    Then(read_uint(at, 1), LAMBDA byte, a1 :
        CASE info(byte) = "none" -> Bad("UnknownOpcode")
          [] info(byte) = "Unimplemented" -> Bad("Unimplemented")
          [] OTHER ->
              Then(read_uint(a1, 1), LAMBDA mode, a2 :
                  Then(read_operand(a2, mode \div 16), LAMBDA arg0, a3 :
                      Then(read_operand(a3, mode % 16), LAMBDA arg1, a4 :
                          Read([byte |-> byte, mode_byte |-> mode, arg0 |-> arg0, arg1 |-> arg1,
                                offset |-> at, len |-> a4 - at], a4)))))

-----------------------------------------------------------------------------
(***************************************************************************)
(* What the SGBD compiler writes, the inverse of SgbdFile: the header, the *)
(* two directories, the jobs in the order of their addresses, the cells.   *)
(* `plain` is whether the counts are left plain.                           *)
(***************************************************************************)
Word(v) == LeBytes(v, 4)
Field(text) == Cp1252!encode(text) \o [i \in 1 .. NAME_FIELD_LEN - Len(text) |-> 0]
CellBytes(table) ==
    LET grid == <<table.columns>> \o table.rows
    IN  FlattenSeq([r \in DOMAIN grid |->
            FlattenSeq([c \in DOMAIN grid[r] |-> Append(Cp1252!encode(grid[r][c]), 0)])])

Written(given) ==
    LET cells == [i \in DOMAIN given.tables |-> CellBytes(given.tables[i])]
        codes == [i \in DOMAIN given.order |-> given.jobs[given.order[i]].code]
        Before(parts, i) == Len(FlattenSeq(SubSeq(parts, 1, i - 1)))
        jobDir == DATA_OFFSET + 4 + Len(given.tables) * TABLE_ENTRY_SIZE
        codeAt == jobDir + 4 + Len(given.jobs) * JOB_ENTRY_SIZE
        cellAt == codeAt + Len(FlattenSeq(codes))
        StartOf(j) == codeAt + Before(codes, CHOOSE i \in DOMAIN given.order : given.order[i] = j)
        tables == FlattenSeq([i \in DOMAIN given.tables |->
            LET t == given.tables[i]
            IN  Field(t.name) \o Word(cellAt + Before(cells, i)) \o Word(0)
                  \o Word(Len(t.columns)) \o Word(Len(t.rows))])
        jobs == FlattenSeq([j \in DOMAIN given.jobs |-> Field(given.jobs[j].name) \o Word(StartOf(j))])
        Hidden(bytes) == [i \in DOMAIN bytes |-> XorKey(bytes[i])]
        Count(n) == IF given.plain THEN Word(n) ELSE Hidden(Word(n))
        gap == [i \in 1 .. DATA_OFFSET - Len(MAGIC) - 8 |-> 0]
    IN  MAGIC \o Word(DATA_OFFSET) \o Word(jobDir) \o gap
          \o Count(Len(given.tables)) \o Hidden(tables)
          \o Count(Len(given.jobs)) \o Hidden(jobs \o FlattenSeq(codes) \o FlattenSeq(cells))

file == SubSeq(Written(content), 1, Len(Written(content)) - cut)

-----------------------------------------------------------------------------
Init ==
    /\ content \in Contents
    /\ cut \in {c \in Cuts : c < Len(Written(content))}
    /\ prg = [err |-> "closed"]
    /\ job = <<>> /\ code = <<>> /\ pos = 0 /\ ops = <<>> /\ seen_eoj = FALSE
    /\ state = "closed"

open ==
    /\ state = "closed"
    /\ prg' = parse(file)
    /\ state' = IF prg'.err = "" THEN "open" ELSE "failed"
    /\ UNCHANGED <<content, cut, job, code, pos, ops, seen_eoj>>

\* Any job of the directory; one whose bytes are not in the file is unknown.
decode_job ==
    /\ state = "open"
    /\ \E name \in ToSet(prg.jobs) :
          /\ job' = name
          /\ LET bytes == job_bytecode(prg, name)
             IN  IF bytes = <<>> THEN /\ state' = "failed"
                                      /\ UNCHANGED code
                                 ELSE /\ state' = "decoding"
                                      /\ code' = bytes[1]
    /\ UNCHANGED <<content, cut, prg, pos, ops, seen_eoj>>

\* Past an eoj a bad instruction is padding; before it, an error.
DecodeNext ==
    /\ state = "decoding" /\ pos < Len(code)
    /\ LET r == decode_one(pos)
       IN  \/ /\ r.err = ""
              /\ ops' = Append(ops, r.v) /\ pos' = r.at
              /\ seen_eoj' = (seen_eoj \/ r.v.byte = EOJ)
              /\ UNCHANGED state
           \/ /\ r.err # ""
              /\ state' = IF seen_eoj THEN "decoded" ELSE "DecodeError"
              /\ UNCHANGED <<ops, pos, seen_eoj>>
    /\ UNCHANGED <<content, cut, prg, job, code>>

DecodeEnds ==
    /\ state = "decoding" /\ pos = Len(code)
    /\ state' = "decoded"
    /\ UNCHANGED <<content, cut, prg, job, code, pos, ops, seen_eoj>>

Next == open \/ decode_job \/ DecodeNext \/ DecodeEnds

Spec == Init /\ [][Next]_vars

-----------------------------------------------------------------------------
(***************************************************************************)
(* Properties.                                                             *)
(***************************************************************************)

\* The selector of a register, the inverse of `register`.
Selector(r) ==
    LET Half(first, size, second) ==
            IF r.idx < size THEN first + r.idx ELSE second + r.idx - size
    IN  CASE r.bank = "B" -> Half(0, 16, 128)
          [] r.bank = "I" -> Half(16, 8, 144)
          [] r.bank = "L" -> Half(24, 4, 152)
          [] r.bank = "S" -> Half(28, 8, 44)
          [] r.bank = "F" -> 36 + r.idx

PartBytes(o) ==
    CASE o.kind = "Reg" -> <<Selector(o)>> [] o.kind = "Imm" -> LeBytes(o.v, 2) [] OTHER -> <<>>

OperandBytes(o, mode) ==
    CASE o.kind = "Imm" -> LeBytes(o.v, CASE mode = 5 -> 1 [] mode = 6 -> 2 [] mode = 7 -> 4)
      [] o.kind = "Str" -> LeBytes(Len(o.bytes), 2) \o o.bytes
      [] o.kind = "Indexed" -> PartBytes(o.base) \o PartBytes(o.index) \o PartBytes(o.len)
      [] OTHER -> PartBytes(o)

OpBytes(op) ==
    <<op.byte, op.mode_byte>> \o OperandBytes(op.arg0, op.mode_byte \div 16)
      \o OperandBytes(op.arg1, op.mode_byte % 16)

\* Whatever the bytecode, the instructions decoded so far cover its bytes up
\* to the reader's position one after another, each at the offset it claims,
\* and encode to exactly those bytes: no byte is skipped, read twice or given
\* another meaning, and a register named is one the machine has
\* (decode.rs decode_job, decode_one, read_operand, register).
CodeIsTiled ==
    /\ FlattenSeq([i \in DOMAIN ops |-> OpBytes(ops[i])]) = SubSeq(code, 1, pos)
    /\ \A i \in DOMAIN ops :
          ops[i].offset = Len(FlattenSeq([k \in 1 .. i - 1 |-> OpBytes(ops[k])]))

\* A whole file gives back the tables and, for each of its names, the bytecode
\* that was put into it, in whatever order the directory lists the jobs.  Of a
\* file cut short nothing is invented: a table's cells are the written ones up
\* to one that is cut, and a job's bytes begin the written ones
\* (prg.rs parse_tables, parse_cells, job_bytecode; cp1252.rs decode).
FileIsReadBack ==
    LET Flat(t) == FlattenSeq(<<t.columns>> \o t.rows)
        whole == cut = 0
    IN  prg.err = "" =>
          /\ whole => prg.tables = content.tables
          /\ whole => prg.jobs = [i \in DOMAIN content.jobs |-> content.jobs[i].name]
          /\ \A i \in DOMAIN prg.tables :
                LET got == Flat(prg.tables[i])
                    put == Flat(content.tables[i])
                IN  /\ Len(got) <= Len(put)
                    /\ \A k \in DOMAIN got :
                          IF k < Len(got) THEN got[k] = put[k] ELSE IsPrefix(got[k], put[k])
          /\ \A i \in DOMAIN prg.jobs :
                LET got == job_bytecode(prg, prg.jobs[i])
                    put == content.jobs[i].code
                IN  /\ whole => got # <<>> /\ IsPrefix(put, got[1])
                    /\ got # <<>> => IsPrefix(got[1], put) \/ IsPrefix(put, got[1])

=============================================================================
