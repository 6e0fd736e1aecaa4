------------------------------ MODULE SgbdFile ------------------------------
(***************************************************************************)
(* prg.rs of crates/sgbd: the container an ECU's tables and jobs are in.   *)
(* A header of plain bytes points at two directories in the body, whose    *)
(* bytes are all XORed with one key; a directory is a count and entries of *)
(* one size.  A table's entry points at its cells, texts one after         *)
(* another; a job's entry has the start of its bytecode and not its        *)
(* length.                                                                 *)
(*                                                                         *)
(* A file is a sequence of bytes, offsets count from 0.  The sizes of the  *)
(* layout are constants, so that a small file has everything a large one   *)
(* has; the words are the 32 bits of the code.                             *)
(***************************************************************************)
EXTENDS Integers, Sequences, FiniteSetsExt, SequencesExt

CONSTANTS
    MAGIC,                  \* "@EDIABAS OBJECT"
    OFFSET_TABLE_DIR,       \* 0x84
    OFFSET_JOB_DIR,         \* 0x88
    DATA_OFFSET,            \* 0xA0: where the XORed bytes begin
    NAME_FIELD_LEN,         \* 64, and the cell pointer or the code's offset
    TABLE_ENTRY_SIZE,       \* 0x50; the last two words count columns, rows
    MAX_DIRECTORY_ENTRIES   \* 100000

Cp1252 == INSTANCE BestText

ENTRY_CELL_PTR == NAME_FIELD_LEN
ENTRY_COLUMNS  == TABLE_ENTRY_SIZE - 8
ENTRY_ROWS     == TABLE_ENTRY_SIZE - 4
JOB_ENTRY_SIZE == NAME_FIELD_LEN + 4

\* XOR with 0xF7: every bit but the fourth changes.
XorKey(byte) ==
    LET c == 255 - byte IN IF (c \div 8) % 2 = 1 THEN c - 8 ELSE c + 8

deobfuscate(byte, offset) == IF offset >= DATA_OFFSET THEN XorKey(byte) ELSE byte

deobf_buffer(bytes) == [i \in DOMAIN bytes |-> deobfuscate(bytes[i], i - 1)]

\* Larger than any count and any file; stands for every u32 with its top bit set.
Huge == 2147483647

\* A little-endian u32; a word that does not fit in the file is absent.
Absent == -1
raw_u32(bytes, offset) ==
    IF offset + 4 > Len(bytes) THEN Absent
    ELSE LET b == SubSeq(bytes, offset + 1, offset + 4)
         IN  IF b[4] >= 128 THEN Huge ELSE b[1] + 256 * (b[2] + 256 * (b[3] + 256 * b[4]))

deobf_u32(bytes, offset) == raw_u32(deobf_buffer(bytes), offset)

\* deobf_u32(..).unwrap_or(0)
WordOr0(bytes, offset) ==
    LET w == deobf_u32(bytes, offset) IN IF w = Absent THEN 0 ELSE w

\* The text up to a NUL, at most max bytes of it, and how far it reaches.
read_string(bytes, offset, max) ==
    LET end == Min({offset + max, Len(bytes)})
        nul == {i \in offset .. end - 1 : deobfuscate(bytes[i + 1], i) = 0}
        upto == IF nul = {} THEN end ELSE Min(nul)
    IN  [text |-> Cp1252!decode([i \in 1 .. upto - offset |->
                                    deobfuscate(bytes[offset + i], offset + i - 1)]),
         next |-> IF nul = {} THEN Max({end, offset}) ELSE upto + 1]

plausible_count(value) == value \in 1 .. MAX_DIRECTORY_ENTRIES

\* The count is plain in some files and XORed in others.
read_directory(bytes, ptr_offset) ==
    LET dir == raw_u32(bytes, ptr_offset)
        counts == SelectSeq(<<raw_u32(bytes, dir), deobf_u32(bytes, dir)>>, plausible_count)
    IN  IF dir \in {Absent, 0} \/ dir > Len(bytes) - 4 \/ counts = <<>>
        THEN [start |-> 0, count |-> 0]
        ELSE [start |-> dir + 4, count |-> counts[1]]

\* Where the whole entries of a directory begin, in order.
Entries(bytes, ptr_offset, size) ==
    LET dir == read_directory(bytes, ptr_offset)
        fit == IF dir.count = 0 THEN 0 ELSE (Len(bytes) - dir.start) \div size
    IN  [i \in 1 .. Min({dir.count, fit}) |-> dir.start + (i - 1) * size]

\* The cells of one row, and of the rows that follow; a row that the file has
\* no bytes for is left out.
Row(bytes, start, columns) ==
    LET walk[c \in 0 .. Min({columns, Len(bytes)})] ==
            IF c = 0 THEN [cells |-> <<>>, next |-> start]
            ELSE IF walk[c - 1].next >= Len(bytes) THEN walk[c - 1]
                 ELSE LET s == read_string(bytes, walk[c - 1].next, Len(bytes))
                      IN  [cells |-> Append(walk[c - 1].cells, s.text), next |-> s.next]
    IN  walk[Min({columns, Len(bytes)})]

parse_cells(bytes, start, columns, rows) ==
    LET total == Min({rows, Len(bytes)}) + 1
        walk[r \in 0 .. total] ==
            IF r = 0 THEN [grid |-> <<>>, next |-> start]
            ELSE LET row == Row(bytes, walk[r - 1].next, columns)
                 IN  [grid |-> IF row.cells = <<>> THEN walk[r - 1].grid
                               ELSE Append(walk[r - 1].grid, row.cells),
                      next |-> row.next]
    IN  walk[total].grid

parse_table(bytes, entry) ==
    LET grid == parse_cells(bytes, WordOr0(bytes, entry + ENTRY_CELL_PTR),
                            WordOr0(bytes, entry + ENTRY_COLUMNS),
                            WordOr0(bytes, entry + ENTRY_ROWS))
    IN  [name    |-> read_string(bytes, entry, NAME_FIELD_LEN).text,
         columns |-> IF grid = <<>> THEN <<>> ELSE Head(grid),
         rows    |-> IF grid = <<>> THEN <<>> ELSE Tail(grid)]

parse_tables(bytes) ==
    LET at == Entries(bytes, OFFSET_TABLE_DIR, TABLE_ENTRY_SIZE)
    IN  [i \in DOMAIN at |-> parse_table(bytes, at[i])]

parse_job_offsets(bytes) ==
    LET at == Entries(bytes, OFFSET_JOB_DIR, JOB_ENTRY_SIZE)
        named(job) == job.name # <<>>
    IN  SelectSeq([i \in DOMAIN at |->
                      [name   |-> read_string(bytes, at[i], NAME_FIELD_LEN).text,
                       offset |-> WordOr0(bytes, at[i] + NAME_FIELD_LEN)]], named)

parse_jobs(bytes) ==
    LET jobs == parse_job_offsets(bytes) IN [i \in DOMAIN jobs |-> jobs[i].name]

parse(bytes) ==
    IF Len(bytes) < Len(MAGIC) \/ SubSeq(bytes, 1, Len(MAGIC)) # MAGIC
    THEN [err |-> "BadMagic"]
    ELSE IF Len(bytes) < OFFSET_JOB_DIR + 4 THEN [err |-> "Truncated"]
    ELSE [err |-> "", tables |-> parse_tables(bytes), jobs |-> parse_jobs(bytes),
          deob |-> deobf_buffer(bytes), job_offsets |-> parse_job_offsets(bytes)]

\* Bounded by the next job of the directory instead of the next by address.
job_bytecode_ByDirectory(prg, name) ==
    LET of == SelectInSeq(prg.job_offsets, LAMBDA j : j.name = name)
        off == prg.job_offsets[of].offset
        end == IF of = Len(prg.job_offsets) THEN Len(prg.deob) ELSE prg.job_offsets[of + 1].offset
    IN  IF of = 0 \/ off > end \/ end > Len(prg.deob) THEN <<>> ELSE <<SubSeq(prg.deob, off + 1, end)>>

\* From a job's start to the next start by address, or to the end of the file:
\* a sequence of one, or of none if there is no such job inside the file.
job_bytecode(prg, name) ==
    LET of == SelectInSeq(prg.job_offsets, LAMBDA j : j.name = name)
        off == prg.job_offsets[of].offset
        later == {o \in {prg.job_offsets[i].offset : i \in DOMAIN prg.job_offsets} : o > off}
        end == IF later = {} THEN Len(prg.deob) ELSE Min(later)
    IN  IF of = 0 \/ off > end \/ end > Len(prg.deob) THEN <<>> ELSE <<SubSeq(prg.deob, off + 1, end)>>

=============================================================================
