------------------------------- MODULE MCBest -------------------------------
(***************************************************************************)
(* Jobs of BestJob for TLC.  A byte has seven bits: ASCII fits, and so     *)
(* does a word of four bytes into TLC's integers.                          *)
(***************************************************************************)
EXTENDS BestJob, TLC

Op(name, mode0, arg0, mode1, arg1) ==
    [op |-> name, mode0 |-> mode0, arg0 |-> arg0, mode1 |-> mode1, arg1 |-> arg1]
Op2(name, arg0, arg1) == Op(name, "Reg", arg0, "Reg", arg1)
Op1(name, arg0) == Op2(name, arg0, None)
Op0(name) == Op2(name, None, None)

\* A program of instructions one byte long.
Program(ops) ==
    [i \in DOMAIN ops |-> [op |-> ops[i].op, mode0 |-> ops[i].mode0, arg0 |-> ops[i].arg0,
                           mode1 |-> ops[i].mode1, arg1 |-> ops[i].arg1,
                           offset |-> i - 1, len |-> 1]]

S(i) == Reg("S", i)
F(i) == Reg("F", i)
First == [B |-> Reg("B", 0), I |-> Reg("I", 0), L |-> Reg("L", 0)]
Second == [B |-> Reg("B", 4), I |-> Reg("I", 2), L |-> Reg("L", 1)]

-----------------------------------------------------------------------------
\* One instruction on two registers of a bank; comparisons and their branches.
AluOps == {"adds", "subb", "comp", "mult", "divs", "and", "or", "xor", "not", "lsl", "asl", "lsr", "asr"}
AluJobs ==
    {Program(<<Op2(o, First[bank], Second[bank])>>) :
        o \in AluOps \ {"mult"}, bank \in {"B", "I", "L"}}
    \cup {Program(<<Op2("mult", First[bank], Second[bank])>>) : bank \in {"B", "I"}}

BranchJobs ==
    {Program(<<Op2("comp", First[bank], Second[bank]), Op1(o, Imm(1)), Op0("eoj"), Op0("eoj")>>) :
        o \in Branches, bank \in {"B", "I", "L"}}
    \cup {Program(<<Op1("jump", Imm(Low(-1, 4)))>>), Program(<<Op1("jump", Imm(Low(-2, 4)))>>)}

\* The numbers at the ends and around the middle of each range.
Edges ==
    [B |-> {0, 1, 2, 3, 6, 7, 8, 62, 63, 64, 65, 126, 127},
     I |-> {0, 1, 2, 13, 14, 15, 127, 128, 8191, 8192, 8193, 16383},
     L |-> {0, 1, 2, 27, 28, 29, 2^27 - 1, 2^27, 2^27 + 1, 2^28 - 2, 2^28 - 1}]
Wide == [Edges EXCEPT !["B"] = 0 .. 127]

-----------------------------------------------------------------------------
\* Two pushes, a peek at every position, two pops of any width.
Pushes ==
    {Op("push", "Reg", Reg("B", 1), "Reg", None), Op("push", "Reg", Reg("I", 1), "Reg", None),
     Op("push", "Reg", Reg("L", 1), "Reg", None), Op("push", "Imm8", Imm(5), "Reg", None),
     Op("push", "Imm16", Imm(300), "Reg", None), Op("push", "Imm32", Imm(70000), "Reg", None)}
StackJobs ==
    {Program(<<p, q, Op2("atsp", First[peek], Imm(at)), Op1("pop", First[pop]),
               Op1("pop", First[peek]), Op0("eoj")>>) :
        p \in Pushes, q \in Pushes, peek \in {"B", "I", "L"}, at \in 0 .. 8, pop \in {"B", "I", "L"}}

-----------------------------------------------------------------------------
\* Indexed accesses up to and past the bound, with the trap masked and not.
Indices == {Imm(i) : i \in {0, 2, ARRAY_MAX_SIZE - 1, ARRAY_MAX_SIZE}} \cup {Reg("I", 1)}
Accesses ==
    UNION {{Op2("move", Indexed(S(0), i, None), Reg("B", 0)),
            Op2("move", Indexed(S(0), i, None), S(1)),
            Op2("move", Reg("I", 0), Indexed(S(0), i, None)),
            Op2("move", S(1), Indexed(S(0), i, None)),
            Op2("adds", Indexed(S(0), i, None), Imm(100)),
            Op2("comp", Indexed(S(0), i, None), Imm(100))} : i \in Indices}
    \cup {Op1("swap", Indexed(S(0), i, Imm(n))) : i \in Indices, n \in 0 .. 3}
    \cup {Op2("move", S(1), Indexed(S(0), i, Imm(n))) : i \in Indices, n \in 0 .. 3}
    \cup {Op("move", "IdxRegImm", Indexed(S(0), Reg("I", 1), Imm(n)), "Reg", Reg("B", 0)) : n \in 0 .. 3}
    \cup {Op("adds", "IdxRegImm", Indexed(S(0), Reg("I", 1), Imm(n)), "Imm8", Imm(100)) : n \in 0 .. 3}
BoundJobs ==
    {Program(<<Op1("settmr", Imm(mask)), access, Op2("jt", Imm(1), Imm(28)),
               Op0("eoj"), Op0("clrt"), Op2("jnt", Imm(1), None), Op0("eoj"), Op0("eoj")>>) :
        mask \in {0, 1}, access \in Accesses}

-----------------------------------------------------------------------------
\* Jobs over tables of two, one and no rows.
A == <<65>>
C == <<67>>
SomeTables ==
    <<[name |-> <<84>>, columns |-> <<A, C>>, rows |-> << <<A, <<49>> >>, <<C, <<50>> >> >>],
      [name |-> <<85>>, columns |-> <<A>>, rows |-> << <<A>> >>],
      [name |-> <<86>>, columns |-> <<A>>, rows |-> << >>]>>
TableOps ==
    {Op1("tabset", Str(<<name>>)) : name \in {84, 117, 86, 87}}
    \cup {Op2("tabseek", Str(A), Str(key)) : key \in {C, <<90>>}}
    \cup {Op2("tabseeku", Str(C), Imm(2)), Op1("tabline", Imm(1)), Op1("tabline", Imm(5)),
          Op2("tabget", S(0), Str(A)), Op2("ergb", Str(A), Imm(1)), Op0("enewset")}
TableJobs == {Program(<<a, b, c, d, Op0("eoj")>>) : a, b, c, d \in TableOps}

-----------------------------------------------------------------------------
\* Jobs that reverse what they do, and name what has to be equal at the end.
Undone(ops, x, y) == Program(ops \o <<Op2("nop", x, y), Op0("eoj")>>)
Reversals ==
    {Undone(<<Op2(o, S(0), First[bank]), Op2("a2fix", Second[bank], S(0))>>,
            First[bank], Second[bank]) : o \in {"fix2hex", "fix2dez"}, bank \in {"B", "I", "L"}}
    \cup {Undone(<<Op2("fix2flt", F(0), First[bank]), Op2("flt2a", S(0), F(0)),
                   Op2("a2flt", F(1), S(0))>>, F(0), F(1)) : bank \in {"B", "I"}}
    \cup {Undone(<<Op2("fix2flt", F(0), First["I"]), Op2("fix2flt", F(1), Second["I"]),
                   Op2("fmul", F(0), F(1)), Op2("fdiv", F(0), F(1)),
                   Op2("flt2fix", Second["I"], F(0))>>, First["I"], Second["I"])}
Edits ==
    {Undone(<<Op2("y2hex", S(1), S(0)), Op2("hex2y", S(2), S(1))>>, S(0), S(2)),
     Undone(<<Op2("move", S(1), S(0)), Op2("scat", S(1), S(2)), Op2("slen", Reg("B", 0), S(2)),
              Op2("scut", S(1), Reg("B", 0))>>, S(0), S(1))}
    \cup {Undone(<<Op2("move", S(1), S(0)), Op2("slen", Reg("B", 0), S(2)),
                   Op2("spaste", Indexed(S(1), Imm(at), None), S(2)),
                   Op2("serase", Indexed(S(1), Imm(at), None), Reg("B", 0))>>, S(0), S(1)) :
            at \in 0 .. 1}

-----------------------------------------------------------------------------
\* The instructions no other family runs, on arguments of four fields.
Arguments == <<52, 44, 53, 59, 59, 48, 120, 49, 65, 59, 65>>    \* "4,5;;0x1A;A"
Others ==
    {Program(<<o, Op0("eoj")>>) :
        o \in {Op2(name, Reg("L", 0), Imm(i)) : name \in {"parb", "parw", "parl"}, i \in 0 .. 5}
              \cup {Op2("parr", F(0), Imm(i)) : i \in 1 .. 5}
              \cup {Op2("pars", S(0), Imm(i)) : i \in 1 .. 5}
              \cup {Op2(name, S(2), S(0)) : name \in {"a2y", "hex2y", "y2bcd", "strcat", "strcmp", "scmp"}}
              \cup {Op2(name, F(0), F(1)) : name \in {"fadd", "fsub", "fcomp", "fdiv", "move"}}
              \cup {Op2(name, Str(A), Reg("L", 0)) : name \in DOMAIN ErgInt}
              \cup {Op1(name, Reg("B", 0)) : name \in {"parn", "tabcols", "tabrows", "gettmr", "clear", "wait"}}
              \cup {Op0(name) : name \in {"clrc", "setc", "etag", "break", "ppush"}}
              \cup {Op1("clear", S(0)), Op1("clear", F(0)), Op2("pary", S(0), None),
                    Op2("strlen", Reg("B", 0), S(0)), Op2("ergr", Str(A), F(0)),
                    Op2("ergs", Str(A), S(0)), Op2("ergy", Str(A), S(0)), Op2("xsend", S(0), S(1))}}

SomeJobs == AluJobs \cup BranchJobs \cup StackJobs \cup BoundJobs \cup TableJobs
                \cup Reversals \cup Edits \cup Others

-----------------------------------------------------------------------------
Fresh == NewMachine @@ NewContext(Arguments, SomeTables)

\* Every flag is set at the start, so that one that is not cleared shows.
Holding(o, a, p, b) ==
    LET m1 == [Fresh EXCEPT !.flags = [z |-> TRUE, s |-> TRUE, c |-> TRUE, v |-> TRUE]]
    IN  write_reg(write_reg(m1, o, IntVal(a)).m, p, IntVal(b)).m

Buffers == {<<>>, <<A[1]>>, <<51, 66>>, <<1, 0, 127>>}
SomeStart(j) ==
    IF j[1].op \in AluOps /\ Len(j) = 1
    THEN LET bank == j[1].arg0.bank
         IN  {Holding(First[bank], a, Second[bank], b) : a \in Wide[bank], b \in Edges[bank]}
    ELSE IF j \in BranchJobs /\ j[1].op = "comp"
    THEN LET bank == j[1].arg0.bank
         IN  {Holding(First[bank], a, Second[bank], b) : a, b \in Edges[bank]}
    ELSE IF j \in Reversals
    THEN LET bank == (IF j[1].op = "fix2flt" THEN j[1].arg1 ELSE j[Len(j) - 1].arg0).bank
         IN  {Holding(First[bank], a, Second[bank], 7) : a \in Wide[bank]}
    ELSE IF j \in Edits
    THEN {[Fresh EXCEPT !.s[0] = a, !.s[2] = b] : a \in Buffers \ {<<>>}, b \in Buffers}
    ELSE IF j \in BoundJobs
    THEN {[Holding(Reg("B", 0), 66, Reg("I", 1), i) EXCEPT !.s[0] = a, !.s[1] = b] :
            i \in {0, 2, ARRAY_MAX_SIZE - 2}, a \in Buffers, b \in Buffers}
    ELSE {[Holding(Reg("L", 0), 2^28 - 3, Reg("L", 1), 123456) EXCEPT !.s[0] = <<51, 66, 59, 49>>]}
=============================================================================
