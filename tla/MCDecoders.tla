----------------------------- MODULE MCDecoders -----------------------------
(***************************************************************************)
(* BestDecode on small files: one table and one to three jobs, whose       *)
(* bytecode goes through every opcode byte, every pair of addressing modes *)
(* and every register selector.                                            *)
(***************************************************************************)
EXTENDS BestDecode

MagicBytes == <<64, 69>>

\* Operand bytes for each addressing mode; S8 is one of the upper S registers.
S8 == 44
Sample(mode) ==
    CASE mode = 0 -> <<>>
      [] mode \in 1 .. 4 -> <<S8>>
      [] mode = 5 -> <<200>>
      [] mode = 6 -> <<1, 2>>
      [] mode = 7 -> <<1, 2, 3, 4>>
      [] mode = 8 -> <<2, 0, 7, 8>>
      [] mode = 9 -> <<S8, 1, 2>>
      [] mode = 10 -> <<S8, 16>>
      [] mode \in {11, 14} -> <<S8, 16, 1, 2>>
      [] mode = 12 -> <<S8, 1, 2, 3, 4>>
      [] mode = 13 -> <<S8, 1, 2, 16>>
      [] mode = 15 -> <<S8, 16, 24>>

Ending == <<EOJ, 0>>
ModeCodes == {<<0, 16 * m[1] + m[2]>> \o Sample(m[1]) \o Sample(m[2]) \o Ending
                  : m \in (0 .. 15) \X (0 .. 15)}
OpcodeCodes == {<<b, 0>> \o Ending : b \in 0 .. 255}
RegisterCodes == {<<0, 34, r, 0>> \o Ending : r \in 0 .. 255}

Euro == <<8364>>
Cells == [name |-> <<84>>, columns |-> <<<<65>>, Euro>>, rows |-> <<<<<<49, 50>>, <<>>>>, <<<<51>>, <<52>>>>>>]

OneJob(bytes) == [tables |-> <<Cells>>, jobs |-> <<[name |-> <<74>>, code |-> bytes]>>,
                  order |-> <<1>>, plain |-> TRUE]

\* Three jobs: J and L have code, K is another name for the one that follows it.
Jobs(order, plain) ==
    [tables |-> <<Cells, [Cells EXCEPT !.name = <<85, 376>>]>>,
     jobs |-> <<[name |-> <<74>>, code |-> <<0, 37, S8, 9, EOJ, 0, 11, 96, 3, 0, EOJ, 0>>],
                [name |-> <<75>>, code |-> <<>>],
                [name |-> <<76>>, code |-> <<1, 32, 1, EOJ, 0>>]>>,
     order |-> order, plain |-> plain]

MCContents ==
    {OneJob(c) : c \in ModeCodes \cup OpcodeCodes \cup RegisterCodes}
      \cup {Jobs(o, p) : o \in {<<1, 2, 3>>, <<3, 1, 2>>, <<2, 3, 1>>}, p \in BOOLEAN}

\* Only the larger files are also cut short.
MCInit == Init /\ (cut # 0 => Len(content.jobs) = 3)
MCSpec == MCInit /\ [][Next]_vars

MCCuts == 0 .. 150
=============================================================================
