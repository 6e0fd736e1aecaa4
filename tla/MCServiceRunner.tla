-------------------------- MODULE MCServiceRunner --------------------------
(***************************************************************************)
(* Instances of ServiceRunner for TLC.                                     *)
(***************************************************************************)
EXTENDS ServiceRunner

CONSTANTS dme

Row(function, phase, position, value) ==
    [function |-> function, phase |-> phase, position |-> position, value |-> value]

\* Two functions of one job: the fuel pump (2) is asked for, the fan (1) is not.
\* The pump's Main has no phase text and a NULL argument.
SharedJob ==
    <<Row(1, "Main", 1, "fan"), Row(2, "Preset", 1, "pump"), Row(2, Null, 1, Null),
      Row(2, Null, 2, "pump"), Row(2, "Reset", 1, "stop")>>

\* An order that has everything out of place.
Shuffled == {<<5, 4, 1, 3, 2>>}

\* A function without a preparation, as most have.
TwoPhases == <<Row(2, "Main", 1, "pump"), Row(2, "Reset", 1, "stop")>>
AsGiven == {<<1, 2>>}
=============================================================================
