----------------------------- MODULE JobEngine -----------------------------
(***************************************************************************)
(* Ecu::run_job of crates/best: the run loop of engine.rs over the gate    *)
(* (gate.rs) over the bridge to bare UDS (bridge.rs), as the command line  *)
(* tool and the MCP server stack them.                                     *)
(*                                                                         *)
(* The job is bytecode of the car maker, so any instruction may follow     *)
(* any other, and any frame may be sent.  Of the machine the model keeps   *)
(* what the run loop itself touches: the error trap, its mask, and the S   *)
(* register that takes the responses, the same one for every exchange and  *)
(* always as a whole; an indexed destination, which keeps the bytes it is  *)
(* not given, is left out, and so is what the job then does with it.       *)
(***************************************************************************)
EXTENDS Telegram

CONSTANTS
    Target,            \* the ECU the caller names
    Frames,            \* the frames jobs build
    Responses,         \* the payloads ECUs answer
    MaxInstructions,   \* MAX_INSTRUCTIONS
    Nothing

ASSUME TargetAssumption == Target \in Byte
ASSUME FramesAssumption == Frames \subseteq Seq(Byte)
\* The HSFZ reader takes no frame of more than 64 KiB (hsfz frame.rs:42).
ASSUME ResponsesAssumption ==
    \A response \in Responses : /\ response \in Seq(Byte) \ {<<>>} /\ Len(response) <= 65535
                                /\ response # Nothing
ASSUME BoundAssumption == MaxInstructions \in Nat \ {0}

VARIABLES
    policy,            \* the gate's
    phase,             \* "load", "step", "call" or "done"
    executed,          \* passes of the loop
    trap_bit,          \* the recorded error, or Nothing
    trap_mask,         \* the bits the job handles itself
    register,          \* what the last exchange wrote
    call,              \* what the transport has been handed, or Nothing
    outcome,           \* what run_job returned
    last               \* history: the last exchange's payload, or Nothing

vars == <<policy, phase, executed, trap_bit, trap_mask, register, call, outcome, last>>

UNMAPPED == 0
NO_RESPONSE == 19
TESTER == 241

-----------------------------------------------------------------------------
(***************************************************************************)
(* gate.rs                                                                 *)
(***************************************************************************)

classify(sid) ==
    CASE sid \in {16, 62, 34, 44, 25} -> "Pass"
      [] sid \in 52 .. 55             -> "RefuseAlways"
      [] OTHER                        -> "Gated"

\* GatedExchange::request lets a service through.
Admits(sid) ==
    \/ classify(sid) = "Pass"
    \/ classify(sid) = "Gated" /\ policy = "ConfirmedWrite"

\* GatedExchange over TelegramExchange: the frame gets to the transport.
Reaches(frame) ==
    /\ HasSid(frame)
    /\ Admits(peek_sid(frame))
    /\ IsRequest(frame)
    /\ Decoded(frame).target = Target

-----------------------------------------------------------------------------
(***************************************************************************)
(* The loop.                                                               *)
(***************************************************************************)

\* A loop without the bound.
NextInstruction_Endless ==
    /\ phase = "step"
    /\ executed' = executed

NextInstruction ==
    /\ phase = "step"
    /\ executed < MaxInstructions
    /\ executed' = executed + 1

Return(result) ==
    /\ phase' = "done"
    /\ outcome' = result

\* set_error, then Go when the job masks the bit; else the run returns the error.
SetError(bit, error, Go) ==
    /\ trap_bit' = bit
    /\ \/ bit \in trap_mask /\ Go
       \/ bit \notin trap_mask /\ Return(error) /\ UNCHANGED register

\* m.write of the response to the instruction's destination, which need not
\* be writable.
WriteDest(bytes) ==
    \/ register' = bytes /\ phase' = "step" /\ UNCHANGED outcome
    \/ Return("Exec") /\ UNCHANGED register

\* The masked failure leaves the destination as it was.
FailExchange_KeepingDest(error) ==
    /\ SetError(NO_RESPONSE, error, phase' = "step" /\ UNCHANGED <<register, outcome>>)
    /\ last' = Nothing

\* An exchange that failed: the job goes on with an empty response if it
\* masks the error.
FailExchange(error) ==
    /\ SetError(NO_RESPONSE, error, WriteDest(<<>>))
    /\ last' = Nothing

-----------------------------------------------------------------------------

Init ==
    /\ policy \in {"ReadOnly", "ConfirmedWrite"}
    /\ phase = "load"
    /\ executed = 0
    /\ trap_bit = Nothing
    /\ trap_mask = {}
    /\ register = <<>>
    /\ call = Nothing
    /\ outcome = "none"
    /\ last = Nothing

\* The job is found and decoded, or is not.
Load ==
    /\ phase = "load"
    /\ \/ phase' = "step" /\ UNCHANGED outcome
       \/ \E error \in {"JobNotFound", "Decode"} : Return(error)
    /\ UNCHANGED <<policy, executed, trap_bit, trap_mask, register, call, last>>

\* An instruction that leaves the modelled state alone: a move, a branch, a wait.
Compute ==
    /\ NextInstruction
    /\ UNCHANGED <<policy, phase, trap_bit, trap_mask, register, call, outcome, last>>

Settmr(mask) ==
    /\ NextInstruction
    /\ trap_mask' = mask
    /\ UNCHANGED <<policy, phase, trap_bit, register, call, outcome, last>>

Clrt ==
    /\ NextInstruction
    /\ trap_bit' = Nothing
    /\ UNCHANGED <<policy, phase, trap_mask, register, call, outcome, last>>

\* An indexed access outside its bounds.
OutOfBounds ==
    /\ NextInstruction
    /\ SetError(UNMAPPED, "Exec", UNCHANGED <<phase, register, outcome>>)
    /\ UNCHANGED <<policy, trap_mask, call, last>>

\* The instruction fails, or there is none at the program counter.
Abort(error) ==
    /\ NextInstruction
    /\ Return(error)
    /\ UNCHANGED <<policy, trap_bit, trap_mask, register, call, last>>

Eoj ==
    /\ NextInstruction
    /\ Return("Ok")
    /\ UNCHANGED <<policy, trap_bit, trap_mask, register, call, last>>

LoopBound ==
    /\ phase = "step"
    /\ executed = MaxInstructions
    /\ Return("LoopBound")
    /\ UNCHANGED <<policy, executed, trap_bit, trap_mask, register, call, last>>

\* xsend of a frame that gets to the transport.
Xsend(frame) ==
    /\ NextInstruction
    /\ Reaches(frame)
    /\ phase' = "call"
    /\ call' = [to |-> Target, telegram |-> Decoded(frame)]
    /\ UNCHANGED <<policy, trap_bit, trap_mask, register, outcome, last>>

\* xsend of one that the gate or the bridge turns away.
XsendRefused ==
    /\ NextInstruction
    /\ \E frame \in Frames : ~ Reaches(frame)
    /\ FailExchange("Exchange")
    /\ UNCHANGED <<policy, trap_mask, call>>

\* The transport returns the ECU's payload; the bridge frames it.
Answer(response) ==
    /\ phase = "call"
    /\ WriteDest(encode(TESTER, Target, response))
    /\ call' = Nothing
    /\ last' = response
    /\ UNCHANGED <<policy, executed, trap_bit, trap_mask>>

\* The transport returns an error: a timeout, a negative response, a lost link.
TransportFails ==
    /\ phase = "call"
    /\ FailExchange("Exchange")
    /\ call' = Nothing
    /\ UNCHANGED <<policy, executed, trap_mask>>

Finished == phase = "done" /\ UNCHANGED vars

RunLoop ==
    \/ Load \/ Compute \/ Clrt \/ OutOfBounds \/ Eoj \/ LoopBound \/ XsendRefused
    \/ \E mask \in SUBSET {UNMAPPED, NO_RESPONSE} : Settmr(mask)
    \/ \E error \in {"Exec", "BadPc"} : Abort(error)
    \/ \E frame \in Frames : Xsend(frame)

Transport == (\E response \in Responses : Answer(response)) \/ TransportFails

Next == RunLoop \/ Transport \/ Finished

Spec == Init /\ [][Next]_vars

\* The loop is a task that is always ready between two awaits, and the
\* transport returns: EveryRequestReturns of Session.
FairSpec == Spec /\ WF_vars(RunLoop) /\ WF_vars(Transport)

-----------------------------------------------------------------------------

(***************************************************************************)
(* Whatever frame a job builds, in whichever of the three forms, the       *)
(* payload the transport is handed begins with a service the policy        *)
(* admits, so a read-only run sends reads alone and no run flashes, and it *)
(* goes to the ECU the caller named and the telegram was addressed to      *)
(* (peek_sid, classify and TelegramExchange::request must agree).  An      *)
(* empty payload, from a long form of declared length 0, has no service.   *)
(***************************************************************************)
OnlyAdmittedServices ==
    call # Nothing =>
        /\ call.to = Target
        /\ call.telegram.target = Target
        /\ call.telegram.uds # <<>> =>
              \/ Head(call.telegram.uds) \in {16, 62, 34, 44, 25}
              \/ policy = "ConfirmedWrite" /\ Head(call.telegram.uds) \notin 52 .. 55

(***************************************************************************)
(* While a job runs, the register of its exchanges is about the last one:  *)
(* empty if that failed, never the answer of an earlier one, and else a    *)
(* telegram from the ECU to the tester that decodes to the whole payload,  *)
(* whichever form its length needs (engine.rs:213-228, bridge.rs, encode). *)
(***************************************************************************)
RegisterIsOfTheLastExchange ==
    phase = "step" =>
        IF last = Nothing THEN register = <<>>
        ELSE /\ IsTelegram(register)
             /\ Decoded(register) = [target |-> TESTER, source |-> Target, uds |-> last]

(***************************************************************************)
(* run_job returns: the bound of its loop ends a job that never reaches    *)
(* its end.                                                                *)
(***************************************************************************)
EveryJobReturns == <>(phase = "done")
=============================================================================
