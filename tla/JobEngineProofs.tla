-------------------------- MODULE JobEngineProofs --------------------------
(***************************************************************************)
(* What the gate guarantees for every job, frame, target and bound.        *)
(***************************************************************************)
EXTENDS JobEngine, SequenceTheorems, TLAPS

\* A frame has the bytes its header needs, and they are bytes.
LEMMA HeaderIsRead ==
    ASSUME NEW frame \in Seq(Byte), HasHeader(frame)
    PROVE  /\ data_offset(frame) \in {3, 4, 6}
           /\ Declared(frame) \in Nat
           /\ tel_length(frame) = data_offset(frame) + Declared(frame)
<1>1. Len(frame) \in Nat /\ Len(frame) > 0
  BY DEF HasHeader
<1>2. ASSUME NEW i \in Nat \ {0}, Len(frame) >= i
      PROVE  frame[i] \in Nat
  <2>1. i \in 1 .. Len(frame)
    BY <1>1, <1>2
  <2>2. frame[i] \in Byte
    BY <2>1, ElementOfSeq, Zenon
  <2>3. Byte \subseteq Nat
    BY DEF Byte
  <2> QED
    BY <2>2, <2>3, Zenon
<1>3. ShortLength(frame) \in Nat
  <2>1. frame[1] \in Nat
    BY <1>1, <1>2
  <2> QED
    BY <2>1 DEF ShortLength, At
<1>4. CASE ShortLength(frame) # 0
  BY <1>3, <1>4 DEF data_offset, Declared, tel_length
<1>5. CASE ShortLength(frame) = 0
  <2>1. Len(frame) > 3 /\ frame[4] \in Nat
    BY <1>1, <1>2, <1>5 DEF HasHeader
  <2>2. CASE At(frame, 3) # 0
    BY <1>5, <2>1, <2>2 DEF data_offset, Declared, tel_length, At
  <2>3. CASE At(frame, 3) = 0
    <3>1. frame[5] \in Nat /\ frame[6] \in Nat
      BY <1>1, <1>2, <1>5, <2>3 DEF HasHeader
    <3> QED
      BY <1>5, <2>3, <3>1 DEF data_offset, Declared, tel_length, At
  <2> QED
    BY <2>2, <2>3
<1> QED
  BY <1>4, <1>5

\* The byte peek_sid returns is the first one of the decoded payload, if the
\* payload has any.
LEMMA PeekIsTheService ==
    ASSUME NEW frame \in Seq(Byte), HasSid(frame), IsRequest(frame),
           Decoded(frame).uds # <<>>
    PROVE  Head(Decoded(frame).uds) = peek_sid(frame)
<1> DEFINE offset == data_offset(frame)
           length == tel_length(frame)
<1>1. offset \in {3, 4, 6} /\ length \in Nat /\ Len(frame) \in Nat /\ length <= Len(frame)
  <2>1. HasHeader(frame) /\ Len(frame) >= tel_length(frame)
    BY DEF HasSid, IsRequest
  <2> QED
    BY <2>1, HeaderIsRead
<1>2. Decoded(frame).uds = SubSeq(frame, offset + 1, length)
  BY DEF Decoded
<1>3. offset + 1 <= length
  BY <1>1, <1>2
<1>4. Head(SubSeq(frame, offset + 1, length)) = frame[offset + 1]
  BY <1>1, <1>3
<1> QED
  BY <1>2, <1>4 DEF peek_sid, At

\* The table of services, read backwards.
LEMMA AdmittedServices ==
    ASSUME NEW sid, Admits(sid)
    PROVE  \/ sid \in {16, 62, 34, 44, 25}
           \/ policy = "ConfirmedWrite" /\ sid \notin 52 .. 55
  BY DEF Admits, classify

\* Whatever a job sends, under the read-only policy only reads get to the
\* transport, under no policy does flashing, and nothing goes to another ECU
\* than the one the caller named (GatedExchange and TelegramExchange).
THEOREM GateHolds == Spec => []OnlyAdmittedServices
<1>1. Init => OnlyAdmittedServices
  BY DEF Init, OnlyAdmittedServices
<1>2. OnlyAdmittedServices /\ [Next]_vars => OnlyAdmittedServices'
  <2> SUFFICES ASSUME OnlyAdmittedServices, [Next]_vars
               PROVE  OnlyAdmittedServices'
    OBVIOUS
  <2>1. CASE UNCHANGED <<policy, call>>
    BY <2>1 DEF OnlyAdmittedServices
  <2>2. CASE call' = Nothing
    BY <2>2 DEF OnlyAdmittedServices
  <2>3. ASSUME NEW frame \in Frames, Xsend(frame)
        PROVE  OnlyAdmittedServices'
    <3>1. frame \in Seq(Byte)
      BY FramesAssumption
    <3>2. /\ HasSid(frame) /\ Admits(peek_sid(frame))
          /\ IsRequest(frame) /\ Decoded(frame).target = Target
      BY <2>3 DEF Xsend, Reaches
    <3>3. /\ policy' = policy
          /\ call' = [to |-> Target, telegram |-> Decoded(frame)]
      BY <2>3 DEF Xsend
    <3>4. call'.to = Target /\ call'.telegram = Decoded(frame)
      BY <3>3
    <3>5. Decoded(frame).uds # <<>> =>
              \/ Head(Decoded(frame).uds) \in {16, 62, 34, 44, 25}
              \/ policy = "ConfirmedWrite" /\ Head(Decoded(frame).uds) \notin 52 .. 55
      BY <3>1, <3>2, PeekIsTheService, AdmittedServices
    <3> QED
      BY <3>2, <3>3, <3>4, <3>5 DEF OnlyAdmittedServices
  <2>4. ASSUME RunLoop
        PROVE  UNCHANGED <<policy, call>> \/ \E frame \in Frames : Xsend(frame)
    BY <2>4 DEF RunLoop, Load, Compute, Settmr, Clrt, OutOfBounds, Abort, Eoj, LoopBound,
                XsendRefused
  <2>5. ASSUME Transport
        PROVE  call' = Nothing
    BY <2>5 DEF Transport, Answer, TransportFails
  <2> QED
    BY <2>1, <2>2, <2>3, <2>4, <2>5 DEF Next, Finished, vars
<1> QED
  BY <1>1, <1>2, PTL DEF Spec

-----------------------------------------------------------------------------
(***************************************************************************)
(* What the job reads back.                                                *)
(***************************************************************************)

\* A body behind a header, and a byte behind both.
LEMMA Framed ==
    ASSUME NEW S, NEW header \in Seq(S), NEW uds \in Seq(S), NEW sum \in S,
           NEW frame, frame = Append(header \o uds, sum)
    PROVE  /\ Len(frame) = Len(header) + Len(uds) + 1
           /\ \A i \in 1 .. Len(header) : frame[i] = header[i]
           /\ SubSeq(frame, 1, Len(header) + Len(uds)) = header \o uds
           /\ SubSeq(frame, Len(header) + 1, Len(header) + Len(uds)) = uds
           /\ frame[Len(header) + Len(uds) + 1] = sum
<1> DEFINE body == header \o uds
           h == Len(header)
           n == Len(uds)
<1>1. /\ body \in Seq(S) /\ Len(body) = h + n
      /\ \A i \in 1 .. h : body[i] = header[i]
      /\ \A i \in 1 .. n : body[h + i] = uds[i]
  OBVIOUS
<1>2. /\ h \in Nat /\ n \in Nat
      /\ uds = [i \in 1 .. n |-> uds[i]] /\ body = [i \in 1 .. h + n |-> body[i]]
  <2>1. h \in Nat /\ n \in Nat /\ uds = [i \in 1 .. n |-> uds[i]]
    OBVIOUS
  <2>2. body = [i \in 1 .. Len(body) |-> body[i]]
    <3> HIDE DEF body
    <3> QED
      BY <1>1
  <2> QED
    BY <1>1, <2>1, <2>2
<1>3. frame \in Seq(S) /\ Len(frame) = h + n + 1 /\ frame[h + n + 1] = sum
  BY <1>1, <1>2
<1>4. \A i \in 1 .. h + n : frame[i] = body[i]
  BY <1>1, <1>2
<1>5. SubSeq(frame, 1, h + n) = body
  <2>1. SubSeq(frame, 1, h + n) = [i \in 1 .. h + n |-> frame[i]]
    BY <1>2, <1>3
  <2> QED
    BY <1>2, <1>4, <2>1
<1>6. SubSeq(frame, h + 1, h + n) = uds
  <2>1. SubSeq(frame, h + 1, h + n) = [i \in 1 .. n |-> frame[h + i]]
    BY <1>2, <1>3
  <2>2. \A i \in 1 .. n : frame[h + i] = uds[i]
    BY <1>1, <1>2, <1>4
  <2> QED
    BY <1>2, <2>1, <2>2
<1> QED
  BY <1>1, <1>2, <1>3, <1>4, <1>5, <1>6

\* The three headers, and the arithmetic of their lengths.
LEMMA HeaderForms ==
    ASSUME NEW target, NEW source, NEW n \in Nat
    PROVE  /\ n <= 63 => HeaderFor(target, source, n) = <<128 + n, target, source>>
           /\ n > 63 /\ n <= 255 => HeaderFor(target, source, n) = <<128, target, source, n>>
           /\ n > 255 => HeaderFor(target, source, n) =
                            <<128, target, source, 0, (n \div 256) % 256, n % 256>>
  BY DEF HeaderFor

LEMMA ShortForm ==
    ASSUME NEW n \in 1 .. 63
    PROVE  128 + n \in 0 .. 255 /\ (128 + n) % 64 = n
  OBVIOUS

LEMMA LongForm ==
    ASSUME NEW n \in Nat, n <= 65535
    PROVE  /\ (n \div 256) % 256 \in 0 .. 255 /\ n % 256 \in 0 .. 255
           /\ 256 * ((n \div 256) % 256) + (n % 256) = n
<1>1. n \div 256 \in 0 .. 255
  OBVIOUS
<1>2. (n \div 256) % 256 = n \div 256
  BY <1>1
<1>3. n = 256 * (n \div 256) + (n % 256) /\ n % 256 \in 0 .. 255
  OBVIOUS
<1> QED
  BY <1>1, <1>2, <1>3

\* The header of each form is read as it was written.
LEMMA HeaderIsWritten ==
    ASSUME NEW target \in Byte, NEW source \in Byte, NEW n \in Nat, 0 < n, n <= 65535, NEW frame,
           NEW header, header = HeaderFor(target, source, n),
           Len(frame) \in Nat, Len(frame) > Len(header),
           \A i \in 1 .. Len(header) : frame[i] = header[i]
    PROVE  /\ header \in Seq(Byte)
           /\ HasHeader(frame) /\ data_offset(frame) = Len(header)
           /\ tel_length(frame) = Len(header) + n
           /\ At(frame, 1) = target /\ At(frame, 2) = source
<1>1. CASE n <= 63
  <2>1. header = <<128 + n, target, source>>
    BY <1>1, HeaderForms
  <2>2. header[1] = 128 + n /\ header[2] = target /\ header[3] = source /\ Len(header) = 3
    BY <2>1
  <2>3. frame[1] = 128 + n /\ frame[2] = target /\ frame[3] = source
    BY <2>2
  <2>4. ShortLength(frame) = n
    BY <1>1, <2>3, ShortForm DEF ShortLength, At
  <2>5. header \in Seq(Byte)
    <3>1. 128 + n \in 0 .. 255
      BY <1>1, ShortForm
    <3> QED
      BY <2>1, <3>1 DEF Byte
  <2>6. /\ HasHeader(frame) /\ data_offset(frame) = 3
        /\ Declared(frame) = n
    BY <2>2, <2>4 DEF HasHeader, data_offset, Declared
  <2> QED
    BY <2>2, <2>3, <2>5, <2>6 DEF tel_length, At
<1>2. CASE n > 63 /\ n <= 255
  <2>1. header = <<128, target, source, n>>
    BY <1>2, HeaderForms
  <2>2. /\ header[1] = 128 /\ header[2] = target /\ header[3] = source /\ header[4] = n
        /\ Len(header) = 4
    BY <2>1
  <2>3. frame[1] = 128 /\ frame[2] = target /\ frame[3] = source /\ frame[4] = n
    BY <2>2
  <2>4. ShortLength(frame) = 0
    BY <2>3 DEF ShortLength, At
  <2>5. header \in Seq(Byte)
    <3>1. n \in Byte /\ 128 \in Byte
      BY <1>2 DEF Byte
    <3> QED
      BY <2>1, <3>1
  <2>6. /\ HasHeader(frame) /\ data_offset(frame) = 4
        /\ Declared(frame) = n
    BY <1>2, <2>2, <2>3, <2>4 DEF HasHeader, data_offset, Declared, At
  <2> QED
    BY <2>2, <2>3, <2>5, <2>6 DEF tel_length, At
<1>3. CASE n > 255
  <2> DEFINE high == (n \div 256) % 256
             low == n % 256
  <2>1. header = <<128, target, source, 0, high, low>>
    BY <1>3, HeaderForms
  <2>2. high \in 0 .. 255 /\ low \in 0 .. 255 /\ 256 * high + low = n
    BY LongForm
  <2> HIDE DEF high, low
  <2>3. /\ header[1] = 128 /\ header[2] = target /\ header[3] = source /\ header[4] = 0
        /\ header[5] = high /\ header[6] = low /\ Len(header) = 6
    BY <2>1
  <2>4. /\ frame[1] = 128 /\ frame[2] = target /\ frame[3] = source /\ frame[4] = 0
        /\ frame[5] = high /\ frame[6] = low
    BY <2>3
  <2>5. ShortLength(frame) = 0
    BY <2>4 DEF ShortLength, At
  <2>6. header \in Seq(Byte)
    <3>1. high \in Byte /\ low \in Byte /\ 128 \in Byte /\ 0 \in Byte
      BY <2>2 DEF Byte
    <3> QED
      BY <2>1, <3>1
  <2>7. HasHeader(frame) /\ data_offset(frame) = 6
    BY <2>3, <2>4, <2>5 DEF HasHeader, data_offset, At
  <2>8. Declared(frame) = n
    BY <2>2, <2>4, <2>7 DEF Declared, At
  <2> QED
    BY <2>3, <2>4, <2>6, <2>7, <2>8 DEF tel_length, At
<1> QED
  BY <1>1, <1>2, <1>3

\* What decode makes of a frame with these parts.
LEMMA ReadBack ==
    ASSUME NEW frame, HasHeader(frame), Len(frame) > tel_length(frame),
           At(frame, tel_length(frame)) = checksum(SubSeq(frame, 1, tel_length(frame)))
    PROVE  /\ IsTelegram(frame)
           /\ Decoded(frame) =
                 [target |-> At(frame, 1), source |-> At(frame, 2),
                  uds |-> SubSeq(frame, data_offset(frame) + 1, tel_length(frame))]
  BY DEF IsTelegram, Decoded

\* A payload that a telegram has a form for.
Fits(uds) == uds \in Seq(Byte) /\ uds # <<>> /\ Len(uds) <= 65535

\* decode(encode(...)) is what was encoded, in each of the three forms.
LEMMA EncodedIsDecoded ==
    ASSUME NEW target \in Byte, NEW source \in Byte, NEW uds, Fits(uds),
           NEW frame, frame = encode(target, source, uds)
    PROVE  /\ IsTelegram(frame)
           /\ Decoded(frame) = [target |-> target, source |-> source, uds |-> uds]
<1> DEFINE n == Len(uds)
           header == HeaderFor(target, source, n)
           body == header \o uds
           S == Byte \union {checksum(body)}
<1>1. n \in Nat /\ 0 < n /\ n <= 65535 /\ uds \in Seq(Byte)
  BY DEF Fits
<1>2. header \in Seq(Byte) /\ Len(header) \in Nat
  <2> DEFINE copy == [i \in 1 .. Len(header) + 1 |-> header[i]]
  <2>1. Len(header) \in Nat
    BY <1>1, HeaderForms
  <2>2. Len(copy) = Len(header) + 1 /\ \A i \in 1 .. Len(header) : copy[i] = header[i]
    BY <2>1
  <2>3. Len(copy) \in Nat /\ Len(copy) > Len(header)
    BY <2>1, <2>2
  <2> HIDE DEF copy
  <2> QED
    BY <1>1, <2>1, <2>2, <2>3, HeaderIsWritten
<1>3. header \in Seq(S) /\ uds \in Seq(S) /\ checksum(body) \in S
  BY <1>1, <1>2
<1>4. frame = Append(body, checksum(body))
  BY DEF encode
<1> HIDE DEF header, S
<1>5. /\ Len(frame) = Len(header) + n + 1
      /\ \A i \in 1 .. Len(header) : frame[i] = header[i]
      /\ SubSeq(frame, 1, Len(header) + n) = body
      /\ SubSeq(frame, Len(header) + 1, Len(header) + n) = uds
      /\ frame[Len(header) + n + 1] = checksum(body)
  BY <1>3, <1>4, Framed
<1>6. Len(frame) \in Nat /\ Len(frame) > Len(header)
  BY <1>1, <1>2, <1>5
<1>7. /\ HasHeader(frame) /\ data_offset(frame) = Len(header)
      /\ tel_length(frame) = Len(header) + n
      /\ At(frame, 1) = target /\ At(frame, 2) = source
  BY <1>1, <1>5, <1>6, HeaderIsWritten DEF header
<1>8. /\ SubSeq(frame, 1, tel_length(frame)) = body
      /\ SubSeq(frame, data_offset(frame) + 1, tel_length(frame)) = uds
      /\ At(frame, tel_length(frame)) = checksum(body)
      /\ Len(frame) > tel_length(frame)
  <2> HIDE DEF body, n
  <2> QED
    BY <1>1, <1>2, <1>5, <1>7 DEF At
<1> HIDE DEF body
<1>9. At(frame, tel_length(frame)) = checksum(SubSeq(frame, 1, tel_length(frame)))
  BY <1>8, Zenon
<1>10. /\ IsTelegram(frame)
       /\ Decoded(frame) = [target |-> At(frame, 1), source |-> At(frame, 2),
                            uds |-> SubSeq(frame, data_offset(frame) + 1, tel_length(frame))]
  BY <1>7, <1>8, <1>9, ReadBack, Zenon
<1> QED
  BY <1>7, <1>8, <1>10, Zenon

\* The register is about the last exchange from the moment the job is loaded.
Loading == phase = "load" => register = <<>> /\ last = Nothing

LastIsKept ==
    /\ Loading
    /\ RegisterIsOfTheLastExchange

\* An instruction that is no exchange leaves the register alone or ends the job.
LEMMA InstructionKeeps ==
    ASSUME LastIsKept, phase = "step",
           UNCHANGED last, UNCHANGED register, phase' \in {"step", "call", "done"}
    PROVE  LastIsKept'
  BY DEF LastIsKept, Loading, RegisterIsOfTheLastExchange

\* An exchange that failed empties the register or ends the job.
LEMMA FailureEmpties ==
    ASSUME NEW error, FailExchange(error), phase # "load"
    PROVE  LastIsKept'
  BY DEF FailExchange, SetError, WriteDest, Return, LastIsKept, Loading,
         RegisterIsOfTheLastExchange

\* While a job runs, what it finds in the register of its exchanges is the
\* telegram that decodes to the last answer, whatever form its length needs, or
\* nothing if the last exchange failed: never what an earlier one left
\* (engine.rs:213-228, TelegramExchange::request, encode and decode).
THEOREM RegisterIsCurrent == Spec => []RegisterIsOfTheLastExchange
<1>1. Init => LastIsKept
  BY DEF Init, LastIsKept, Loading, RegisterIsOfTheLastExchange
<1>2. LastIsKept /\ [Next]_vars => LastIsKept'
  <2> SUFFICES ASSUME LastIsKept, [Next]_vars
               PROVE  LastIsKept'
    OBVIOUS
  <2>1. CASE UNCHANGED vars
    BY <2>1 DEF LastIsKept, Loading, RegisterIsOfTheLastExchange, vars
  <2>2. CASE Load
    BY <2>2 DEF Load, Return, LastIsKept, Loading, RegisterIsOfTheLastExchange
  <2>3. CASE Compute \/ Clrt \/ \E mask \in SUBSET {UNMAPPED, NO_RESPONSE} : Settmr(mask)
    BY <2>3, InstructionKeeps DEF Compute, Clrt, Settmr, NextInstruction
  <2>4. CASE OutOfBounds
    BY <2>4, InstructionKeeps DEF OutOfBounds, NextInstruction, SetError, Return
  <2>5. CASE Eoj \/ LoopBound \/ \E error \in {"Exec", "BadPc"} : Abort(error)
    BY <2>5, InstructionKeeps DEF Eoj, LoopBound, Abort, NextInstruction, Return
  <2>6. CASE \E frame \in Frames : Xsend(frame)
    BY <2>6, InstructionKeeps DEF Xsend, NextInstruction
  <2>7. CASE XsendRefused
    BY <2>7, FailureEmpties DEF XsendRefused, NextInstruction
  <2>8. CASE TransportFails
    BY <2>8, FailureEmpties DEF TransportFails
  <2>9. ASSUME NEW response \in Responses, Answer(response)
        PROVE  LastIsKept'
    <3>1. Fits(response) /\ response # Nothing
      BY ResponsesAssumption DEF Fits
    <3>2. TESTER \in Byte /\ Target \in Byte
      BY TargetAssumption DEF TESTER, Byte
    <3>3. /\ IsTelegram(encode(TESTER, Target, response))
          /\ Decoded(encode(TESTER, Target, response)) =
                [target |-> TESTER, source |-> Target, uds |-> response]
      BY <3>1, <3>2, EncodedIsDecoded
    <3>4. last' = response /\ phase' \in {"step", "done"}
          /\ (phase' = "step" => register' = encode(TESTER, Target, response))
      BY <2>9 DEF Answer, WriteDest, Return
    <3> QED
      BY <3>1, <3>3, <3>4 DEF LastIsKept, Loading, RegisterIsOfTheLastExchange
  <2> QED
    BY <2>1, <2>2, <2>3, <2>4, <2>5, <2>6, <2>7, <2>8, <2>9
    DEF Next, RunLoop, Transport, Finished
<1>3. LastIsKept => RegisterIsOfTheLastExchange
  BY DEF LastIsKept
<1> QED
  BY <1>1, <1>2, <1>3, PTL DEF Spec
=============================================================================
