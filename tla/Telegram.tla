------------------------------ MODULE Telegram ------------------------------
(***************************************************************************)
(* The BMW-FAST telegrams of crates/best/src/telegram.rs: what a BEST/2    *)
(* job builds and what it is answered with.  A frame is a sequence of      *)
(* bytes; At counts them from 0, as the code does.                         *)
(***************************************************************************)
EXTENDS Integers, Sequences

Byte == 0 .. 255

At(frame, i) == frame[i + 1]

-----------------------------------------------------------------------------
(***************************************************************************)
(* The three forms: the length is in the low six bits of the first byte,   *)
(* or, when these are 0, in byte 3, or, when that is 0 too, in bytes 4, 5. *)
(***************************************************************************)

ShortLength(frame) == At(frame, 0) % 64

\* header_and_length has the bytes it reads.
HasHeader(frame) ==
    /\ Len(frame) > 0
    /\ ShortLength(frame) = 0 => /\ Len(frame) > 3
                                 /\ At(frame, 3) = 0 => Len(frame) > 5

data_offset(frame) ==
    IF ShortLength(frame) # 0 THEN 3 ELSE IF At(frame, 3) # 0 THEN 4 ELSE 6

Declared(frame) ==
    CASE data_offset(frame) = 3 -> ShortLength(frame)
      [] data_offset(frame) = 4 -> At(frame, 3)
      [] data_offset(frame) = 6 -> 256 * At(frame, 4) + At(frame, 5)

\* Without the checksum.
tel_length(frame) == data_offset(frame) + Declared(frame)

-----------------------------------------------------------------------------
(***************************************************************************)
(* The service id a gate sees, and what a decoder makes of the frame.      *)
(***************************************************************************)

HasSid(frame) == HasHeader(frame) /\ Len(frame) > data_offset(frame)

\* Byte 3, which in the long forms is a length.
peek_sid_ShortOnly(frame) == At(frame, 3)

peek_sid(frame) == At(frame, data_offset(frame))

\* decode_request: the body must be there, a checksum is not looked at.
IsRequest(frame) == HasHeader(frame) /\ Len(frame) >= tel_length(frame)

Decoded(frame) ==
    [target |-> At(frame, 1), source |-> At(frame, 2),
     uds |-> SubSeq(frame, data_offset(frame) + 1, tel_length(frame))]

\* The wrapping sum, taken by halves.
checksum(bytes) ==
    LET Sum[from \in 1 .. Len(bytes), to \in 1 .. Len(bytes)] ==
            LET middle == (from + to) \div 2
            IN  IF from = to THEN bytes[from] % 256
                ELSE (Sum[from, middle] + Sum[middle + 1, to]) % 256
    IN  IF bytes = <<>> THEN 0 ELSE Sum[1, Len(bytes)]

\* decode: body and checksum must be there.
IsTelegram(frame) ==
    /\ HasHeader(frame)
    /\ Len(frame) > tel_length(frame)
    /\ At(frame, tel_length(frame)) = checksum(SubSeq(frame, 1, tel_length(frame)))

-----------------------------------------------------------------------------

HeaderFor(target, source, length) ==
    CASE length <= 63                 -> <<128 + length, target, source>>
      [] length > 63 /\ length <= 255 -> <<128, target, source, length>>
      [] length > 255 -> <<128, target, source, 0, (length \div 256) % 256, length % 256>>

encode(target, source, uds) ==
    LET body == HeaderFor(target, source, Len(uds)) \o uds
    IN  Append(body, checksum(body))
=============================================================================
