------------------------------ MODULE BestText ------------------------------
(***************************************************************************)
(* The text of crates/best and crates/sgbd: Windows-1252 (cp1252.rs), and  *)
(* the conversions of exec.rs between numbers, bytes and text.  A text is  *)
(* a sequence of code points.                                              *)
(***************************************************************************)
EXTENDS Integers, Sequences, SequencesExt

Digit0 == 48
Minus == 45
Dot == 46
Space == 32

-----------------------------------------------------------------------------
(***************************************************************************)
(* cp1252.rs                                                               *)
(***************************************************************************)

\* The code points of the bytes 128 to 159.
HIGH_CONTROL_MAP ==
    <<8364, 129, 8218, 402, 8222, 8230, 8224, 8225, 710, 8240, 352, 8249, 338, 141, 381, 143,
      144, 8216, 8217, 8220, 8221, 8226, 8211, 8212, 732, 8482, 353, 8250, 339, 157, 382, 376>>

decode_byte(b) == IF b \in 128 .. 159 THEN HIGH_CONTROL_MAP[b - 127] ELSE b

\* What the encoding cannot represent is a question mark.
encode_char(c) ==
    IF c \in 0 .. 127 \cup 160 .. 255 THEN c
    ELSE IF \E i \in 1 .. 32 : HIGH_CONTROL_MAP[i] = c
         THEN 127 + CHOOSE i \in 1 .. 32 : HIGH_CONTROL_MAP[i] = c
         ELSE 63

decode(bytes) == [i \in DOMAIN bytes |-> decode_byte(bytes[i])]
encode(text) == [i \in DOMAIN text |-> encode_char(text[i])]

-----------------------------------------------------------------------------
(***************************************************************************)
(* Reading numbers.                                                        *)
(***************************************************************************)

Lower(c) == IF c \in 65 .. 90 THEN c + 32 ELSE c
SameText(a, b) == Len(a) = Len(b) /\ \A i \in DOMAIN a : Lower(a[i]) = Lower(b[i])

\* to_digit; 99 is no digit of any base.
DigitOf(c) ==
    CASE c \in Digit0 .. 57 -> c - Digit0
      [] Lower(c) \in 97 .. 102 -> Lower(c) - 87
      [] OTHER -> 99

Digits(text, base) == text # <<>> /\ \A i \in DOMAIN text : DigitOf(text[i]) < base

Magnitude(text, base) ==
    LET value[i \in 0 .. Len(text)] ==
            IF i = 0 THEN 0 ELSE base * value[i - 1] + DigitOf(text[i])
    IN  value[Len(text)]

\* from_str_radix(..).unwrap_or(0), with the sign it accepts.
ParseOrZero(text, base) ==
    LET signed == text # <<>> /\ Head(text) \in {Minus, 43}
        digits == IF signed THEN Tail(text) ELSE text
    IN  IF ~ Digits(digits, base) THEN 0
        ELSE IF signed /\ Head(text) = Minus THEN - Magnitude(digits, base)
        ELSE Magnitude(digits, base)

White == 9 .. 13 \cup {Space, 133, 160}
Drop(text, n) == SubSeq(text, n + 1, Len(text))
Before(text, stops) ==
    LET at == {i \in DOMAIN text : text[i] \in stops}
    IN  IF at = {} THEN text ELSE SubSeq(text, 1, Min(at) - 1)
trim_start(text) ==
    LET solid == {i \in DOMAIN text : text[i] \notin White}
    IN  IF solid = {} THEN <<>> ELSE Drop(text, Min(solid) - 1)
trim_end(text) == Reverse(trim_start(Reverse(text)))
trim(text) == trim_start(trim_end(text))

\* Hexadecimal after 0x, binary after 0y, else decimal up to a point or comma.
string_to_value(number) ==
    LET text   == trim_end(number)
        second == IF Len(text) >= 2 /\ text[1] = Digit0 THEN Lower(text[2]) ELSE 0
    IN  CASE text = <<>>  -> 0
          [] second = 120 -> IF Len(text) > 2 /\ DigitOf(text[3]) < 16
                             THEN ParseOrZero(Drop(text, 2), 16) ELSE 0
          [] second = 121 -> ParseOrZero(Drop(text, 2), 2)
          [] OTHER        -> IF Lower(Head(text)) \in 97 .. 122 THEN 0
                             ELSE ParseOrZero(Before(trim_start(text), {Dot, 44}), 10)

\* parse::<f64> after the comma became a point, of the forms without an
\* exponent: an optional sign, digits, an optional point and digits.
Decimal(text) ==
    LET body   == trim([i \in DOMAIN text |-> IF text[i] = 44 THEN Dot ELSE text[i]])
        signed == body # <<>> /\ Head(body) \in {Minus, 43}
        plain  == IF signed THEN Tail(body) ELSE body
        whole  == Before(plain, {Dot})
        fract  == Drop(plain, Len(whole) + 1)
        number == Magnitude(whole \o fract, 10)
    IN  [ok |-> Digits(whole \o fract, 10),
         v  |-> <<IF signed /\ Head(body) = Minus THEN - number ELSE number, 10 ^ Len(fract)>>]

\* Complete pairs of hexadecimal digits; one bad pair spoils the whole.
hex_to_bytes(text) ==
    LET pairs == SubSeq(text, 1, 2 * (Len(text) \div 2))
    IN  [ok |-> pairs = <<>> \/ Digits(pairs, 16),
         v  |-> [i \in 1 .. Len(pairs) \div 2 |-> Magnitude(SubSeq(pairs, 2 * i - 1, 2 * i), 16)]]

-----------------------------------------------------------------------------
(***************************************************************************)
(* Writing numbers.                                                        *)
(***************************************************************************)

hex_digit(nibble) == IF nibble < 10 THEN Digit0 + nibble ELSE 55 + nibble
bcd_nibble(nibble) == IF nibble > 9 THEN 42 ELSE Digit0 + nibble

Nibbles(bytes, Render(_)) ==
    [i \in 1 .. 2 * Len(bytes) |->
        LET byte == bytes[(i + 1) \div 2]
        IN  Render(IF i % 2 = 1 THEN byte \div 16 ELSE byte % 16)]

MaxDigits == 9    \* enough for a word of 28 bits

\* n to a base, in at least width digits.
Formatted(n, base, width) ==
    LET count == Max({width, 1} \cup {k \in 2 .. MaxDigits : n \div base >= base ^ (k - 2)})
    IN  [i \in 1 .. count |-> hex_digit((n \div base ^ (count - i)) % base)]

FormattedInt(n) ==
    IF n < 0 THEN <<Minus>> \o Formatted(- n, 10, 1) ELSE Formatted(n, 10, 1)

\* The fields between separators: one more than there are separators.
Split(text, separators) ==
    LET cuts == SetToSortSeq({0, Len(text) + 1} \cup {i \in DOMAIN text : text[i] \in separators}, <)
    IN  [k \in 1 .. Len(cuts) - 1 |-> SubSeq(text, cuts[k] + 1, cuts[k + 1] - 1)]

\* a2y: bytes of a list of hexadecimal tokens.  What is no such list ends it,
\* an empty field is one zero and one more for each of its blanks, and a token
\* that is no byte stops the scan.
a2y(text) ==
    LET Accepted(c) == DigitOf(c) < 16 \/ c \in {Space, 59, 44}
        list   == Before(text, {text[i] : i \in {k \in DOMAIN text : ~ Accepted(text[k])}})
        fields == Split(list, {44, 59})
        Tokens(field) == SelectSeq(Split(trim(field), {Space}), LAMBDA t : t # <<>>)
        IsByte(token) == Magnitude(token, 16) < 256
        BytesOf(field) ==
            IF trim(field) = <<>> THEN [i \in 1 .. Len(field) + 1 |-> 0]
            ELSE LET good == Tokens(field)
                     bad  == {i \in DOMAIN good : ~ IsByte(good[i])}
                 IN  [i \in 1 .. (IF bad = {} THEN Len(good) ELSE Min(bad) - 1) |->
                        Magnitude(good[i], 16)]
        stops == {k \in DOMAIN fields : \E i \in DOMAIN Tokens(fields[k]) :
                                            ~ IsByte(Tokens(fields[k])[i])}
        last  == IF stops = {} THEN Len(fields) ELSE Min(stops)
    IN  IF text = <<>> THEN <<>>
        ELSE FlattenSeq([k \in 1 .. last |-> BytesOf(fields[k])])

\* flt2a of n / d: four significant digits, rounded half away from zero, and
\* of that text no more than its first four digit characters.
FLOAT_PRECISION == 4

FormattedFloat(v) ==
    LET size  == IF v[1] < 0 THEN - v[1] ELSE v[1]
        scale == CHOOSE e \in -3 .. 9 :      \* 10^(e-1) <= size / d < 10^e
                    IF e > 0 THEN size < 10 ^ e * v[2] /\ (size >= 10 ^ (e - 1) * v[2])
                    ELSE size * 10 ^ (- e) < v[2] /\ size * 10 ^ (1 - e) >= v[2]
        shift == FLOAT_PRECISION - scale
        top   == IF shift >= 0 THEN size * 10 ^ shift ELSE size
        under == IF shift >= 0 THEN v[2] ELSE v[2] * 10 ^ (- shift)
        round == (2 * top + under) \div (2 * under)
        fract == IF shift <= 0 THEN <<>>
                 ELSE LET padded == Formatted(round % 10 ^ shift, 10, shift)
                          used   == {i \in DOMAIN padded : padded[i] # Digit0}
                      IN  IF used = {} THEN <<>> ELSE SubSeq(padded, 1, Max(used))
        whole == IF shift >= 0 THEN round \div 10 ^ shift ELSE round * 10 ^ (- shift)
        text  == (IF v[1] < 0 THEN <<Minus>> ELSE <<>>) \o Formatted(whole, 10, 1)
                    \o (IF fract = <<>> THEN <<>> ELSE <<Dot>> \o fract)
        Count(i) == Len(SelectSeq(SubSeq(text, 1, i), LAMBDA c : DigitOf(c) < 10))
        full  == {i \in DOMAIN text : Count(i) = FLOAT_PRECISION}
    IN  IF v[1] = 0 THEN <<Digit0>>
        ELSE IF full = {} THEN text ELSE SubSeq(text, 1, Min(full))
=============================================================================
