-------------------------- MODULE HsfzWireProofs --------------------------
(***************************************************************************)
(* Proofs about HsfzWire: frames arrive whole and in order, however the    *)
(* network cuts the streams and whoever is dropped, and discovery connects *)
(* to the only gateway that it heard, for any number of senders, gateways  *)
(* and frames of any length.                                               *)
(***************************************************************************)
EXTENDS HsfzWire, SequenceTheorems, TLAPS

-----------------------------------------------------------------------------
(***************************************************************************)
(* Sequences.                                                              *)
(***************************************************************************)

\* A sequence of anything.
IsSequence(s) == Len(s) \in Nat /\ s = [i \in 1 .. Len(s) |-> s[i]]

\* A member of Seq(S) is one.
LEMMA Listed ==
    ASSUME NEW S, NEW s \in Seq(S)
    PROVE  IsSequence(s)
<1>1. Len(s) \in Nat /\ s \in [1 .. Len(s) -> S]
  BY LenProperties
<1>2. QED
  BY <1>1, Zenon DEF IsSequence

\* Sequences are equal that have the same elements.
LEMMA SameElements ==
    ASSUME NEW s, NEW u, IsSequence(s), IsSequence(u), Len(s) = Len(u),
           \A i \in 1 .. Len(s) : s[i] = u[i]
    PROVE  s = u
BY DEF IsSequence

\* Two halves of a sequence.
Halves(u, a, b) ==
    /\ Len(u) = Len(a) + Len(b)
    /\ \A i \in 1 .. Len(a) : u[i] = a[i]
    /\ \A i \in 1 .. Len(b) : u[Len(a) + i] = b[i]

\* Two sequences in a row.
LEMMA Row ==
    ASSUME NEW s, NEW u, IsSequence(s), IsSequence(u)
    PROVE  IsSequence(s \o u) /\ Halves(s \o u, s, u)
<1> DEFINE S == {s[i] : i \in 1 .. Len(s)} \union {u[i] : i \in 1 .. Len(u)}
<1>1. s \in Seq(S) /\ u \in Seq(S)
  BY DEF IsSequence
<1> HIDE DEF S
<1>2. s \o u \in Seq(S)
  BY <1>1
<1>3. IsSequence(s \o u)
  BY <1>2, Listed
<1>4. /\ Len(s \o u) = Len(s) + Len(u)
      /\ \A i \in 1 .. Len(s) : (s \o u)[i] = s[i]
      /\ \A i \in 1 .. Len(u) : (s \o u)[Len(s) + i] = u[i]
  BY <1>1
<1>5. QED
  BY <1>3, <1>4 DEF Halves

\* A part of a sequence, the empty one included.
LEMMA Part ==
    ASSUME NEW s, IsSequence(s), NEW m \in Nat, NEW n \in Nat, m > 0, m <= n + 1, n <= Len(s)
    PROVE  /\ IsSequence(SubSeq(s, m, n)) /\ Len(SubSeq(s, m, n)) = n - m + 1
           /\ \A i \in 1 .. n - m + 1 : SubSeq(s, m, n)[i] = s[m + i - 1]
<1> DEFINE S == {s[i] : i \in 1 .. Len(s)}
<1>1. s \in Seq(S)
  BY DEF IsSequence
<1> HIDE DEF S
<1>2. SubSeq(s, m, n) \in Seq(S)
  BY <1>1
<1>3. IsSequence(SubSeq(s, m, n))
  BY <1>2, Listed
<1>4. QED
  BY <1>1, <1>3

\* One more element.
LEMMA OneMore ==
    ASSUME NEW s, IsSequence(s), NEW x
    PROVE  /\ IsSequence(Append(s, x)) /\ Len(Append(s, x)) = Len(s) + 1
           /\ \A i \in 1 .. Len(s) : Append(s, x)[i] = s[i]
           /\ Append(s, x)[Len(s) + 1] = x
<1> DEFINE S == {s[i] : i \in 1 .. Len(s)} \union {x}
<1>1. s \in Seq(S) /\ x \in S
  BY DEF IsSequence
<1> HIDE DEF S
<1>2. Append(s, x) \in Seq(S)
  BY <1>1
<1>3. IsSequence(Append(s, x))
  BY <1>2, Listed
<1>4. QED
  BY <1>1, <1>3

\* A row stays the same wherever it is cut.
LEMMA Recut ==
    ASSUME NEW s, NEW a, NEW b, NEW u,
           IsSequence(s), IsSequence(a), IsSequence(b), IsSequence(u),
           Halves(u, a, b)
    PROVE  (s \o a) \o b = s \o u
<1>0. /\ Len(u) = Len(a) + Len(b)
      /\ \A i \in 1 .. Len(a) : u[i] = a[i]
      /\ \A i \in 1 .. Len(b) : u[Len(a) + i] = b[i]
  BY DEF Halves
<1>1. /\ Len(s \o a) = Len(s) + Len(a)
      /\ \A i \in 1 .. Len(s) : (s \o a)[i] = s[i]
      /\ \A i \in 1 .. Len(a) : (s \o a)[Len(s) + i] = a[i]
  BY Row DEF Halves
<1>2. /\ IsSequence(s \o u) /\ Len(s \o u) = Len(s) + Len(u)
      /\ \A i \in 1 .. Len(s) : (s \o u)[i] = s[i]
      /\ \A i \in 1 .. Len(u) : (s \o u)[Len(s) + i] = u[i]
  BY Row DEF Halves
<1>3. /\ IsSequence((s \o a) \o b) /\ Len((s \o a) \o b) = Len(s \o a) + Len(b)
      /\ \A i \in 1 .. Len(s \o a) : ((s \o a) \o b)[i] = (s \o a)[i]
      /\ \A i \in 1 .. Len(b) : ((s \o a) \o b)[Len(s \o a) + i] = b[i]
  <2>1. IsSequence(s \o a)
    BY Row
  <2>2. IsSequence((s \o a) \o b) /\ Halves((s \o a) \o b, s \o a, b)
    BY <2>1, Row
  <2>3. QED
    BY <2>2 DEF Halves
<1>4. Len(s) \in Nat /\ Len(a) \in Nat /\ Len(b) \in Nat /\ Len(u) \in Nat
  BY DEF IsSequence
<1>5. ASSUME NEW i \in 1 .. Len(s) + Len(u)
      PROVE  ((s \o a) \o b)[i] = (s \o u)[i]
  <2>1. CASE i <= Len(s)
    BY <1>1, <1>2, <1>3, <1>4, <2>1
  <2>2. CASE i > Len(s) /\ i <= Len(s) + Len(a)
    <3>1. i - Len(s) \in 1 .. Len(a) /\ i = Len(s) + (i - Len(s)) /\ i \in 1 .. Len(s \o a)
          /\ i - Len(s) \in 1 .. Len(u)
      BY <1>1, <1>0, <1>4, <2>2
    <3>2. ((s \o a) \o b)[i] = a[i - Len(s)] /\ (s \o u)[i] = u[i - Len(s)]
      BY <1>1, <1>2, <1>3, <3>1
    <3>3. QED
      BY <1>0, <3>1, <3>2
  <2>3. CASE i > Len(s) + Len(a)
    <3> DEFINE j == i - (Len(s) + Len(a))
    <3>0. j \in 1 .. Len(b) /\ i = Len(s) + Len(a) + j
      BY <1>0, <1>4, <2>3
    <3> HIDE DEF j
    <3>1. ((s \o a) \o b)[i] = b[j]
      BY <1>1, <1>3, <3>0
    <3>2. Len(a) + j \in 1 .. Len(u) /\ i = Len(s) + (Len(a) + j)
      BY <1>4, <3>0
    <3>3. (s \o u)[i] = u[Len(a) + j]
      BY <1>2, <3>2
    <3>4. QED
      BY <1>0, <3>0, <3>1, <3>3
  <2>4. QED
    BY <1>0, <1>4, <2>1, <2>2, <2>3
<1>6. QED
  <2>1. Len((s \o a) \o b) = Len(s) + Len(u) /\ Len(s \o u) = Len(s) + Len(u)
    BY <1>0, <1>1, <1>2, <1>3, <1>4
  <2>2. IsSequence((s \o a) \o b) /\ IsSequence(s \o u)
    BY <1>2, <1>3
  <2> DEFINE x == (s \o a) \o b
             y == s \o u
  <2>3. IsSequence(x) /\ IsSequence(y) /\ Len(x) = Len(y) /\ \A i \in 1 .. Len(x) : x[i] = y[i]
    BY <1>5, <2>1, <2>2
  <2> HIDE DEF x, y
  <2>4. x = y
    BY <2>3, SameElements
  <2>5. QED
    BY <2>4 DEF x, y

\* Bytes that go from the front of one sequence to the end of the one before it
\* keep their place in the row: what a segment or a part of a write does.
LEMMA Moved ==
    ASSUME NEW s, NEW u, IsSequence(s), IsSequence(u), NEW n \in 1 .. Len(u)
    PROVE  /\ IsSequence(s \o SubSeq(u, 1, n)) /\ IsSequence(SubSeq(u, n + 1, Len(u)))
           /\ (s \o SubSeq(u, 1, n)) \o SubSeq(u, n + 1, Len(u)) = s \o u
<1> DEFINE a == SubSeq(u, 1, n)
           b == SubSeq(u, n + 1, Len(u))
<1>1. Len(u) \in Nat /\ n \in Nat /\ n <= Len(u) /\ 1 <= n
  BY DEF IsSequence
<1>2. IsSequence(a) /\ Len(a) = n /\ \A i \in 1 .. n : a[i] = u[i]
  BY <1>1, Part
<1>3. IsSequence(b) /\ Len(b) = Len(u) - n /\ \A i \in 1 .. Len(u) - n : b[i] = u[n + i]
  BY <1>1, Part
<1> HIDE DEF a, b
<1>4. (s \o a) \o b = s \o u
  <2>1. Halves(u, a, b)
    BY <1>1, <1>2, <1>3 DEF Halves
  <2>2. IsSequence(a) /\ IsSequence(b)
    BY <1>2, <1>3
  <2>3. QED
    BY <2>1, <2>2, Recut
<1>5. IsSequence(s \o a)
  BY <1>2, Row
<1>6. QED
  BY <1>3, <1>4, <1>5 DEF a, b

-----------------------------------------------------------------------------
(***************************************************************************)
(* The frame codec.                                                        *)
(***************************************************************************)

\* The bytes of a frame: LENGTH, control word, and the two halves of the body.
IsEncoding(e, f) ==
    /\ IsSequence(e) /\ Len(e) = 2 + Len(f.addr) + Len(f.payload)
    /\ e[1] = Len(f.addr) + Len(f.payload) /\ e[2] = f.control
    /\ \A i \in 1 .. Len(f.addr) : e[2 + i] = f.addr[i]
    /\ \A i \in 1 .. Len(f.payload) : e[2 + Len(f.addr) + i] = f.payload[i]

\* The parts of a frame.
LEMMA FrameParts ==
    ASSUME NEW f \in Frames
    PROVE  /\ IsSequence(f.addr) /\ IsSequence(f.payload)
           /\ Len(f.addr) \in Nat /\ Len(f.payload) \in Nat /\ f.control \in Nat
           /\ f = Frame(f.control, f.addr, f.payload)
<1>1. f.addr \in Seq(Nat) /\ f.payload \in Seq(Nat) /\ f.control \in Nat
  BY DEF Frames
<1>2. IsSequence(f.addr) /\ IsSequence(f.payload)
  BY <1>1, Listed
<1>3. f = Frame(f.control, f.addr, f.payload)
  BY DEF Frames, Frame
<1>4. QED
  BY <1>1, <1>2, <1>3 DEF IsSequence

\* A header before a body of two halves.
LEMMA Headed ==
    ASSUME NEW f, NEW e, NEW h, NEW b, Len(f.addr) \in Nat, Len(f.payload) \in Nat,
           Halves(b, f.addr, f.payload), Halves(e, h, b), Len(h) = 2, IsSequence(e),
           h[1] = Len(b), h[2] = f.control
    PROVE  IsEncoding(e, f)
<1> DEFINE m == Len(f.addr)
           n == Len(f.payload)
           a == f.addr
           p == f.payload
<1>0. m \in Nat /\ n \in Nat
  OBVIOUS
<1>1. /\ Len(b) = m + n
      /\ \A i \in 1 .. m : b[i] = a[i]
      /\ \A i \in 1 .. n : b[m + i] = p[i]
  BY DEF Halves
<1>2. /\ Len(e) = 2 + Len(b)
      /\ \A i \in 1 .. 2 : e[i] = h[i]
      /\ \A i \in 1 .. Len(b) : e[2 + i] = b[i]
  BY DEF Halves
<1> HIDE DEF m, n, a, p
<1>3. e[1] = m + n /\ e[2] = f.control /\ Len(e) = 2 + m + n
  BY <1>0, <1>1, <1>2
<1>4. ASSUME NEW i \in 1 .. m
      PROVE  e[2 + i] = a[i]
  BY <1>0, <1>1, <1>2
<1>5. ASSUME NEW i \in 1 .. n
      PROVE  e[2 + m + i] = p[i]
  <2>1. m + i \in 1 .. Len(b) /\ 2 + m + i = 2 + (m + i)
    BY <1>0, <1>1
  <2>2. e[2 + (m + i)] = b[m + i]
    BY <1>2, <2>1
  <2>3. QED
    BY <1>1, <2>1, <2>2
<1>6. QED
  BY <1>3, <1>4, <1>5 DEF IsEncoding, m, n, a, p

\* What encode writes (frame.rs:97-111).
LEMMA Encoding ==
    ASSUME NEW f \in Frames
    PROVE  IsEncoding(encode(f), f)
<1> DEFINE b == f.addr \o f.payload
           h == <<Len(b), f.control>>
<1>1. /\ IsSequence(f.addr) /\ IsSequence(f.payload)
      /\ Len(f.addr) \in Nat /\ Len(f.payload) \in Nat
  BY FrameParts
<1>2. IsSequence(b) /\ Halves(b, f.addr, f.payload)
  BY <1>1, Row
<1>3. IsSequence(h) /\ Len(h) = 2 /\ h[1] = Len(b) /\ h[2] = f.control
  BY DEF IsSequence
<1>4. encode(f) = h \o b
  BY DEF encode
<1> HIDE DEF b, h
<1>5. IsSequence(h \o b) /\ Halves(h \o b, h, b)
  BY <1>2, <1>3, Row
<1>6. QED
  BY <1>1, <1>2, <1>3, <1>4, <1>5, Headed

\* x stands in s, after the first m elements.
At(s, m, x) == m + Len(x) <= Len(s) /\ \A i \in 1 .. Len(x) : s[m + i] = x[i]

\* The part of s where x stands is x.
LEMMA PartIs ==
    ASSUME NEW s, IsSequence(s), NEW x, IsSequence(x), NEW m \in Nat, At(s, m, x)
    PROVE  SubSeq(s, m + 1, m + Len(x)) = x
<1> DEFINE p == SubSeq(s, m + 1, m + Len(x))
<1>1. Len(x) \in Nat /\ Len(s) \in Nat
  BY DEF IsSequence
<1>2. m + Len(x) <= Len(s) /\ m + 1 > 0 /\ m + 1 <= m + Len(x) + 1
      /\ m + 1 \in Nat /\ m + Len(x) \in Nat
  BY <1>1 DEF At
<1>3. IsSequence(p) /\ Len(p) = m + Len(x) - (m + 1) + 1
      /\ \A i \in 1 .. m + Len(x) - (m + 1) + 1 : p[i] = s[m + 1 + i - 1]
  BY <1>2, Part
<1> HIDE DEF p
<1>4. Len(p) = Len(x)
  BY <1>1, <1>3
<1>5. ASSUME NEW i \in 1 .. Len(x)
      PROVE  p[i] = x[i]
  <2>1. i \in 1 .. m + Len(x) - (m + 1) + 1 /\ m + 1 + i - 1 = m + i
    BY <1>1
  <2>2. p[i] = s[m + i]
    BY <1>3, <2>1
  <2>3. QED
    BY <2>2 DEF At
<1>6. p = x
  BY <1>3, <1>4, <1>5, SameElements
<1>7. QED
  BY <1>6 DEF p

\* What stands in the beginning of a sequence stands in it.
LEMMA Within ==
    ASSUME NEW s, IsSequence(s), NEW x, IsSequence(x), NEW y, IsSequence(y), NEW m \in Nat,
           At(s, 0, x), At(x, m, y)
    PROVE  At(s, m, y)
<1>1. Len(x) \in Nat /\ Len(s) \in Nat /\ Len(y) \in Nat
  BY DEF IsSequence
<1>2. Len(x) <= Len(s) /\ \A i \in 1 .. Len(x) : s[i] = x[i]
  BY <1>1 DEF At
<1>3. m + Len(y) <= Len(x) /\ \A i \in 1 .. Len(y) : x[m + i] = y[i]
  BY DEF At
<1>4. \A i \in 1 .. Len(y) : m + i \in 1 .. Len(x)
  BY <1>1, <1>3
<1>5. QED
  BY <1>1, <1>2, <1>3, <1>4 DEF At

\* What decode makes of the frame at the front of a buffer, and what is left of
\* it (frame.rs:113-160).
LEMMA Decoding ==
    ASSUME NEW f \in Frames, Regular(f), NEW c, IsSequence(c), At(c, 0, encode(f))
    PROVE  /\ decode(c) \in {f, None} /\ (Len(f.addr) = 2 => decode(c) = f)
           /\ After(c) = SubSeq(c, Len(encode(f)) + 1, Len(c))
<1> DEFINE e == encode(f)
           a == f.addr
           p == f.payload
           m == Len(a)
           n == Len(p)
           control == f.control
           body == SubSeq(c, 3, 2 + (m + n))
<1>1. IsSequence(a) /\ IsSequence(p) /\ m \in Nat /\ n \in Nat /\ f = Frame(control, a, p)
  BY FrameParts
<1>2. IsEncoding(e, f)
  BY Encoding
<1>3. /\ IsSequence(e) /\ Len(e) = 2 + m + n
      /\ e[1] = m + n /\ e[2] = control
      /\ \A i \in 1 .. m : e[2 + i] = a[i]
      /\ \A i \in 1 .. n : e[2 + m + i] = p[i]
  BY <1>2 DEF IsEncoding
<1>4. IF control_has_addrs(control, m + n) THEN m = 2 \/ m + n < 2 ELSE a = <<>>
  BY DEF Regular
<1>5. At(c, 0, e)
  OBVIOUS
<1>6. decode(c) = IF ~control_has_addrs(c[2], c[1]) THEN Frame(c[2], <<>>, SubSeq(c, 3, 2 + c[1]))
                  ELSE IF c[1] < 2 THEN None
                  ELSE Frame(c[2], SubSeq(SubSeq(c, 3, 2 + c[1]), 1, 2),
                             SubSeq(SubSeq(c, 3, 2 + c[1]), 3, Len(SubSeq(c, 3, 2 + c[1]))))
  BY DEF decode, HeaderLen
<1>7. After(c) = SubSeq(c, 2 + c[1] + 1, Len(c))
  BY DEF After, HeaderLen
<1> HIDE DEF e, a, p, m, n, control
<1>8. c[1] = m + n /\ c[2] = control /\ Len(e) <= Len(c)
  BY <1>1, <1>3, <1>5 DEF At
<1>9. After(c) = SubSeq(c, Len(e) + 1, Len(c))
  BY <1>1, <1>3, <1>7, <1>8
<1>10. Len(a) + Len(p) = m + n /\ At(e, 2, a) /\ At(e, 2 + m, p)
  BY <1>1, <1>3 DEF At, m, n
<1>11. At(c, 2, a) /\ At(c, 2 + m, p)
  <2>1. 2 \in Nat /\ 2 + m \in Nat
    BY <1>1
  <2>2. QED
    BY <1>1, <1>3, <1>5, <1>10, <2>1, Within
<1>12. SubSeq(c, 3, 2 + m) = a
  <2>1. SubSeq(c, 2 + 1, 2 + Len(a)) = a
    BY <1>1, <1>11, PartIs
  <2>2. QED
    BY <2>1 DEF m
<1>13. SubSeq(c, 2 + m + 1, 2 + m + n) = p
  <2>1. 2 + m \in Nat
    BY <1>1
  <2>2. SubSeq(c, (2 + m) + 1, (2 + m) + Len(p)) = p
    BY <1>1, <1>11, <2>1, PartIs
  <2>3. QED
    BY <2>2 DEF n
<1>14. decode(c) = IF ~control_has_addrs(control, m + n) THEN Frame(control, <<>>, body)
                   ELSE IF m + n < 2 THEN None
                   ELSE Frame(control, SubSeq(body, 1, 2), SubSeq(body, 3, Len(body)))
  BY <1>6, <1>8
<1>15. Len(c) \in Nat /\ 2 + m + n <= Len(c)
  BY <1>3, <1>8 DEF IsSequence
<1>16. CASE ~control_has_addrs(control, m + n)
  <2>1. a = <<>>
    BY <1>4, <1>16
  <2>2. m = 0
    BY <2>1 DEF m
  <2>3. body = p
    BY <1>1, <1>13, <2>2
  <2>4. decode(c) = f
    BY <1>1, <1>14, <1>16, <2>1, <2>3
  <2>5. QED
    BY <1>9, <2>4 DEF e
<1>17. CASE control_has_addrs(control, m + n) /\ m + n < 2
  <2>1. decode(c) = None /\ m # 2
    BY <1>1, <1>14, <1>17
  <2>2. QED
    BY <1>9, <2>1 DEF e, m, a
<1>18. CASE control_has_addrs(control, m + n) /\ ~(m + n < 2)
  <2>1. m = 2
    BY <1>4, <1>18
  <2> DEFINE k == 2 + (m + n)
  <2>2. k \in Nat /\ 3 \in Nat /\ 3 > 0 /\ 3 <= k + 1 /\ k <= Len(c) /\ k = 4 + n
    BY <1>1, <1>15, <2>1
  <2> HIDE DEF k
  <2>3. /\ IsSequence(SubSeq(c, 3, k)) /\ Len(SubSeq(c, 3, k)) = k - 3 + 1
        /\ \A i \in 1 .. k - 3 + 1 : SubSeq(c, 3, k)[i] = c[3 + i - 1]
    BY <2>2, Part
  <2>4. IsSequence(body) /\ Len(body) = 2 + n /\ \A i \in 1 .. 2 + n : body[i] = c[2 + i]
    BY <1>1, <2>2, <2>3 DEF k
  <2> HIDE DEF body
  <2>5. At(body, 0, a) /\ At(body, 2, p)
    BY <1>1, <1>11, <2>1, <2>4 DEF At, m, n
  <2>6. SubSeq(body, 0 + 1, 0 + Len(a)) = a /\ SubSeq(body, 2 + 1, 2 + Len(p)) = p
    <3>1. 0 \in Nat /\ 2 \in Nat
      OBVIOUS
    <3>2. QED
      BY <1>1, <2>4, <2>5, <3>1, PartIs
  <2>7. Len(a) = 2 /\ Len(p) = n
    BY <2>1 DEF m, n
  <2>8. SubSeq(body, 1, 2) = a /\ SubSeq(body, 3, Len(body)) = p
    BY <1>1, <2>4, <2>6, <2>7
  <2>9. decode(c) = f
    BY <1>1, <1>14, <1>18, <2>8
  <2>10. QED
    BY <1>9, <2>9 DEF e
<1>19. QED
  BY <1>16, <1>17, <1>18
-----------------------------------------------------------------------------
(***************************************************************************)
(* Byte streams.                                                           *)
(***************************************************************************)

\* at[i] bytes of b come before frame i of fs, for the frames after the first k,
\* which are gone; at[Len(fs) + 1] is where the stream ends.
Placed(b, fs, at, i) == at[i + 1] = at[i] + Len(encode(fs[i])) /\ At(b, at[i], encode(fs[i]))
Ordered(at, k, n) == \A i \in k + 1 .. n : \A j \in i .. n : at[i] <= at[j]
Marks(b, fs, k, at) ==
    /\ at[k + 1] = 0 /\ at[Len(fs) + 1] = Len(b)
    /\ \A i \in k + 1 .. Len(fs) : Placed(b, fs, at, i)
    /\ Ordered(at, k, Len(fs) + 1)

\* The bytes b are the encodings of the frames of fs after the first k, one after
\* the other and nothing else.
Carries(b, fs, k) == k <= Len(fs) /\ \E at \in [Nat -> Nat] : Marks(b, fs, k, at)

\* Frames alone, and of a shape that the bytes tell.
Framed(fs) == \A i \in 1 .. Len(fs) : fs[i] \in Frames /\ Regular(fs[i])

\* An empty stream carries nothing.
LEMMA CarriesNothing ==
    ASSUME NEW fs, Len(fs) \in Nat
    PROVE  Carries(<<>>, fs, Len(fs))
<1> DEFINE at == [i \in Nat |-> 0]
<1>1. at \in [Nat -> Nat] /\ \A i \in Nat : at[i] = 0
  OBVIOUS
<1> HIDE DEF at
<1>2. Ordered(at, Len(fs), Len(fs) + 1)
  BY <1>1 DEF Ordered
<1>3. Len(fs) + 1 .. Len(fs) = {} /\ Len(<<>>) = 0
  OBVIOUS
<1>4. Marks(<<>>, fs, Len(fs), at)
  BY <1>1, <1>2, <1>3 DEF Marks
<1>5. QED
  BY <1>1, <1>4 DEF Carries

\* A stream that has bytes carries a frame.
LEMMA CarriesSomething ==
    ASSUME NEW b, NEW fs, Len(fs) \in Nat, NEW k \in Nat, Carries(b, fs, k), Len(b) # 0
    PROVE  k < Len(fs)
<1>1. PICK at \in [Nat -> Nat] : Marks(b, fs, k, at)
  BY DEF Carries
<1>2. at[k + 1] = 0 /\ at[Len(fs) + 1] = Len(b) /\ k <= Len(fs)
  BY <1>1 DEF Marks, Carries
<1>3. QED
  BY <1>2

\* What stands in a stream stands in a longer one.
LEMMA Longer ==
    ASSUME NEW b, NEW c, NEW x, Len(x) \in Nat, NEW m \in Nat, Len(b) \in Nat, Len(c) \in Nat,
           Len(b) <= Len(c), \A i \in 1 .. Len(b) : c[i] = b[i], At(b, m, x)
    PROVE  At(c, m, x)
<1>1. m + Len(x) <= Len(b) /\ \A i \in 1 .. Len(x) : b[m + i] = x[i]
  BY DEF At
<1>2. \A i \in 1 .. Len(x) : m + i \in 1 .. Len(b)
  BY <1>1
<1>3. QED
  BY <1>1, <1>2 DEF At

\* The next frame is written behind the others.
LEMMA CarriesOneMore ==
    ASSUME NEW b, IsSequence(b), NEW fs, IsSequence(fs), NEW k \in Nat, Carries(b, fs, k),
           Framed(fs), NEW f \in Frames
    PROVE  Carries(b \o encode(f), Append(fs, f), k)
<1> DEFINE e == encode(f)
           c == b \o e
           gs == Append(fs, f)
           n == Len(fs)
<1>1. PICK at \in [Nat -> Nat] : Marks(b, fs, k, at)
  BY DEF Carries
<1>2. IsSequence(e)
  BY Encoding DEF IsEncoding
<1>3. n \in Nat /\ k <= n /\ Len(b) \in Nat /\ Len(e) \in Nat
  BY <1>1, <1>2 DEF Carries, IsSequence
<1>4. IsSequence(c) /\ Len(c) = Len(b) + Len(e)
      /\ (\A i \in 1 .. Len(b) : c[i] = b[i]) /\ \A i \in 1 .. Len(e) : c[Len(b) + i] = e[i]
  <2>1. IsSequence(c) /\ Halves(c, b, e)
    BY <1>2, Row
  <2>2. QED
    BY <2>1 DEF Halves
<1>5. IsSequence(gs) /\ Len(gs) = n + 1 /\ (\A i \in 1 .. n : gs[i] = fs[i]) /\ gs[n + 1] = f
  BY OneMore
<1> HIDE DEF e, c, gs, n
<1> DEFINE to == [at EXCEPT ![n + 2] = Len(b) + Len(e)]
<1>6. /\ to \in [Nat -> Nat] /\ to[n + 2] = Len(b) + Len(e)
      /\ \A i \in Nat : i # n + 2 => to[i] = at[i]
  <2> DEFINE p == n + 2
             q == Len(b) + Len(e)
  <2>1. p \in Nat /\ q \in Nat
    BY <1>3
  <2> HIDE DEF p, q
  <2>2. /\ [at EXCEPT ![p] = q] \in [Nat -> Nat] /\ [at EXCEPT ![p] = q][p] = q
        /\ \A i \in Nat : i # p => [at EXCEPT ![p] = q][i] = at[i]
    BY <1>1, <2>1
  <2>3. QED
    BY <2>2 DEF p, q
<1>7. /\ at[k + 1] = 0 /\ at[n + 1] = Len(b)
      /\ \A i \in k + 1 .. n : Placed(b, fs, at, i)
      /\ Ordered(at, k, n + 1)
  BY <1>1 DEF Marks, n
<1> HIDE DEF to
<1>8. to[k + 1] = 0 /\ to[n + 1] = Len(b)
  <2>1. k + 1 # n + 2 /\ n + 1 # n + 2 /\ k + 1 \in Nat /\ n + 1 \in Nat
    BY <1>3
  <2>2. QED
    BY <1>6, <1>7, <2>1
<1>9. ASSUME NEW i \in k + 1 .. n
      PROVE  Placed(c, gs, to, i)
  <2>1. i \in Nat /\ i + 1 \in Nat /\ i \in 1 .. n /\ i # n + 2 /\ i + 1 # n + 2
    BY <1>3
  <2>2. to[i] = at[i] /\ to[i + 1] = at[i + 1] /\ gs[i] = fs[i] /\ at[i] \in Nat
    BY <1>5, <1>6, <2>1
  <2>3. at[i + 1] = at[i] + Len(encode(fs[i])) /\ At(b, at[i], encode(fs[i]))
    BY <1>7 DEF Placed
  <2>4. Len(encode(fs[i])) \in Nat
    <3>1. fs[i] \in Frames
      BY <2>1 DEF n, Framed
    <3>2. QED
      BY <3>1, Encoding DEF IsEncoding, IsSequence
  <2> DEFINE x == encode(fs[i])
             m == at[i]
  <2>5. Len(x) \in Nat /\ m \in Nat /\ At(b, m, x) /\ Len(b) <= Len(c) /\ Len(c) \in Nat
    BY <1>3, <1>4, <2>2, <2>3, <2>4
  <2> HIDE DEF x, m
  <2>6. At(c, m, x)
    BY <1>3, <1>4, <2>5, Longer
  <2>7. QED
    BY <2>2, <2>3, <2>6 DEF Placed, x, m
<1>10. Placed(c, gs, to, n + 1)
  <2>1. At(c, Len(b), e)
    <3>1. Len(b) + Len(e) <= Len(c)
      BY <1>3, <1>4
    <3>2. QED
      BY <1>4, <3>1 DEF At
  <2>2. gs[n + 1] = f /\ to[n + 1] = Len(b) /\ to[n + 1 + 1] = Len(b) + Len(e)
    BY <1>3, <1>5, <1>6, <1>8
  <2>3. QED
    BY <2>1, <2>2 DEF Placed, e
<1>11. Ordered(to, k, n + 2)
  <2>0. \A i \in k + 1 .. n + 1 : \A j \in i .. n + 1 : at[i] <= at[j]
    BY <1>7 DEF Ordered
  <2>1. ASSUME NEW i \in k + 1 .. n + 1
        PROVE  to[i] = at[i] /\ at[i] <= Len(b) /\ at[i] \in Nat
    <3>1. i \in Nat /\ i # n + 2 /\ n + 1 \in i .. n + 1
      BY <1>3
    <3>2. at[i] <= at[n + 1]
      BY <2>0, <3>1
    <3>3. QED
      BY <1>3, <1>6, <1>7, <3>1, <3>2
  <2>2. ASSUME NEW i \in k + 1 .. n + 2, NEW j \in i .. n + 2
        PROVE  to[i] <= to[j]
    <3>1. CASE j # n + 2
      <4>1. i \in k + 1 .. n + 1 /\ j \in k + 1 .. n + 1 /\ j \in i .. n + 1
        BY <1>3, <3>1
      <4>2. QED
        BY <2>0, <2>1, <4>1
    <3>2. CASE j = n + 2 /\ i # n + 2
      <4>1. i \in k + 1 .. n + 1
        BY <1>3, <3>2
      <4> DEFINE x == to[i]
      <4>2. x <= Len(b) /\ x \in Nat
        BY <2>1, <4>1
      <4> HIDE DEF x
      <4>5. x <= Len(b) + Len(e)
        BY <1>3, <4>2
      <4>3. to[j] = Len(b) + Len(e)
        BY <1>6, <3>2
      <4>4. QED
        BY <4>3, <4>5 DEF x
    <3>3. CASE j = n + 2 /\ i = n + 2
      BY <1>3, <1>6, <3>3
    <3>4. QED
      BY <3>1, <3>2, <3>3
  <2>3. QED
    BY <2>2 DEF Ordered
<1>12. \A i \in k + 1 .. n + 1 : Placed(c, gs, to, i)
  <2>1. TAKE i \in k + 1 .. n + 1
  <2>2. CASE i = n + 1
    BY <1>10, <2>2
  <2>3. CASE i # n + 1
    <3>1. i \in k + 1 .. n
      BY <1>3, <2>3
    <3>2. QED
      BY <1>9, <3>1
  <2>4. QED
    BY <2>2, <2>3
<1>13. to[n + 1 + 1] = Len(c) /\ n + 1 + 1 = n + 2
  BY <1>3, <1>4, <1>6
<1>14. Marks(c, gs, k, to)
  BY <1>3, <1>5, <1>8, <1>11, <1>12, <1>13 DEF Marks
<1>15. k <= Len(gs)
  BY <1>3, <1>5
<1>16. QED
  BY <1>6, <1>14, <1>15 DEF Carries, c, gs, e
\* The first frame of a stream is cut off.
LEMMA CarriesRest ==
    ASSUME NEW b, IsSequence(b), NEW fs, Len(fs) \in Nat, NEW k \in Nat, Carries(b, fs, k),
           k < Len(fs), Framed(fs)
    PROVE  LET e == encode(fs[k + 1])
           IN At(b, 0, e) /\ Carries(SubSeq(b, Len(e) + 1, Len(b)), fs, k + 1)
<1> DEFINE e == encode(fs[k + 1])
           l == Len(e)
           n == Len(fs)
           c == SubSeq(b, l + 1, Len(b))
<1>1. PICK at \in [Nat -> Nat] : Marks(b, fs, k, at)
  BY DEF Carries
<1>2. n \in Nat /\ k < n /\ Len(b) \in Nat /\ k + 1 \in 1 .. n
  <2>1. Len(b) \in Nat
    BY DEF IsSequence
  <2>2. n \in Nat /\ k < n
    OBVIOUS
  <2> HIDE DEF n
  <2>3. k + 1 \in 1 .. n
    BY <2>2
  <2>4. QED
    BY <2>1, <2>2, <2>3
<1>3. l \in Nat
  BY <1>2, Encoding DEF IsEncoding, IsSequence, Framed
<1>4. /\ at[k + 1] = 0 /\ at[n + 1] = Len(b)
      /\ \A i \in k + 1 .. n : Placed(b, fs, at, i)
      /\ Ordered(at, k, n + 1)
  BY <1>1 DEF Marks
<1>5. \A i \in Nat : at[i] \in Nat
  BY <1>1
<1> HIDE DEF n
<1>6. At(b, 0, e) /\ at[k + 1 + 1] = l
  <2>1. Placed(b, fs, at, k + 1)
    BY <1>2, <1>4
  <2>2. at[k + 1 + 1] = at[k + 1] + Len(e) /\ At(b, at[k + 1], e)
    BY <2>1 DEF Placed
  <2>3. QED
    BY <1>3, <1>4, <2>2
<1> HIDE DEF e, l
<1>7. l <= Len(b)
  BY <1>2, <1>3, <1>6 DEF At, l
<1>8. IsSequence(c) /\ Len(c) = Len(b) - l /\ \A i \in 1 .. Len(b) - l : c[i] = b[l + i]
  <2>1. l + 1 \in Nat /\ l + 1 > 0 /\ l + 1 <= Len(b) + 1 /\ Len(b) <= Len(b)
    BY <1>2, <1>3, <1>7
  <2>2. IsSequence(c) /\ Len(c) = Len(b) - (l + 1) + 1
        /\ \A i \in 1 .. Len(b) - (l + 1) + 1 : c[i] = b[l + 1 + i - 1]
    BY <1>2, <2>1, Part
  <2> HIDE DEF c
  <2>3. Len(b) - (l + 1) + 1 = Len(b) - l
    BY <1>2, <1>3
  <2>4. \A i \in 1 .. Len(b) - l : l + 1 + i - 1 = l + i
    BY <1>3
  <2>5. QED
    BY <2>2, <2>3, <2>4
<1> HIDE DEF c
<1> DEFINE to == [i \in Nat |-> IF at[i] >= l THEN at[i] - l ELSE 0]
<1>9. to \in [Nat -> Nat] /\ \A i \in Nat : at[i] >= l => to[i] = at[i] - l
  <2>1. ASSUME NEW i \in Nat, at[i] >= l
        PROVE  at[i] - l \in Nat
    <3> DEFINE x == at[i]
    <3>1. x \in Nat /\ x >= l
      BY <1>5, <2>1
    <3> HIDE DEF x
    <3>2. x - l \in Nat
      BY <1>3, <3>1
    <3>3. QED
      BY <3>2 DEF x
  <2>2. QED
    BY <2>1
<1> HIDE DEF to
<1>10. ASSUME NEW i \in k + 1 + 1 .. n + 1
       PROVE  i \in Nat /\ at[i] \in Nat /\ at[i] = to[i] + l /\ to[i] \in Nat
  <2>1. i \in Nat /\ k + 1 + 1 \in k + 1 .. n + 1 /\ i \in k + 1 + 1 .. n + 1
    BY <1>2
  <2>2. at[k + 1 + 1] <= at[i]
    BY <1>4, <2>1 DEF Ordered
  <2> DEFINE x == at[i]
             y == to[i]
  <2>3. x >= l /\ x \in Nat
    BY <1>3, <1>5, <1>6, <2>1, <2>2
  <2>4. y = x - l
    BY <1>9, <2>1, <2>3
  <2> HIDE DEF x, y
  <2>5. x = y + l /\ y \in Nat
    BY <1>3, <2>3, <2>4
  <2>6. QED
    BY <2>1, <2>3, <2>5 DEF x, y
<1>11. to[k + 1 + 1] = 0 /\ to[n + 1] = Len(c)
  <2>1. k + 1 + 1 \in k + 1 + 1 .. n + 1 /\ n + 1 \in k + 1 + 1 .. n + 1
    BY <1>2
  <2>2. at[k + 1 + 1] = to[k + 1 + 1] + l /\ at[n + 1] = to[n + 1] + l
        /\ to[k + 1 + 1] \in Nat /\ to[n + 1] \in Nat
    BY <1>10, <2>1
  <2> DEFINE x == to[k + 1 + 1]
             y == to[n + 1]
  <2>3. l = x + l /\ Len(b) = y + l /\ x \in Nat /\ y \in Nat
    BY <1>4, <1>6, <2>2
  <2> HIDE DEF x, y
  <2>4. x = 0 /\ y = Len(b) - l
    BY <1>2, <1>3, <2>3
  <2>5. QED
    BY <1>8, <2>4 DEF x, y
<1>12. ASSUME NEW i \in k + 1 + 1 .. n
       PROVE  Placed(c, fs, to, i)
  <2> DEFINE x == encode(fs[i])
             m == to[i]
             z == at[i]
  <2>1. i \in 1 .. n /\ i \in k + 1 .. n /\ i \in k + 1 + 1 .. n + 1 /\ i + 1 \in k + 1 + 1 .. n + 1
    BY <1>2
  <2>2. Len(x) \in Nat
    BY <2>1, Encoding DEF IsEncoding, IsSequence, Framed, n
  <2>3. at[i + 1] = z + Len(x) /\ At(b, z, x)
    BY <1>4, <2>1 DEF Placed
  <2>4. z = m + l /\ m \in Nat /\ at[i + 1] = to[i + 1] + l /\ to[i + 1] \in Nat
    BY <1>10, <2>1
  <2> HIDE DEF x, m, z
  <2>5. to[i + 1] = m + Len(x)
    <3> DEFINE y == to[i + 1]
               w == Len(x)
    <3>1. y + l = m + l + w /\ y \in Nat /\ w \in Nat
      BY <2>2, <2>3, <2>4
    <3> HIDE DEF y, w
    <3>2. y = m + w
      BY <1>3, <2>4, <3>1
    <3>3. QED
      BY <3>2 DEF y, w
  <2>6. z + Len(x) <= Len(b) /\ \A j \in 1 .. Len(x) : b[z + j] = x[j]
    BY <2>3 DEF At
  <2>7. m + Len(x) <= Len(c)
    BY <1>2, <1>3, <1>8, <2>2, <2>4, <2>6
  <2>8. ASSUME NEW j \in 1 .. Len(x)
        PROVE  c[m + j] = x[j]
    <3>1. m + j \in 1 .. Len(b) - l /\ l + (m + j) = z + j
      BY <1>2, <1>3, <2>2, <2>4, <2>6
    <3>2. c[m + j] = b[l + (m + j)]
      BY <1>8, <3>1
    <3>3. QED
      BY <2>6, <3>1, <3>2
  <2>9. At(c, m, x)
    BY <2>7, <2>8 DEF At
  <2>10. QED
    BY <2>5, <2>9 DEF Placed, x, m
<1>13. Ordered(to, k + 1, n + 1)
  <2>1. ASSUME NEW i \in k + 1 + 1 .. n + 1, NEW j \in i .. n + 1
        PROVE  to[i] <= to[j]
    <3>1. i \in k + 1 .. n + 1 /\ j \in k + 1 + 1 .. n + 1
      BY <1>2
    <3>2. at[i] <= at[j]
      BY <1>4, <3>1 DEF Ordered
    <3>3. at[i] = to[i] + l /\ to[i] \in Nat
      BY <1>10
    <3>4. at[j] = to[j] + l /\ to[j] \in Nat
      BY <1>10, <3>1
    <3> DEFINE x == to[i]
               y == to[j]
    <3>5. x + l <= y + l /\ x \in Nat /\ y \in Nat
      BY <3>2, <3>3, <3>4
    <3> HIDE DEF x, y
    <3>6. x <= y
      BY <1>3, <3>5
    <3>7. QED
      BY <3>6 DEF x, y
  <2>2. QED
    BY <2>1 DEF Ordered
<1>14. Marks(c, fs, k + 1, to)
  BY <1>11, <1>12, <1>13 DEF Marks, n
<1>15. Carries(c, fs, k + 1)
  <2>1. k + 1 <= n
    BY <1>2
  <2>2. QED
    BY <1>9, <1>14, <2>1 DEF Carries, n
<1>16. QED
  BY <1>6, <1>15 DEF c, l, e

\* The last frame of a stream, of which nothing is written yet, is taken back.
LEMMA CarriesFront ==
    ASSUME NEW u, IsSequence(u), NEW fs, IsSequence(fs), NEW k \in Nat, k < Len(fs),
           Framed(fs),
           Carries(u \o encode(fs[Len(fs)]), fs, k)
    PROVE  Carries(u, Front(fs), k)
<1> DEFINE n == Len(fs)
           e == encode(fs[n])
           b == u \o e
           gs == Front(fs)
<1>1. PICK at \in [Nat -> Nat] : Marks(b, fs, k, at)
  BY DEF Carries
<1>2. n \in Nat /\ k < n /\ Len(u) \in Nat /\ n \in 1 .. n
  BY DEF IsSequence
<1>3. IsSequence(e) /\ Len(e) \in Nat
  BY <1>2, Encoding DEF IsEncoding, IsSequence, Framed
<1>4. /\ at[k + 1] = 0 /\ at[n + 1] = Len(b)
      /\ \A i \in k + 1 .. n : Placed(b, fs, at, i)
      /\ Ordered(at, k, n + 1)
  BY <1>1 DEF Marks
<1>5. \A i \in Nat : at[i] \in Nat
  BY <1>1
<1>6. Len(b) = Len(u) + Len(e) /\ \A i \in 1 .. Len(u) : b[i] = u[i]
  <2>1. Halves(b, u, e)
    BY <1>3, Row
  <2>2. QED
    BY <2>1 DEF Halves
<1>7. Len(gs) = n - 1 /\ \A i \in 1 .. n - 1 : gs[i] = fs[i]
  <2>1. 1 \in Nat /\ 1 > 0 /\ n - 1 \in Nat /\ 1 <= n - 1 + 1 /\ n - 1 <= Len(fs)
    BY <1>2
  <2>2. gs = SubSeq(fs, 1, n - 1)
    BY DEF Front
  <2> HIDE DEF gs, n
  <2>3. Len(gs) = n - 1 - 1 + 1 /\ \A i \in 1 .. n - 1 - 1 + 1 : gs[i] = fs[1 + i - 1]
    BY <2>1, <2>2, Part
  <2>4. n - 1 - 1 + 1 = n - 1 /\ \A i \in 1 .. n - 1 : 1 + i - 1 = i
    BY <1>2
  <2>5. QED
    BY <2>3, <2>4
<1>8. at[n + 1] = at[n] + Len(e)
  <2>1. n \in k + 1 .. n
    BY <1>2
  <2>2. Placed(b, fs, at, n)
    BY <1>4, <2>1
  <2>3. QED
    BY <2>2 DEF Placed
<1> HIDE DEF b, e, gs, n
<1>9. at[n] = Len(u)
  <2> DEFINE x == at[n]
             w == Len(e)
  <2>1. Len(u) + w = x + w /\ x \in Nat /\ w \in Nat
    BY <1>2, <1>3, <1>4, <1>5, <1>6, <1>8
  <2> HIDE DEF x, w
  <2>2. x = Len(u)
    BY <1>2, <2>1
  <2>3. QED
    BY <2>2 DEF x
<1>10. ASSUME NEW i \in k + 1 .. n - 1
       PROVE  Placed(u, gs, at, i)
  <2> DEFINE x == encode(fs[i])
             m == at[i]
  <2>1. i \in 1 .. n /\ i \in Nat /\ i \in k + 1 .. n /\ i \in 1 .. n - 1
        /\ i + 1 \in k + 1 .. n + 1 /\ n \in i + 1 .. n + 1
    BY <1>2
  <2>2. Len(x) \in Nat
    BY <2>1, Encoding DEF IsEncoding, IsSequence, Framed, n
  <2>3. at[i + 1] = m + Len(x) /\ At(b, m, x)
    BY <1>4, <2>1 DEF Placed
  <2>4. at[i + 1] <= Len(u) /\ m \in Nat
    BY <1>4, <1>5, <1>9, <2>1 DEF Ordered
  <2> HIDE DEF x, m
  <2>5. m + Len(x) <= Len(u) /\ \A j \in 1 .. Len(x) : m + j \in 1 .. Len(u)
    BY <1>2, <2>2, <2>3, <2>4
  <2>6. \A j \in 1 .. Len(x) : b[m + j] = x[j]
    BY <2>3 DEF At
  <2>7. \A j \in 1 .. Len(x) : u[m + j] = x[j]
    BY <1>6, <2>5, <2>6
  <2>8. At(u, m, x)
    BY <2>5, <2>7 DEF At
  <2>9. gs[i] = fs[i]
    BY <1>7, <2>1
  <2>10. QED
    BY <2>3, <2>8, <2>9 DEF Placed, x, m
<1>11. Ordered(at, k, n)
  <2>1. \A i \in k + 1 .. n : \A j \in i .. n : i \in k + 1 .. n + 1 /\ j \in i .. n + 1
    BY <1>2
  <2>2. QED
    BY <1>4, <2>1 DEF Ordered
<1>12. Marks(u, gs, k, at)
  <2>1. Len(gs) = n - 1 /\ n - 1 + 1 = n
    BY <1>2, <1>7
  <2>2. QED
    BY <1>4, <1>9, <1>10, <1>11, <2>1 DEF Marks
<1>13. k <= Len(gs)
  BY <1>2, <1>7
<1>14. QED
  BY <1>1, <1>12, <1>13 DEF Carries, gs
\* Nothing behind a sequence.
LEMMA NothingMore ==
    ASSUME NEW s, IsSequence(s)
    PROVE  s \o <<>> = s
<1>1. IsSequence(<<>>) /\ Len(<<>>) = 0
  BY DEF IsSequence
<1>2. IsSequence(s \o <<>>) /\ Halves(s \o <<>>, s, <<>>)
  BY <1>1, Row
<1> DEFINE u == s \o <<>>
<1> HIDE DEF u
<1>3. Len(u) = Len(s) /\ \A i \in 1 .. Len(u) : u[i] = s[i]
  BY <1>1, <1>2 DEF Halves, IsSequence, u
<1>4. u = s
  BY <1>2, <1>3, SameElements DEF u
<1>5. QED
  BY <1>4 DEF u

\* What goes behind the second goes behind the row.
LEMMA Behind ==
    ASSUME NEW s, NEW a, NEW b, IsSequence(s), IsSequence(a), IsSequence(b)
    PROVE  s \o (a \o b) = (s \o a) \o b
<1>1. IsSequence(a \o b) /\ Halves(a \o b, a, b)
  BY Row
<1>2. QED
  BY <1>1, Recut

\* Whatever is cut off the first of two is cut off the row.
LEMMA CutFromRow ==
    ASSUME NEW c, IsSequence(c), NEW d, IsSequence(d), NEW l \in Nat, l <= Len(c)
    PROVE  /\ IsSequence(SubSeq(c, l + 1, Len(c)))
           /\ SubSeq(c, l + 1, Len(c)) \o d = SubSeq(c \o d, l + 1, Len(c \o d))
<1> DEFINE b == c \o d
           x == SubSeq(c, l + 1, Len(c))
           y == SubSeq(b, l + 1, Len(b))
           z == x \o d
<1>1. IsSequence(b) /\ Halves(b, c, d)
  BY Row
<1>2. Len(c) \in Nat /\ Len(d) \in Nat
  BY DEF IsSequence
<1>3. /\ Len(b) = Len(c) + Len(d)
      /\ \A i \in 1 .. Len(c) : b[i] = c[i]
      /\ \A i \in 1 .. Len(d) : b[Len(c) + i] = d[i]
  BY <1>1 DEF Halves
<1> HIDE DEF b
<1>4. l + 1 \in Nat /\ l + 1 > 0 /\ l + 1 <= Len(c) + 1 /\ Len(c) <= Len(c)
      /\ l + 1 <= Len(b) + 1 /\ Len(b) <= Len(b) /\ Len(b) \in Nat
  BY <1>2, <1>3
<1>5. IsSequence(x) /\ Len(x) = Len(c) - (l + 1) + 1
      /\ \A i \in 1 .. Len(c) - (l + 1) + 1 : x[i] = c[l + 1 + i - 1]
  BY <1>2, <1>4, Part
<1>6. IsSequence(y) /\ Len(y) = Len(b) - (l + 1) + 1
      /\ \A i \in 1 .. Len(b) - (l + 1) + 1 : y[i] = b[l + 1 + i - 1]
  BY <1>1, <1>4, Part
<1> HIDE DEF x, y
<1>7. IsSequence(z) /\ Halves(z, x, d)
  BY <1>5, Row
<1>8. /\ Len(z) = Len(x) + Len(d)
      /\ \A i \in 1 .. Len(x) : z[i] = x[i]
      /\ \A i \in 1 .. Len(d) : z[Len(x) + i] = d[i]
  BY <1>7 DEF Halves
<1> HIDE DEF z
<1>9. Len(x) = Len(c) - l /\ Len(y) = Len(c) - l + Len(d) /\ Len(z) = Len(y)
      /\ Len(b) - (l + 1) + 1 = Len(y)
  BY <1>2, <1>3, <1>5, <1>6, <1>8
<1>10. ASSUME NEW i \in 1 .. Len(z)
       PROVE  z[i] = y[i]
  <2>0. i \in 1 .. Len(b) - (l + 1) + 1 /\ l + 1 + i - 1 = l + i /\ i \in Nat
    BY <1>2, <1>9
  <2>1. y[i] = b[l + i]
    BY <1>6, <2>0
  <2>2. CASE i <= Len(x)
    <3>1. i \in 1 .. Len(x) /\ i \in 1 .. Len(c) - (l + 1) + 1 /\ l + i \in 1 .. Len(c)
      BY <1>2, <1>9, <2>2
    <3>2. z[i] = x[i]
      BY <1>8, <3>1
    <3>3. x[i] = c[l + i]
      BY <1>5, <2>0, <3>1
    <3>4. b[l + i] = c[l + i]
      BY <1>3, <3>1
    <3>5. QED
      BY <2>1, <3>2, <3>3, <3>4
  <2>3. CASE i > Len(x)
    <3> DEFINE j == i - Len(x)
    <3>1. j \in 1 .. Len(d) /\ i = Len(x) + j /\ l + i = Len(c) + j
      BY <1>2, <1>9, <2>3
    <3> HIDE DEF j
    <3>2. z[i] = d[j]
      BY <1>8, <3>1
    <3>3. b[l + i] = d[j]
      BY <1>3, <3>1
    <3>4. QED
      BY <2>1, <3>2, <3>3
  <2>4. QED
    BY <1>2, <1>9, <2>2, <2>3
<1>11. z = y
  BY <1>6, <1>7, <1>9, <1>10, SameElements
<1>12. QED
  BY <1>5, <1>11 DEF x, y, z, b

\* read_frame (frame.rs:163-200) of what has arrived of a stream takes the
\* next frame of it, and leaves the others.
LEMMA CutOff ==
    ASSUME NEW c, IsSequence(c), NEW d, IsSequence(d), NEW fs, Len(fs) \in Nat, Framed(fs),
           NEW k \in Nat, Carries(c \o d, fs, k), Complete(c)
    PROVE  /\ k < Len(fs)
           /\ decode(c) \in {fs[k + 1], None}
           /\ Len(fs[k + 1].addr) = 2 => decode(c) = fs[k + 1]
           /\ IsSequence(After(c)) /\ Carries(After(c) \o d, fs, k + 1)
<1> DEFINE b == c \o d
           f == fs[k + 1]
           e == encode(f)
<1>1. IsSequence(b) /\ Halves(b, c, d)
  BY Row
<1>2. Len(c) \in Nat /\ Len(d) \in Nat
  BY DEF IsSequence
<1>3. Len(b) = Len(c) + Len(d) /\ \A i \in 1 .. Len(c) : b[i] = c[i]
  BY <1>1 DEF Halves
<1>4. Len(c) >= 2 /\ Len(c) >= 2 + c[1]
  BY DEF Complete, HeaderLen
<1> HIDE DEF b
<1>5. k < Len(fs)
  <2>1. Len(b) # 0
    BY <1>2, <1>3, <1>4
  <2>2. QED
    BY <2>1, CarriesSomething DEF b
<1>6. f \in Frames /\ Regular(f)
  <2>1. k + 1 \in 1 .. Len(fs)
    BY <1>5
  <2>2. QED
    BY <2>1 DEF Framed
<1>7. At(b, 0, e) /\ Carries(SubSeq(b, Len(e) + 1, Len(b)), fs, k + 1)
  BY <1>1, <1>5, CarriesRest DEF b
<1> HIDE DEF e, f
<1>8. IsEncoding(e, f)
  BY <1>6, Encoding DEF e
<1>9. Len(f.addr) \in Nat /\ Len(f.payload) \in Nat
  BY <1>6, FrameParts
<1>10. IsSequence(e) /\ Len(e) \in Nat /\ Len(e) >= 2 /\ Len(e) = 2 + e[1] /\ e[1] \in Nat
  <2>1. /\ IsSequence(e) /\ Len(e) = 2 + Len(f.addr) + Len(f.payload)
        /\ e[1] = Len(f.addr) + Len(f.payload)
    BY <1>8 DEF IsEncoding
  <2> DEFINE m == Len(f.addr)
             n == Len(f.payload)
  <2>2. m \in Nat /\ n \in Nat /\ Len(e) = 2 + m + n /\ e[1] = m + n
    BY <1>9, <2>1
  <2> HIDE DEF m, n
  <2>3. Len(e) \in Nat /\ Len(e) >= 2 /\ Len(e) = 2 + e[1] /\ e[1] \in Nat
    BY <2>2
  <2>4. QED
    BY <2>1, <2>3
<1>11. \A i \in 1 .. Len(e) : b[i] = e[i]
  BY <1>7, <1>10 DEF At
<1>12. c[1] = e[1]
  <2>1. 1 \in 1 .. Len(c) /\ 1 \in 1 .. Len(e)
    BY <1>2, <1>4, <1>10
  <2>2. QED
    BY <1>3, <1>11, <2>1
<1>13. Len(e) <= Len(c)
  BY <1>4, <1>10, <1>12
<1>14. At(c, 0, e)
  <2>1. \A i \in 1 .. Len(e) : i \in 1 .. Len(c) /\ 0 + i = i
    BY <1>2, <1>10, <1>13
  <2>2. \A i \in 1 .. Len(e) : c[0 + i] = e[i]
    BY <1>3, <1>11, <2>1
  <2>3. 0 + Len(e) <= Len(c)
    BY <1>10, <1>13
  <2>4. QED
    BY <2>2, <2>3 DEF At
<1>15. /\ decode(c) \in {f, None} /\ (Len(f.addr) = 2 => decode(c) = f)
       /\ After(c) = SubSeq(c, Len(e) + 1, Len(c))
  BY <1>6, <1>14, Decoding DEF e
<1>16. IsSequence(SubSeq(c, Len(e) + 1, Len(c)))
       /\ SubSeq(c, Len(e) + 1, Len(c)) \o d = SubSeq(b, Len(e) + 1, Len(b))
  BY <1>10, <1>13, CutFromRow DEF b
<1>17. QED
  BY <1>5, <1>7, <1>15, <1>16 DEF f
-----------------------------------------------------------------------------
(***************************************************************************)
(* The line of senders before the writer.                                  *)
(***************************************************************************)

InLine(l, s) == \E i \in 1 .. Len(l) : l[i] = s
Leads(l, s) == Len(l) > 0 /\ l[1] = s

\* r is l without one place of s: nobody else loses its place, or the lead.
Without(r, l, s) ==
    /\ IsSequence(r)
    /\ \A t : t # s => (InLine(l, t) => InLine(r, t)) /\ (Leads(l, t) => Leads(r, t))

\* A sequence without elements.
LEMMA Nothing ==
    ASSUME NEW s, IsSequence(s), Len(s) = 0
    PROVE  s = <<>>
<1>1. IsSequence(<<>>) /\ Len(<<>>) = 0
  BY DEF IsSequence
<1>2. QED
  BY <1>1, SameElements

\* The one who holds the lock leads the line.
LEMMA HolderLeads ==
    ASSUME IsSequence(lock), NEW s, Holds(s)
    PROVE  Leads(lock, s)
<1> DEFINE S == {lock[i] : i \in 1 .. Len(lock)}
<1>0. lock \in Seq(S)
  BY DEF IsSequence
<1> HIDE DEF S
<1>1. lock # <<>> /\ lock[1] = s
  BY <1>0 DEF Holds
<1>2. Len(lock) # 0
  BY <1>1, Nothing
<1>3. Len(lock) \in Nat
  BY DEF IsSequence
<1>4. QED
  BY <1>1, <1>2, <1>3 DEF Leads

\* The head of the line leaves it.
LEMMA HeadLeaves ==
    ASSUME NEW l, IsSequence(l), NEW s, Leads(l, s)
    PROVE  Without(Tail(l), l, s)
<1> DEFINE r == Tail(l)
           S == {l[i] : i \in 1 .. Len(l)}
<1>1. l \in Seq(S) /\ Len(l) \in Nat
  BY DEF IsSequence
<1> HIDE DEF S
<1>2. Len(l) > 0 /\ l[1] = s
  BY DEF Leads
<1>3. l # <<>>
  BY <1>2
<1>4. Tail(l) \in Seq(S) /\ Len(Tail(l)) = Len(l) - 1 /\ \A i \in 1 .. Len(l) - 1 : Tail(l)[i] = l[i + 1]
  BY <1>1, <1>3
<1> HIDE DEF r
<1>5. IsSequence(r) /\ Len(r) = Len(l) - 1 /\ \A i \in 1 .. Len(l) - 1 : r[i] = l[i + 1]
  BY <1>4, Listed DEF r
<1>6. ASSUME NEW t, t # s
      PROVE  (InLine(l, t) => InLine(r, t)) /\ (Leads(l, t) => Leads(r, t))
  <2>1. ASSUME NEW i \in 1 .. Len(l), l[i] = t
        PROVE  InLine(r, t)
    <3>1. i # 1
      BY <1>2, <1>6, <2>1
    <3>2. i - 1 \in 1 .. Len(l) - 1 /\ (i - 1) + 1 = i
      BY <1>1, <3>1
    <3>3. r[i - 1] = t /\ i - 1 \in 1 .. Len(r)
      BY <1>5, <2>1, <3>2
    <3>4. QED
      BY <3>3 DEF InLine
  <2>2. ~Leads(l, t)
    BY <1>2, <1>6 DEF Leads
  <2>3. QED
    BY <2>1, <2>2 DEF InLine
<1>7. QED
  BY <1>5, <1>6 DEF Without, r

\* One leaves the line wherever it stands.
LEMMA OneLeaves ==
    ASSUME NEW l, IsSequence(l), NEW s, NEW j \in 1 .. Len(l), l[j] = s
    PROVE  Without(RemoveAt(l, j), l, s)
<1> DEFINE a == SubSeq(l, 1, j - 1)
           b == SubSeq(l, j + 1, Len(l))
           r == a \o b
           n == Len(l)
<1>1. n \in Nat /\ j \in Nat /\ 1 <= j /\ j <= n
  BY DEF IsSequence
<1>2. RemoveAt(l, j) = r
  BY DEF RemoveAt
<1>3. IsSequence(a) /\ Len(a) = j - 1 /\ \A i \in 1 .. j - 1 : a[i] = l[i]
  <2>1. 1 \in Nat /\ 1 > 0 /\ j - 1 \in Nat /\ 1 <= j - 1 + 1 /\ j - 1 <= Len(l)
    BY <1>1
  <2> HIDE DEF n
  <2>2. IsSequence(a) /\ Len(a) = j - 1 - 1 + 1 /\ \A i \in 1 .. j - 1 - 1 + 1 : a[i] = l[1 + i - 1]
    BY <2>1, Part
  <2> HIDE DEF a
  <2>3. j - 1 - 1 + 1 = j - 1 /\ \A i \in 1 .. j - 1 : 1 + i - 1 = i
    BY <1>1
  <2>4. QED
    BY <2>2, <2>3
<1>4. IsSequence(b) /\ Len(b) = n - j /\ \A i \in 1 .. n - j : b[i] = l[j + i]
  <2>1. j + 1 \in Nat /\ j + 1 > 0 /\ j + 1 <= n + 1 /\ n <= Len(l)
    BY <1>1
  <2>2. IsSequence(b) /\ Len(b) = n - (j + 1) + 1
        /\ \A i \in 1 .. n - (j + 1) + 1 : b[i] = l[j + 1 + i - 1]
    BY <1>1, <2>1, Part
  <2> HIDE DEF b, n
  <2>3. n - (j + 1) + 1 = n - j /\ \A i \in 1 .. n - j : j + 1 + i - 1 = j + i
    BY <1>1
  <2>4. QED
    BY <2>2, <2>3
<1> HIDE DEF a, b, n
<1>5. IsSequence(r) /\ Halves(r, a, b)
  BY <1>3, <1>4, Row
<1> HIDE DEF r
<1>6. /\ Len(r) = n - 1
      /\ \A i \in 1 .. j - 1 : r[i] = l[i]
      /\ \A i \in 1 .. n - j : r[j - 1 + i] = l[j + i]
  <2>1. /\ Len(r) = Len(a) + Len(b)
        /\ \A i \in 1 .. Len(a) : r[i] = a[i]
        /\ \A i \in 1 .. Len(b) : r[Len(a) + i] = b[i]
    BY <1>5 DEF Halves
  <2>2. (j - 1) + (n - j) = n - 1
    BY <1>1
  <2>3. QED
    BY <1>3, <1>4, <2>1, <2>2
<1>7. ASSUME NEW t, t # s
      PROVE  (InLine(l, t) => InLine(r, t)) /\ (Leads(l, t) => Leads(r, t))
  <2>1. ASSUME NEW i \in 1 .. n, l[i] = t
        PROVE  \E k \in 1 .. n - 1 : r[k] = t /\ (i = 1 => k = 1)
    <3>1. i # j
      BY <1>7, <2>1
    <3>2. CASE i < j
      <4>1. i \in 1 .. j - 1 /\ i \in 1 .. n - 1
        BY <1>1, <3>2
      <4>2. r[i] = t
        BY <1>6, <2>1, <4>1
      <4>3. QED
        BY <4>1, <4>2
    <3>3. CASE i > j
      <4>1. i - j \in 1 .. n - j /\ j - 1 + (i - j) = i - 1 /\ j + (i - j) = i
            /\ i - 1 \in 1 .. n - 1 /\ i # 1
        BY <1>1, <3>3
      <4>2. r[i - 1] = t
        <5>1. r[j - 1 + (i - j)] = l[j + (i - j)]
          BY <1>6, <4>1
        <5>2. QED
          BY <2>1, <4>1, <5>1
      <4>3. QED
        BY <4>1, <4>2
    <3>4. QED
      BY <1>1, <3>1, <3>2, <3>3
  <2>2. InLine(l, t) => InLine(r, t)
    BY <1>6, <2>1 DEF InLine, n
  <2>3. Leads(l, t) => Leads(r, t)
    <3>1. HAVE Leads(l, t)
    <3>2. 1 \in 1 .. n /\ l[1] = t
      BY <1>1, <3>1 DEF Leads
    <3>3. PICK k \in 1 .. n - 1 : r[k] = t /\ k = 1
      BY <2>1, <3>2
    <3>4. QED
      BY <1>1, <1>6, <3>3 DEF Leads
  <2>4. QED
    BY <2>2, <2>3
<1>8. QED
  BY <1>2, <1>5, <1>7 DEF Without

\* What a dropped sender leaves of the line.
LEMMA DroppedLeaves ==
    ASSUME IsSequence(lock), NEW s, InLine(lock, s)
    PROVE  Without(Unlocked(s), lock, s)
<1> DEFINE j == CHOOSE i \in DOMAIN lock : lock[i] = s
<1>1. DOMAIN lock = 1 .. Len(lock)
  BY DEF IsSequence
<1>2. j \in 1 .. Len(lock) /\ lock[j] = s
  BY <1>1 DEF InLine
<1> HIDE DEF j
<1>3. Without(RemoveAt(lock, j), lock, s)
  BY <1>2, OneLeaves
<1>4. QED
  BY <1>3 DEF Unlocked, j
-----------------------------------------------------------------------------
(***************************************************************************)
(* The inductive invariant.                                                *)
(***************************************************************************)

SenderStates == {"idle", "queued", "writing", "sent", "failed", "dropped"}
Sent == {Sends[s] : s \in Senders}

\* Whoever waits or writes has its place before the lock; whoever writes holds
\* the lock and has bytes left.
InItsPlace(s) ==
    /\ IsSequence(rest[s])
    /\ sender[s] \in {"queued", "writing"} => InLine(lock, s)
    /\ sender[s] = "writing" => Leads(lock, s) /\ Len(rest[s]) # 0
Line ==
    /\ sender \in [Senders -> SenderStates] /\ rest = [s \in Senders |-> rest[s]]
    /\ IsSequence(lock)
    /\ \A s \in Senders : InItsPlace(s)

\* The frame that is being written is the one begun last.
Begun ==
    /\ IsSequence(begun) /\ \A i \in 1 .. Len(begun) : begun[i] \in Sent
    /\ \A s \in Senders : sender[s] = "writing" => Len(begun) > 0 /\ begun[Len(begun)] = Sends[s]

\* The elements of r are the first ones of b.
Starts(r, b) == Len(r) <= Len(b) /\ \A i \in 1 .. Len(r) : r[i] = b[i]

\* What the writer has still to write of its frame; nothing when none writes.
LeftOf(who, left) ==
    IF \E s \in Senders : who[s] = "writing"
    THEN left[CHOOSE s \in Senders : who[s] = "writing"] ELSE <<>>
Unwritten == LeftOf(sender, rest)

\* The bytes under way to the gateway, and those still to be written, are the
\* frames begun that it has not received.
Upwards ==
    /\ IsSequence(received)
    /\ ~torn => /\ IsSequence(up) /\ Starts(received, begun)
                /\ \A s \in Senders : sender[s] = "writing" => Len(received) < Len(begun)
                /\ phase # "closed" => Carries(up \o Unwritten, begun, Len(received))

\* The bytes that the kernel holds for the reader, and those under way to it, are
\* the frames the gateway sent that it has not delivered.
Downwards ==
    /\ IsSequence(down) /\ IsSequence(inbox) /\ IsSequence(delivered) /\ IsSequence(replied)
    /\ \A i \in 1 .. Len(replied) : replied[i] \in Replies
    /\ Starts(delivered, replied)
    /\ reader = "running" => Carries(inbox \o down, replied, Len(delivered))

\* Nothing is heard, and no gateway chosen, before its time; the one chosen is the
\* only one heard.
Listening ==
    /\ IsSequence(heard)
    /\ \A i \in 1 .. Len(heard) :
          heard[i].ip \in Gateways /\ heard[i].vin = scan_vin(Announce[heard[i].ip])
    /\ phase = "start" => heard = <<>>
    /\ phase \in {"start", "listen"} => peer = None
    /\ heard # <<>> /\ peer # None => Len(heard) = 1 /\ heard[1].ip = peer

IInv == Line /\ Begun /\ Upwards /\ Downwards /\ Listening

\* Only one writes.
LEMMA OneWrites ==
    ASSUME Line, NEW s \in Senders, NEW t \in Senders, sender[s] = "writing", sender[t] = "writing"
    PROVE  s = t
BY DEF Line, InItsPlace, Leads

\* Whoever writes alone has what is left.
LEMMA LeftOfOne ==
    ASSUME NEW who, NEW left, NEW s \in Senders, who[s] = "writing",
           \A t \in Senders : who[t] = "writing" => t = s
    PROVE  LeftOf(who, left) = left[s]
BY DEF LeftOf

\* Nothing is left when none writes.
LEMMA LeftOfNone ==
    ASSUME NEW who, NEW left, \A t \in Senders : who[t] # "writing"
    PROVE  LeftOf(who, left) = <<>>
BY DEF LeftOf

\* What is left is a sequence.
LEMMA LeftIsSequence ==
    ASSUME Line
    PROVE  IsSequence(Unwritten)
<1>1. CASE \E s \in Senders : sender[s] = "writing"
  <2>1. PICK s \in Senders : sender[s] = "writing"
    BY <1>1
  <2>2. Unwritten = rest[s]
    BY <2>1, LeftOfOne, OneWrites DEF Unwritten
  <2>3. QED
    BY <2>2 DEF Line, InItsPlace
<1>2. CASE \A s \in Senders : sender[s] # "writing"
  <2>1. Unwritten = <<>>
    BY <1>2, LeftOfNone DEF Unwritten
  <2>2. QED
    BY <2>1 DEF IsSequence
<1>3. QED
  BY <1>1, <1>2

\* The frames of the senders and of the gateway.
LEMMA SentFrames ==
    ASSUME NEW f \in Sent
    PROVE  f \in Frames /\ Regular(f) /\ Len(f.addr) = 2
<1>1. PICK s \in Senders : f = Sends[s]
  BY DEF Sent
<1>2. f \in Frames /\ f.control = DIAGNOSTIC /\ Len(f.addr) = 2
  BY <1>1, FramesAssumption
<1>3. Regular(f)
  BY <1>2 DEF Regular, control_has_addrs
<1>4. QED
  BY <1>2, <1>3

\* The streams carry frames alone.
LEMMA BegunFramed ==
    ASSUME Begun
    PROVE  Framed(begun) /\ Len(begun) \in Nat
BY SentFrames DEF Begun, Framed, IsSequence

LEMMA RepliedFramed ==
    ASSUME Downwards
    PROVE  Framed(replied) /\ Len(replied) \in Nat
BY FramesAssumption DEF Downwards, Framed, IsSequence
-----------------------------------------------------------------------------
(***************************************************************************)
(* The steps.                                                              *)
(***************************************************************************)

\* What a step leaves alone.
LEMMA LineUnmoved ==
    ASSUME Line, Begun, UNCHANGED sendVars
    PROVE  Line' /\ Begun' /\ Unwritten' = Unwritten
<1>1. lock' = lock /\ sender' = sender /\ rest' = rest /\ begun' = begun
  BY DEF sendVars
<1>2. Line' /\ Begun'
  BY <1>1 DEF Line, InItsPlace, Begun
<1>3. Unwritten' = Unwritten
  BY <1>1 DEF Unwritten, LeftOf
<1>4. QED
  BY <1>2, <1>3

LEMMA UpwardsUnmoved ==
    ASSUME Upwards, UNCHANGED <<sendVars, up, received>>, Unwritten' = Unwritten,
           phase' # "closed" => phase # "closed"
    PROVE  Upwards'
BY DEF Upwards, sendVars

LEMMA DownwardsUnmoved ==
    ASSUME Downwards, UNCHANGED <<readVars, down, replied>>
    PROVE  Downwards'
BY DEF Downwards, readVars

LEMMA ListeningUnmoved ==
    ASSUME Listening, UNCHANGED <<heard, peer>>,
           phase' \in {"start", "listen"} => phase \in {"start", "listen"} /\ phase' = phase
    PROVE  Listening'
BY DEF Listening

\* The initial states.
LEMMA InitInv == Init => IInv
<1> SUFFICES ASSUME Init PROVE IInv
  OBVIOUS
<1>0. IsSequence(<<>>) /\ Len(<<>>) = 0
  BY DEF IsSequence
<1>1. sender = [s \in Senders |-> "idle"] /\ rest = [s \in Senders |-> <<>>] /\ lock = <<>>
      /\ begun = <<>>
  BY DEF Init
<1>2. \A s \in Senders : sender[s] = "idle" /\ rest[s] = <<>>
  BY <1>1
<1>3. Line
  <2>1. sender \in [Senders -> SenderStates] /\ rest = [s \in Senders |-> rest[s]]
    BY <1>1 DEF SenderStates
  <2>2. \A s \in Senders : InItsPlace(s)
    BY <1>0, <1>2 DEF InItsPlace
  <2>3. QED
    BY <1>0, <1>1, <2>1, <2>2 DEF Line
<1>4. Begun
  BY <1>0, <1>1, <1>2 DEF Begun
<1>5. Carries(<<>>, <<>>, 0)
  <2>1. Len(<<>>) = 0
    OBVIOUS
  <2>2. Carries(<<>>, <<>>, Len(<<>>))
    BY <2>1, CarriesNothing
  <2>3. QED
    BY <2>1, <2>2
<1>6. Starts(<<>>, <<>>)
  BY DEF Starts
<1>7. <<>> \o <<>> = <<>>
  BY <1>0, NothingMore
<1>8. Upwards
  <2>1. Unwritten = <<>>
    BY <1>2, LeftOfNone DEF Unwritten
  <2>2. up = <<>> /\ received = <<>>
    BY DEF Init
  <2>3. QED
    BY <1>0, <1>1, <1>2, <1>5, <1>6, <1>7, <2>1, <2>2 DEF Upwards
<1>9. Downwards
  <2>1. down = <<>> /\ inbox = <<>> /\ delivered = <<>> /\ replied = <<>>
    BY DEF Init
  <2>2. QED
    BY <1>0, <1>5, <1>6, <1>7, <2>1 DEF Downwards
<1>10. Listening
  BY <1>0 DEF Init, Listening
<1>11. QED
  BY <1>3, <1>4, <1>8, <1>9, <1>10 DEF IInv

\* Discovery and connect move no byte.
LEMMA DiscoveryInv ==
    ASSUME IInv, Probe \/ Hear \/ Chosen \/ Given \/ Connect
    PROVE  IInv'
<1>1. Line /\ Begun /\ Upwards /\ Downwards /\ Listening
  BY DEF IInv
<1>2. UNCHANGED <<sendVars, up, down, readVars, gatewayVars>> /\ phase # "closed"
  BY DEF Probe, Hear, Chosen, Given, Connect, connected
<1>3. Line' /\ Begun' /\ Unwritten' = Unwritten
  BY <1>1, <1>2, LineUnmoved
<1>4. Upwards'
  BY <1>1, <1>2, <1>3, UpwardsUnmoved DEF gatewayVars
<1>5. Downwards'
  BY <1>1, <1>2, DownwardsUnmoved DEF gatewayVars
<1>6. Listening'
  <2>1. CASE Probe
    <3>1. heard' = heard /\ peer' = peer /\ phase = "start" /\ phase' \in {"listen", "failed"}
      BY <2>1 DEF Probe, connected
    <3>2. QED
      BY <1>1, <3>1 DEF Listening
  <2>2. CASE Hear
    <3>1. PICK g \in Gateways : heard' = Append(heard, [ip |-> g, vin |-> scan_vin(Announce[g])])
      BY <2>2 DEF Hear
    <3>2. peer' = peer /\ phase' = phase /\ phase = "listen"
      BY <2>2 DEF Hear, connected
    <3>3. IsSequence(heard) /\ peer = None
          /\ \A i \in 1 .. Len(heard) :
                heard[i].ip \in Gateways /\ heard[i].vin = scan_vin(Announce[heard[i].ip])
      BY <1>1, <3>2 DEF Listening
    <3> DEFINE h == [ip |-> g, vin |-> scan_vin(Announce[g])]
    <3>4. h.ip \in Gateways /\ h.vin = scan_vin(Announce[h.ip])
      OBVIOUS
    <3> HIDE DEF h
    <3>5. /\ IsSequence(heard') /\ Len(heard') = Len(heard) + 1 /\ Len(heard) \in Nat
          /\ \A i \in 1 .. Len(heard) : heard'[i] = heard[i]
          /\ heard'[Len(heard) + 1] = h
      BY <3>1, <3>3, OneMore DEF h, IsSequence
    <3>6. ASSUME NEW i \in 1 .. Len(heard')
          PROVE  heard'[i].ip \in Gateways /\ heard'[i].vin = scan_vin(Announce[heard'[i].ip])
      <4>1. i \in 1 .. Len(heard) \/ i = Len(heard) + 1
        BY <3>5
      <4>2. QED
        BY <3>3, <3>4, <3>5, <4>1
    <3>7. QED
      BY <3>2, <3>3, <3>5, <3>6 DEF Listening
  <2>3. CASE Chosen
    <3>1. /\ heard' = heard /\ phase' \in {"connect", "failed"}
          /\ peer' = IF Len(heard) = 1 THEN heard[1].ip ELSE None
      BY <2>3 DEF Chosen
    <3>2. IsSequence(heard') /\ \A i \in 1 .. Len(heard') :
             heard'[i].ip \in Gateways /\ heard'[i].vin = scan_vin(Announce[heard'[i].ip])
      BY <1>1, <3>1 DEF Listening
    <3>3. heard' # <<>> /\ peer' # None => Len(heard') = 1 /\ heard'[1].ip = peer'
      BY <3>1
    <3>4. QED
      BY <3>1, <3>2, <3>3 DEF Listening
  <2>4. CASE Given
    BY <1>1, <2>4 DEF Given, discoveryVars, Listening
  <2>5. CASE Connect
    <3>1. heard' = <<>> /\ phase' \in {"up", "failed"}
      BY <2>5 DEF Connect
    <3>2. QED
      BY <3>1 DEF Listening, IsSequence
  <2>6. QED
    BY <2>1, <2>2, <2>3, <2>4, <2>5
<1>7. QED
  BY <1>3, <1>4, <1>5, <1>6 DEF IInv
\* A sender takes its place in the line.
LEMMA AskInv ==
    ASSUME IInv, NEW s \in Senders, Ask(s)
    PROVE  IInv'
<1>1. Line /\ Begun /\ Upwards /\ Downwards /\ Listening
  BY DEF IInv
<1>2. /\ sender[s] = "idle" /\ sender' = [sender EXCEPT ![s] = "queued"] /\ lock' = Append(lock, s)
      /\ UNCHANGED <<phase, peer, discoveryVars, rest, begun, torn, up, down, readVars, gatewayVars>>
  BY DEF Ask
<1>3. IsSequence(lock) /\ sender \in [Senders -> SenderStates] /\ rest = [t \in Senders |-> rest[t]]
      /\ Len(lock) \in Nat
  BY <1>1 DEF Line, IsSequence
<1>4. sender' \in [Senders -> SenderStates] /\ sender'[s] = "queued"
      /\ \A t \in Senders : t # s => sender'[t] = sender[t]
  BY <1>2, <1>3 DEF SenderStates
<1>5. /\ IsSequence(lock') /\ Len(lock') = Len(lock) + 1 /\ Len(lock) \in Nat
      /\ \A i \in 1 .. Len(lock) : lock'[i] = lock[i]
      /\ lock'[Len(lock) + 1] = s
  BY <1>2, <1>3, OneMore
<1>6. \A t : (InLine(lock, t) => InLine(lock', t)) /\ (Leads(lock, t) => Leads(lock', t))
  <2>1. \A i \in 1 .. Len(lock) : i \in 1 .. Len(lock')
    BY <1>5
  <2>2. Len(lock) > 0 => 1 \in 1 .. Len(lock) /\ Len(lock') > 0
    BY <1>5
  <2>3. QED
    BY <1>5, <2>1, <2>2 DEF InLine, Leads
<1>7. InLine(lock', s)
  <2>1. Len(lock) + 1 \in 1 .. Len(lock')
    BY <1>5
  <2>2. QED
    BY <1>5, <2>1 DEF InLine
<1>8. ASSUME NEW t \in Senders
      PROVE  InItsPlace(t)'
  <2>1. InItsPlace(t) /\ rest' = rest
    BY <1>1, <1>2 DEF Line
  <2>2. CASE t = s
    BY <1>4, <1>7, <2>1, <2>2 DEF InItsPlace
  <2>3. CASE t # s
    BY <1>4, <1>6, <2>1, <2>3 DEF InItsPlace
  <2>4. QED
    BY <2>2, <2>3
<1>9. Line'
  BY <1>2, <1>3, <1>4, <1>5, <1>8 DEF Line
<1>10. \A t \in Senders : sender'[t] = "writing" <=> sender[t] = "writing"
  BY <1>2, <1>4
<1>11. Begun'
  BY <1>1, <1>2, <1>10 DEF Begun
<1>12. Unwritten' = Unwritten
  BY <1>2, <1>10 DEF Unwritten, LeftOf
<1>13. Upwards'
  BY <1>1, <1>2, <1>10, <1>12 DEF Upwards, gatewayVars
<1>14. Downwards' /\ Listening'
  BY <1>1, <1>2, DownwardsUnmoved, ListeningUnmoved DEF discoveryVars, gatewayVars
<1>15. QED
  BY <1>9, <1>11, <1>13, <1>14 DEF IInv

\* A sender gets the lock and begins its frame.
LEMMA BeginInv ==
    ASSUME IInv, NEW s \in Senders, Begin(s)
    PROVE  IInv'
<1>1. Line /\ Begun /\ Upwards /\ Downwards /\ Listening
  BY DEF IInv
<1> DEFINE f == Sends[s]
           e == encode(f)
<1>2. /\ sender[s] = "queued" /\ Holds(s) /\ sender' = [sender EXCEPT ![s] = "writing"]
      /\ rest' = [rest EXCEPT ![s] = e] /\ begun' = Append(begun, f)
      /\ UNCHANGED <<phase, peer, discoveryVars, lock, torn, up, down, readVars, gatewayVars>>
  BY DEF Begin
<1>3. IsSequence(lock) /\ sender \in [Senders -> SenderStates] /\ rest = [t \in Senders |-> rest[t]]
  BY <1>1 DEF Line
<1>4. Leads(lock, s)
  BY <1>2, <1>3, HolderLeads
<1>5. \A t \in Senders : sender[t] # "writing"
  BY <1>1, <1>2, <1>4 DEF Line, InItsPlace, Leads
<1>6. sender' \in [Senders -> SenderStates] /\ sender'[s] = "writing"
      /\ \A t \in Senders : t # s => sender'[t] = sender[t]
  BY <1>2, <1>3 DEF SenderStates
<1>7. rest' = [t \in Senders |-> rest'[t]] /\ rest'[s] = e
      /\ \A t \in Senders : t # s => rest'[t] = rest[t]
  BY <1>2, <1>3
<1>8. f \in Frames /\ f \in Sent
  <2>1. f \in Sent
    BY DEF Sent
  <2>2. QED
    BY <2>1, SentFrames
<1>9. IsSequence(e) /\ Len(e) # 0
  <2>1. IsEncoding(e, f) /\ Len(f.addr) \in Nat /\ Len(f.payload) \in Nat
    BY <1>8, Encoding, FrameParts
  <2> DEFINE m == Len(f.addr)
             n == Len(f.payload)
  <2>2. IsSequence(e) /\ Len(e) = 2 + m + n /\ m \in Nat /\ n \in Nat
    BY <2>1 DEF IsEncoding
  <2> HIDE DEF m, n, e
  <2>3. QED
    BY <2>2
<1> HIDE DEF e, f
<1>10. ASSUME NEW t \in Senders
       PROVE  InItsPlace(t)'
  <2>1. InItsPlace(t) /\ lock' = lock
    BY <1>1, <1>2 DEF Line
  <2>2. CASE t = s
    BY <1>2, <1>4, <1>6, <1>7, <1>9, <2>1, <2>2 DEF InItsPlace
  <2>3. CASE t # s
    BY <1>5, <1>6, <1>7, <2>1, <2>3 DEF InItsPlace
  <2>4. QED
    BY <2>2, <2>3
<1>11. Line'
  BY <1>2, <1>3, <1>6, <1>7, <1>10 DEF Line
<1>12. \A t \in Senders : sender'[t] = "writing" => t = s
  BY <1>5, <1>6
<1>13. IsSequence(begun) /\ Len(begun) \in Nat /\ \A i \in 1 .. Len(begun) : begun[i] \in Sent
  BY <1>1 DEF Begun, IsSequence
<1>14. /\ IsSequence(begun') /\ Len(begun') = Len(begun) + 1
       /\ \A i \in 1 .. Len(begun) : begun'[i] = begun[i]
       /\ begun'[Len(begun) + 1] = f
  BY <1>2, <1>13, OneMore
<1>15. Begun'
  <2>1. ASSUME NEW i \in 1 .. Len(begun')
        PROVE  begun'[i] \in Sent
    <3>1. i \in 1 .. Len(begun) \/ i = Len(begun) + 1
      BY <1>13, <1>14
    <3>2. QED
      BY <1>8, <1>13, <1>14, <3>1
  <2>2. Len(begun') > 0 /\ begun'[Len(begun')] = f
    BY <1>13, <1>14
  <2>3. QED
    BY <1>12, <1>14, <2>1, <2>2 DEF Begun, f
<1>16. Unwritten = <<>> /\ Unwritten' = e
  <2>1. Unwritten = <<>>
    BY <1>5, LeftOfNone DEF Unwritten
  <2>2. LeftOf(sender', rest') = rest'[s]
    BY <1>6, <1>12, LeftOfOne
  <2>3. QED
    BY <1>7, <2>1, <2>2 DEF Unwritten
<1>17. Upwards'
  <2>1. IsSequence(received) /\ Len(received) \in Nat
    BY <1>1 DEF Upwards, IsSequence
  <2>2. up' = up /\ received' = received /\ torn' = torn /\ phase' = phase
    BY <1>2 DEF gatewayVars
  <2>3. ASSUME ~torn
        PROVE  /\ IsSequence(up) /\ Starts(received, begun') /\ Len(received) < Len(begun')
               /\ phase # "closed" => Carries(up \o e, begun', Len(received))
    <3>0. IsSequence(up) /\ up \o <<>> = up
      BY <1>1, <2>3, NothingMore DEF Upwards
    <3>1. Starts(received, begun) /\ (phase # "closed" => Carries(up, begun, Len(received)))
      BY <1>1, <1>16, <2>3, <3>0 DEF Upwards
    <3>2. Starts(received, begun') /\ Len(received) < Len(begun')
      BY <1>13, <1>14, <2>1, <3>1 DEF Starts
    <3>3. Framed(begun)
      BY <1>1, BegunFramed
    <3>4. phase # "closed" => Carries(up \o encode(f), Append(begun, f), Len(received))
      BY <1>8, <1>13, <2>1, <3>0, <3>1, <3>3, CarriesOneMore
    <3>5. QED
      BY <1>2, <3>0, <3>2, <3>4 DEF e
  <2>4. QED
    BY <1>16, <2>1, <2>2, <2>3 DEF Upwards
<1>18. Downwards' /\ Listening'
  BY <1>1, <1>2, DownwardsUnmoved, ListeningUnmoved DEF discoveryVars, gatewayVars
<1>19. QED
  BY <1>11, <1>15, <1>17, <1>18 DEF IInv
\* A sender that is done leaves the line.
LEMMA SenderLeaves ==
    ASSUME Line, NEW s \in Senders, sender' \in [Senders -> SenderStates],
           sender'[s] \notin {"queued", "writing"},
           \A t \in Senders : t # s => sender'[t] = sender[t] /\ rest'[t] = rest[t],
           rest' = [t \in Senders |-> rest'[t]], IsSequence(rest'[s]), Without(lock', lock, s)
    PROVE  Line'
<1>1. IsSequence(lock')
  BY DEF Without
<1>2. \A t : t # s => (InLine(lock, t) => InLine(lock', t)) /\ (Leads(lock, t) => Leads(lock', t))
  BY DEF Without
<1>3. ASSUME NEW t \in Senders
      PROVE  InItsPlace(t)'
  <2>1. InItsPlace(t)
    BY DEF Line
  <2>2. CASE t = s
    BY <2>2 DEF InItsPlace
  <2>3. CASE t # s
    BY <1>2, <2>1, <2>3 DEF InItsPlace
  <2>4. QED
    BY <2>2, <2>3
<1>4. QED
  BY <1>1, <1>3 DEF Line

\* None writes after the one that wrote.
LEMMA NoneWrites ==
    ASSUME Line, NEW s \in Senders, sender[s] = "writing", sender'[s] # "writing",
           \A t \in Senders : t # s => sender'[t] = sender[t]
    PROVE  (\A t \in Senders : sender'[t] # "writing") /\ Unwritten' = <<>>
<1>1. \A t \in Senders : sender'[t] # "writing"
  BY OneWrites
<1>2. LeftOf(sender', rest') = <<>>
  BY <1>1, LeftOfNone
<1>3. QED
  BY <1>1, <1>2 DEF Unwritten

\* Some bytes of a frame go to the socket.
LEMMA WriteSomeInv ==
    ASSUME IInv, NEW s \in Senders, WriteSome(s)
    PROVE  IInv'
<1>1. Line /\ Begun /\ Upwards /\ Downwards /\ Listening
  BY DEF IInv
<1>2. PICK n \in 1 .. Len(rest[s]) :
         /\ up' = up \o SubSeq(rest[s], 1, n)
         /\ rest' = [rest EXCEPT ![s] = SubSeq(@, n + 1, Len(@))]
  BY DEF WriteSome
<1>3. /\ sender[s] = "writing"
      /\ sender' = [sender EXCEPT ![s] = IF rest'[s] = <<>> THEN "sent" ELSE "writing"]
      /\ lock' = IF rest'[s] = <<>> THEN Tail(lock) ELSE lock
      /\ UNCHANGED <<phase, peer, discoveryVars, begun, torn, down, readVars, gatewayVars>>
  BY DEF WriteSome
<1>4. IsSequence(lock) /\ sender \in [Senders -> SenderStates] /\ rest = [t \in Senders |-> rest[t]]
      /\ InItsPlace(s)
  BY <1>1 DEF Line
<1> DEFINE u == rest[s]
           v == SubSeq(u, n + 1, Len(u))
<1>5. rest' = [t \in Senders |-> rest'[t]] /\ rest'[s] = v
      /\ \A t \in Senders : t # s => rest'[t] = rest[t]
  BY <1>2, <1>4
<1>6. IsSequence(u) /\ Leads(lock, s)
  BY <1>3, <1>4 DEF InItsPlace
<1>7. ~torn => IsSequence(up)
  BY <1>1 DEF Upwards
<1>8. IsSequence(v) /\ (~torn => IsSequence(up') /\ up' \o v = up \o u)
  <2>1. IsSequence(v)
    <3>1. IsSequence(<<>>)
      BY DEF IsSequence
    <3>2. QED
      BY <1>6, <3>1, Moved
  <2>2. ~torn => IsSequence(up') /\ up' \o v = up \o u
    BY <1>2, <1>6, <1>7, Moved
  <2>3. QED
    BY <2>1, <2>2
<1>9. \A t \in Senders : sender[t] = "writing" => t = s
  BY <1>1, <1>3, OneWrites
<1>10. Unwritten = u
  BY <1>3, <1>9, LeftOfOne DEF Unwritten
<1> HIDE DEF u, v
<1>11. Line' /\ (~torn => up' \o Unwritten' = up \o u)
       /\ \A t \in Senders : sender'[t] = "writing" => sender[t] = "writing"
  <2>1. CASE v = <<>>
    <3>1. sender' = [sender EXCEPT ![s] = "sent"] /\ lock' = Tail(lock)
      BY <1>3, <1>5, <2>1
    <3>2. sender' \in [Senders -> SenderStates] /\ sender'[s] = "sent"
          /\ \A t \in Senders : t # s => sender'[t] = sender[t]
      BY <1>4, <3>1 DEF SenderStates
    <3>3. Without(lock', lock, s)
      BY <1>4, <1>6, <3>1, HeadLeaves
    <3>4. Line'
      BY <1>1, <1>5, <1>8, <3>2, <3>3, SenderLeaves
    <3>5. (\A t \in Senders : sender'[t] # "writing") /\ Unwritten' = <<>>
      BY <1>1, <1>3, <3>2, NoneWrites
    <3>6. ~torn => up' \o Unwritten' = up \o u
      BY <1>8, <2>1, <3>5
    <3>7. QED
      BY <3>4, <3>5, <3>6
  <2>2. CASE v # <<>>
    <3>1. sender' = [sender EXCEPT ![s] = "writing"] /\ lock' = lock
      BY <1>3, <1>5, <2>2
    <3>2. sender' = sender
      BY <1>3, <1>4, <3>1
    <3>3. Len(v) # 0
      BY <1>8, <2>2, Nothing
    <3>4. ASSUME NEW t \in Senders
          PROVE  InItsPlace(t)'
      <4>1. InItsPlace(t)
        BY <1>1 DEF Line
      <4>2. CASE t = s
        BY <1>5, <1>6, <1>8, <3>1, <3>2, <3>3, <4>1, <4>2 DEF InItsPlace
      <4>3. CASE t # s
        BY <1>5, <3>1, <3>2, <4>1, <4>3 DEF InItsPlace
      <4>4. QED
        BY <4>2, <4>3
    <3>5. Line'
      BY <1>4, <1>5, <3>1, <3>2, <3>4 DEF Line
    <3>6. LeftOf(sender', rest') = rest'[s]
      <4>1. sender'[s] = "writing" /\ \A t \in Senders : sender'[t] = "writing" => t = s
        BY <1>3, <1>9, <3>2
      <4>2. QED
        BY <4>1, LeftOfOne
    <3>7. Unwritten' = v
      BY <1>5, <3>6 DEF Unwritten
    <3>8. QED
      BY <1>8, <3>2, <3>5, <3>7
  <2>3. QED
    BY <2>1, <2>2
<1>12. Begun'
  BY <1>1, <1>3, <1>11 DEF Begun
<1>13. Upwards'
  BY <1>1, <1>3, <1>8, <1>10, <1>11 DEF Upwards, gatewayVars
<1>14. Downwards' /\ Listening'
  BY <1>1, <1>3, DownwardsUnmoved, ListeningUnmoved DEF discoveryVars, gatewayVars
<1>15. QED
  BY <1>11, <1>12, <1>13, <1>14 DEF IInv

\* A write fails on the closed connection.
LEMMA WriteFailsInv ==
    ASSUME IInv, NEW s \in Senders, WriteFails(s)
    PROVE  IInv'
<1>1. Line /\ Begun /\ Upwards /\ Downwards /\ Listening
  BY DEF IInv
<1>2. /\ sender[s] = "writing" /\ phase = "closed"
      /\ sender' = [sender EXCEPT ![s] = "failed"] /\ lock' = Tail(lock)
      /\ UNCHANGED <<phase, peer, discoveryVars, rest, begun, torn, up, down, readVars, gatewayVars>>
  BY DEF WriteFails
<1>3. IsSequence(lock) /\ sender \in [Senders -> SenderStates] /\ rest = [t \in Senders |-> rest[t]]
      /\ IsSequence(rest[s]) /\ Leads(lock, s)
  BY <1>1, <1>2 DEF Line, InItsPlace
<1>4. sender' \in [Senders -> SenderStates] /\ sender'[s] = "failed"
      /\ \A t \in Senders : t # s => sender'[t] = sender[t]
  BY <1>2, <1>3 DEF SenderStates
<1>5. Without(lock', lock, s)
  BY <1>2, <1>3, HeadLeaves
<1>6. Line'
  BY <1>1, <1>2, <1>3, <1>4, <1>5, SenderLeaves
<1>7. \A t \in Senders : sender'[t] # "writing"
  BY <1>1, <1>2, <1>4, NoneWrites
<1>8. Begun' /\ Upwards'
  BY <1>1, <1>2, <1>7 DEF Begun, Upwards, gatewayVars
<1>9. Downwards' /\ Listening'
  BY <1>1, <1>2, DownwardsUnmoved, ListeningUnmoved DEF discoveryVars, gatewayVars
<1>10. QED
  BY <1>6, <1>8, <1>9 DEF IInv
\* All but the last.
LEMMA AllButLast ==
    ASSUME NEW s, IsSequence(s), Len(s) > 0
    PROVE  /\ IsSequence(Front(s)) /\ Len(Front(s)) = Len(s) - 1
           /\ \A i \in 1 .. Len(s) - 1 : Front(s)[i] = s[i]
<1> DEFINE n == Len(s) - 1
<1>1. Len(s) \in Nat
  BY DEF IsSequence
<1>2. 1 \in Nat /\ 1 > 0 /\ n \in Nat /\ 1 <= n + 1 /\ n <= Len(s)
  BY <1>1
<1> HIDE DEF n
<1>3. IsSequence(SubSeq(s, 1, n)) /\ Len(SubSeq(s, 1, n)) = n - 1 + 1
      /\ \A i \in 1 .. n - 1 + 1 : SubSeq(s, 1, n)[i] = s[1 + i - 1]
  BY <1>2, Part
<1>4. n - 1 + 1 = n /\ \A i \in 1 .. n : 1 + i - 1 = i
  BY <1>2
<1>5. IsSequence(SubSeq(s, 1, n)) /\ Len(SubSeq(s, 1, n)) = n
      /\ \A i \in 1 .. n : SubSeq(s, 1, n)[i] = s[i]
  BY <1>3, <1>4
<1>6. QED
  BY <1>5 DEF Front, n

\* A request is dropped, where it waits or in the middle of its frame.
LEMMA DropInv ==
    ASSUME IInv, NEW s \in Senders, Drop(s)
    PROVE  IInv'
<1>1. Line /\ Begun /\ Upwards /\ Downwards /\ Listening
  BY DEF IInv
<1>2. /\ sender[s] \in {"queued", "writing"} /\ sender' = [sender EXCEPT ![s] = "dropped"]
      /\ lock' = Unlocked(s)
      /\ UNCHANGED <<phase, peer, discoveryVars, rest, up, down, readVars, gatewayVars>>
  BY DEF Drop
<1>3. IsSequence(lock) /\ sender \in [Senders -> SenderStates] /\ rest = [t \in Senders |-> rest[t]]
      /\ IsSequence(rest[s]) /\ InLine(lock, s)
  BY <1>1, <1>2 DEF Line, InItsPlace
<1>4. sender' \in [Senders -> SenderStates] /\ sender'[s] = "dropped"
      /\ \A t \in Senders : t # s => sender'[t] = sender[t]
  BY <1>2, <1>3 DEF SenderStates
<1>5. Without(lock', lock, s)
  BY <1>2, <1>3, DroppedLeaves
<1>6. Line'
  BY <1>1, <1>2, <1>3, <1>4, <1>5, SenderLeaves
<1>7. up' = up /\ received' = received /\ phase' = phase
  BY <1>2 DEF gatewayVars
<1>8. Begun' /\ Upwards'
  <2>1. CASE sender[s] = "queued"
    <3>1. begun' = begun /\ (~torn' => ~torn)
      BY <2>1 DEF Drop
    <3>2. \A t \in Senders : sender'[t] = "writing" <=> sender[t] = "writing"
      BY <1>4, <2>1
    <3>3. Unwritten' = Unwritten
      BY <1>2, <3>2 DEF Unwritten, LeftOf
    <3>4. Begun'
      BY <1>1, <3>1, <3>2 DEF Begun
    <3>5. Upwards'
      BY <1>1, <1>7, <3>1, <3>2, <3>3 DEF Upwards
    <3>6. QED
      BY <3>4, <3>5
  <2>2. CASE sender[s] = "writing" /\ rest[s] # encode(Sends[s])
    <3>1. begun' = begun /\ torn'
      BY <2>2 DEF Drop
    <3>2. \A t \in Senders : sender'[t] # "writing"
      BY <1>1, <1>4, <2>2, NoneWrites
    <3>3. Begun'
      BY <1>1, <3>1, <3>2 DEF Begun
    <3>4. Upwards'
      BY <1>1, <1>7, <3>1 DEF Upwards
    <3>5. QED
      BY <3>3, <3>4
  <2>3. CASE sender[s] = "writing" /\ rest[s] = encode(Sends[s])
    <3>1. begun' = Front(begun) /\ (~torn' => ~torn)
      BY <2>3 DEF Drop
    <3>2. (\A t \in Senders : sender'[t] # "writing") /\ Unwritten' = <<>>
      BY <1>1, <1>4, <2>3, NoneWrites
    <3>3. IsSequence(begun) /\ Len(begun) > 0 /\ Len(begun) \in Nat /\ begun[Len(begun)] = Sends[s]
          /\ \A i \in 1 .. Len(begun) : begun[i] \in Sent
      BY <1>1, <2>3 DEF Begun, IsSequence
    <3>4. /\ IsSequence(begun') /\ Len(begun') = Len(begun) - 1
          /\ \A i \in 1 .. Len(begun) - 1 : begun'[i] = begun[i]
      BY <3>1, <3>3, AllButLast
    <3>5. Begun'
      <4>1. \A i \in 1 .. Len(begun) - 1 : i \in 1 .. Len(begun)
        BY <3>3
      <4>2. \A i \in 1 .. Len(begun') : begun'[i] \in Sent
        BY <3>3, <3>4, <4>1
      <4>3. QED
        BY <3>2, <3>4, <4>2 DEF Begun
    <3>6. IsSequence(received) /\ Len(received) \in Nat
      BY <1>1 DEF Upwards, IsSequence
    <3>7. ASSUME ~torn
          PROVE  /\ IsSequence(up) /\ up \o <<>> = up /\ Starts(received, begun')
                 /\ phase # "closed" => Carries(up, begun', Len(received))
      <4>0. IsSequence(up) /\ up \o <<>> = up
        BY <1>1, <3>7, NothingMore DEF Upwards
      <4>1. /\ Starts(received, begun) /\ Len(received) < Len(begun)
            /\ phase # "closed" => Carries(up \o Unwritten, begun, Len(received))
        BY <1>1, <2>3, <3>7 DEF Upwards
      <4>2. Starts(received, begun')
        <5>1. Len(received) <= Len(begun) - 1
              /\ \A i \in 1 .. Len(received) : i \in 1 .. Len(begun) - 1
          BY <3>3, <3>6, <4>1
        <5>2. \A i \in 1 .. Len(received) : received[i] = begun[i]
          BY <4>1 DEF Starts
        <5>3. QED
          BY <3>4, <5>1, <5>2 DEF Starts
      <4>3. Unwritten = encode(begun[Len(begun)])
        <5>1. \A t \in Senders : sender[t] = "writing" => t = s
          BY <1>1, <2>3, OneWrites
        <5>2. LeftOf(sender, rest) = rest[s]
          BY <2>3, <5>1, LeftOfOne
        <5>3. QED
          BY <2>3, <3>3, <5>2 DEF Unwritten
      <4>4. Framed(begun)
        BY <1>1, BegunFramed
      <4>5. phase # "closed" => Carries(up, Front(begun), Len(received))
        BY <3>3, <3>6, <4>0, <4>1, <4>3, <4>4, CarriesFront
      <4>6. QED
        BY <3>1, <4>0, <4>2, <4>5
    <3>8. Upwards'
      BY <1>7, <3>1, <3>2, <3>6, <3>7 DEF Upwards
    <3>9. QED
      BY <3>5, <3>8
  <2>4. QED
    BY <1>2, <2>1, <2>2, <2>3
<1>9. Downwards' /\ Listening'
  BY <1>1, <1>2, DownwardsUnmoved, ListeningUnmoved DEF discoveryVars, gatewayVars
<1>10. QED
  BY <1>6, <1>8, <1>9 DEF IInv

\* One more of the frames has come.
LEMMA OneMoreStarts ==
    ASSUME NEW r, IsSequence(r), NEW b, Len(b) \in Nat, Starts(r, b), Len(r) < Len(b),
           NEW x, x = b[Len(r) + 1]
    PROVE  Starts(Append(r, x), b)
<1> DEFINE q == Append(r, x)
<1>1. /\ IsSequence(q) /\ Len(q) = Len(r) + 1
      /\ \A i \in 1 .. Len(r) : q[i] = r[i]
      /\ q[Len(r) + 1] = x
  BY OneMore
<1>2. Len(r) \in Nat /\ \A i \in 1 .. Len(r) : r[i] = b[i]
  BY DEF Starts, IsSequence
<1> HIDE DEF q
<1>3. ASSUME NEW i \in 1 .. Len(q)
      PROVE  q[i] = b[i]
  <2>1. i \in 1 .. Len(r) \/ i = Len(r) + 1
    BY <1>1, <1>2
  <2>2. QED
    BY <1>1, <1>2, <2>1
<1>4. Len(q) <= Len(b)
  BY <1>1, <1>2
<1>5. QED
  BY <1>3, <1>4 DEF Starts, q

\* The gateway cuts a frame from its stream.
LEMMA GatewayReadsInv ==
    ASSUME IInv, GatewayReads
    PROVE  IInv'
<1>1. Line /\ Begun /\ Upwards /\ Downwards /\ Listening
  BY DEF IInv
<1>2. /\ Complete(up) /\ phase = "up"
      /\ up' = After(up) /\ received' = Append(received, decode(up))
      /\ UNCHANGED <<phase, peer, discoveryVars, sendVars, down, readVars, replied>>
  BY DEF GatewayReads
<1>3. Line' /\ Begun' /\ Unwritten' = Unwritten
  BY <1>1, <1>2, LineUnmoved
<1>4. Downwards' /\ Listening'
  BY <1>1, <1>2, DownwardsUnmoved, ListeningUnmoved DEF discoveryVars
<1>5. IsSequence(received) /\ Len(received) \in Nat
  BY <1>1 DEF Upwards, IsSequence
<1>6. IsSequence(received') /\ Len(received') = Len(received) + 1
  BY <1>2, <1>5, OneMore
<1> DEFINE k == Len(received)
           d == Unwritten
<1>7. ASSUME ~torn
      PROVE  /\ IsSequence(up') /\ Starts(received', begun)
             /\ \A s \in Senders : sender[s] = "writing" => k + 1 < Len(begun)
             /\ Carries(up' \o d, begun, k + 1)
  <2>1. IsSequence(up) /\ Starts(received, begun) /\ Carries(up \o d, begun, k)
    BY <1>1, <1>2, <1>7 DEF Upwards
  <2>2. IsSequence(d)
    BY <1>1, LeftIsSequence
  <2>3. Framed(begun) /\ Len(begun) \in Nat
    BY <1>1, BegunFramed
  <2> HIDE DEF k, d
  <2>4. k \in Nat
    BY <1>5 DEF k
  <2>5. /\ k < Len(begun)
        /\ Len(begun[k + 1].addr) = 2 => decode(up) = begun[k + 1]
        /\ IsSequence(After(up)) /\ Carries(After(up) \o d, begun, k + 1)
    BY <1>2, <2>1, <2>2, <2>3, <2>4, CutOff
  <2>6. decode(up) = begun[k + 1]
    <3>1. k + 1 \in 1 .. Len(begun)
      BY <2>3, <2>4, <2>5
    <3>2. begun[k + 1] \in Sent
      BY <1>1, <3>1 DEF Begun
    <3>3. QED
      BY <2>5, <3>2, SentFrames
  <2>7. Starts(received', begun)
    BY <1>2, <1>5, <2>1, <2>3, <2>5, <2>6, OneMoreStarts DEF k
  <2>8. ASSUME NEW s \in Senders, sender[s] = "writing"
        PROVE  k + 1 < Len(begun)
    <3>1. \A t \in Senders : sender[t] = "writing" => t = s
      BY <1>1, <2>8, OneWrites
    <3>2. LeftOf(sender, rest) = rest[s]
      BY <2>8, <3>1, LeftOfOne
    <3>3. Len(d) # 0 /\ Len(d) \in Nat
      BY <1>1, <2>2, <2>8, <3>2 DEF d, Unwritten, Line, InItsPlace, IsSequence
    <3> DEFINE b == After(up) \o d
    <3>4. Halves(b, After(up), d)
      BY <2>2, <2>5, Row
    <3>5. Len(b) # 0
      <4>1. Len(After(up)) \in Nat
        BY <2>5 DEF IsSequence
      <4>2. Len(b) = Len(After(up)) + Len(d)
        BY <3>4 DEF Halves
      <4>3. QED
        BY <3>3, <4>1, <4>2
    <3>6. k + 1 \in Nat /\ Carries(b, begun, k + 1)
      BY <2>4, <2>5
    <3> HIDE DEF b
    <3>7. QED
      BY <2>3, <3>5, <3>6, CarriesSomething
  <2>9. QED
    BY <1>2, <2>5, <2>7, <2>8
<1>8. torn' = torn /\ begun' = begun /\ sender' = sender
  BY <1>2 DEF sendVars
<1>9. Upwards'
  BY <1>3, <1>6, <1>7, <1>8 DEF Upwards
<1>10. QED
  BY <1>3, <1>4, <1>9 DEF IInv

\* The gateway sends a frame, whatever it likes.
LEMMA GatewaySendsInv ==
    ASSUME IInv, GatewaySends
    PROVE  IInv'
<1>1. Line /\ Begun /\ Upwards /\ Downwards /\ Listening
  BY DEF IInv
<1>2. PICK f \in Replies : down' = down \o encode(f) /\ replied' = Append(replied, f)
  BY DEF GatewaySends
<1>3. UNCHANGED <<phase, peer, discoveryVars, sendVars, up, readVars, received>>
  BY DEF GatewaySends
<1>4. Line' /\ Begun' /\ Upwards' /\ Listening'
  BY <1>1, <1>3, LineUnmoved, UpwardsUnmoved, ListeningUnmoved DEF discoveryVars
<1>5. /\ IsSequence(down) /\ IsSequence(inbox) /\ IsSequence(delivered) /\ IsSequence(replied)
      /\ Starts(delivered, replied)
  BY <1>1 DEF Downwards
<1>6. \A i \in 1 .. Len(replied) : replied[i] \in Replies
  BY <1>1 DEF Downwards
<1>7. f \in Frames
  BY FramesAssumption
<1> DEFINE e == encode(f)
<1>8. IsSequence(e)
  BY <1>7, Encoding DEF IsEncoding
<1>9. /\ IsSequence(replied') /\ Len(replied') = Len(replied) + 1
      /\ \A i \in 1 .. Len(replied) : replied'[i] = replied[i]
      /\ replied'[Len(replied) + 1] = f
  BY <1>2, <1>5, OneMore
<1> HIDE DEF e
<1>10. IsSequence(down') /\ inbox \o down' = (inbox \o down) \o e /\ IsSequence(inbox \o down)
  BY <1>2, <1>5, <1>8, Row, Behind DEF e
<1>11. Len(replied) \in Nat /\ Len(delivered) \in Nat
  BY <1>5 DEF IsSequence
<1>12. \A i \in 1 .. Len(replied') : replied'[i] \in Replies
  <2>1. TAKE i \in 1 .. Len(replied')
  <2>2. i \in 1 .. Len(replied) \/ i = Len(replied) + 1
    BY <1>9, <1>11
  <2>3. QED
    BY <1>6, <1>9, <2>2
<1>13. Starts(delivered, replied')
  BY <1>5, <1>9, <1>11 DEF Starts
<1>14. ASSUME reader = "running"
       PROVE  Carries(inbox \o down', replied', Len(delivered))
  <2>1. Carries(inbox \o down, replied, Len(delivered))
    BY <1>1, <1>14 DEF Downwards
  <2>2. Framed(replied)
    BY <1>1, RepliedFramed
  <2> DEFINE b == inbox \o down
             k == Len(delivered)
  <2>3. IsSequence(b) /\ Carries(b, replied, k) /\ k \in Nat
    BY <1>10, <1>11, <2>1
  <2> HIDE DEF b, k
  <2>4. Carries(b \o encode(f), Append(replied, f), k)
    BY <1>5, <1>7, <2>2, <2>3, CarriesOneMore
  <2>5. QED
    BY <1>2, <1>10, <2>4 DEF b, k, e
<1>15. Downwards'
  <2>1. inbox' = inbox /\ reader' = reader /\ delivered' = delivered
    BY <1>3 DEF readVars
  <2>2. QED
    BY <1>5, <1>9, <1>10, <1>12, <1>13, <1>14, <2>1 DEF Downwards
<1>16. QED
  BY <1>4, <1>15 DEF IInv

\* A segment arrives.
LEMMA SegmentInv ==
    ASSUME IInv, Segment
    PROVE  IInv'
<1>1. Line /\ Begun /\ Upwards /\ Downwards /\ Listening
  BY DEF IInv
<1>2. PICK n \in 1 .. Len(down) :
         inbox' = inbox \o SubSeq(down, 1, n) /\ down' = SubSeq(down, n + 1, Len(down))
  BY DEF Segment
<1>3. UNCHANGED <<phase, peer, discoveryVars, sendVars, up, reader, delivered, gatewayVars>>
  BY DEF Segment
<1>4. Line' /\ Begun' /\ Upwards' /\ Listening'
  BY <1>1, <1>3, LineUnmoved, UpwardsUnmoved, ListeningUnmoved DEF discoveryVars, gatewayVars
<1>5. IsSequence(down) /\ IsSequence(inbox)
  BY <1>1 DEF Downwards
<1>6. IsSequence(inbox') /\ IsSequence(down') /\ inbox' \o down' = inbox \o down
  BY <1>2, <1>5, Moved
<1>7. Downwards'
  BY <1>1, <1>3, <1>6 DEF Downwards, gatewayVars
<1>8. QED
  BY <1>4, <1>7 DEF IInv

\* The reader takes a frame, or ends on a malformed one.
LEMMA ReadFrameInv ==
    ASSUME IInv, ReadFrame
    PROVE  IInv'
<1>1. Line /\ Begun /\ Upwards /\ Downwards /\ Listening
  BY DEF IInv
<1>2. /\ reader = "running" /\ Complete(inbox) /\ inbox' = After(inbox)
      /\ IF decode(inbox) = None
         THEN reader' = "ended" /\ UNCHANGED delivered
         ELSE delivered' = Append(delivered, decode(inbox)) /\ UNCHANGED reader
      /\ UNCHANGED <<phase, peer, discoveryVars, sendVars, up, down, gatewayVars>>
  BY DEF ReadFrame
<1>3. Line' /\ Begun' /\ Upwards' /\ Listening'
  BY <1>1, <1>2, LineUnmoved, UpwardsUnmoved, ListeningUnmoved DEF discoveryVars, gatewayVars
<1>4. /\ IsSequence(down) /\ IsSequence(inbox) /\ IsSequence(delivered) /\ IsSequence(replied)
      /\ Starts(delivered, replied) /\ Carries(inbox \o down, replied, Len(delivered))
  BY <1>1, <1>2 DEF Downwards
<1>5. Framed(replied) /\ Len(replied) \in Nat
  BY <1>1, RepliedFramed
<1> DEFINE k == Len(delivered)
           x == decode(inbox)
<1>6. k \in Nat
  BY <1>4 DEF IsSequence
<1>7. /\ k < Len(replied) /\ x \in {replied[k + 1], None}
      /\ IsSequence(After(inbox)) /\ Carries(After(inbox) \o down, replied, k + 1)
  <2> HIDE DEF k
  <2>1. Carries(inbox \o down, replied, k)
    BY <1>4 DEF k
  <2>2. QED
    BY <1>2, <1>4, <1>5, <1>6, <2>1, CutOff
<1> HIDE DEF x
<1>8. down' = down /\ replied' = replied
  BY <1>2 DEF gatewayVars
<1>9. \A i \in 1 .. Len(replied) : replied[i] \in Replies
  BY <1>1 DEF Downwards
<1>10. Downwards'
  <2>1. CASE x = None
    <3>1. reader' = "ended" /\ delivered' = delivered
      BY <1>2, <2>1 DEF x
    <3>2. QED
      BY <1>2, <1>4, <1>7, <1>8, <1>9, <3>1 DEF Downwards
  <2>2. CASE x # None
    <3>1. delivered' = Append(delivered, x) /\ x = replied[k + 1]
      BY <1>2, <1>7, <2>2 DEF x
    <3>2. IsSequence(delivered') /\ Len(delivered') = k + 1
      BY <1>4, <3>1, OneMore
    <3>3. Starts(delivered', replied)
      BY <1>4, <1>5, <1>7, <3>1, OneMoreStarts
    <3>4. IsSequence(inbox') /\ Carries(inbox' \o down', replied', Len(delivered'))
      BY <1>2, <1>7, <1>8, <3>2
    <3>5. QED
      BY <1>4, <1>8, <1>9, <3>2, <3>3, <3>4 DEF Downwards
  <2>3. QED
    BY <2>1, <2>2
<1>11. QED
  BY <1>3, <1>10 DEF IInv

\* Every step keeps the invariant.
LEMMA NextInv == IInv /\ [Next]_vars => IInv'
<1> SUFFICES ASSUME IInv, [Next]_vars PROVE IInv'
  OBVIOUS
<1>1. Line /\ Begun /\ Upwards /\ Downwards /\ Listening
  BY DEF IInv
<1>2. CASE Probe \/ Hear \/ Chosen \/ Given \/ Connect
  BY <1>2, DiscoveryInv
<1>3. ASSUME NEW s \in Senders, Ask(s) \/ Write(s)
      PROVE  IInv'
  BY <1>3, AskInv, BeginInv, WriteSomeInv, WriteFailsInv DEF Write
<1>4. ASSUME NEW s \in Requests, Drop(s)
      PROVE  IInv'
  <2>1. s \in Senders
    BY FramesAssumption
  <2>2. QED
    BY <1>4, <2>1, DropInv
<1>5. CASE GatewayCloses
  <2>1. phase = "up" /\ phase' = "closed"
        /\ UNCHANGED <<peer, discoveryVars, sendVars, up, down, readVars, gatewayVars>>
    BY <1>5 DEF GatewayCloses
  <2>2. Line' /\ Begun' /\ Unwritten' = Unwritten
    BY <1>1, <2>1, LineUnmoved
  <2>3. Upwards' /\ Downwards' /\ Listening'
    BY <1>1, <2>1, <2>2, UpwardsUnmoved, DownwardsUnmoved, ListeningUnmoved
    DEF discoveryVars, gatewayVars
  <2>4. QED
    BY <2>2, <2>3 DEF IInv
<1>6. CASE ReaderEnds
  <2>1. reader' = "ended"
        /\ UNCHANGED <<phase, peer, discoveryVars, sendVars, up, down, inbox, delivered, gatewayVars>>
    BY <1>6 DEF ReaderEnds
  <2>2. Line' /\ Begun' /\ Unwritten' = Unwritten
    BY <1>1, <2>1, LineUnmoved
  <2>3. Upwards' /\ Listening'
    BY <1>1, <2>1, <2>2, UpwardsUnmoved, ListeningUnmoved DEF discoveryVars, gatewayVars
  <2>4. Downwards'
    BY <1>1, <2>1 DEF Downwards, gatewayVars
  <2>5. QED
    BY <2>2, <2>3, <2>4 DEF IInv
<1>7. CASE UNCHANGED vars
  <2>1. UNCHANGED <<phase, peer, discoveryVars, sendVars, up, down, readVars, gatewayVars>>
    BY <1>7 DEF vars, discoveryVars, sendVars, readVars, gatewayVars
  <2>2. Line' /\ Begun' /\ Unwritten' = Unwritten
    BY <1>1, <2>1, LineUnmoved
  <2>3. Upwards' /\ Downwards' /\ Listening'
    BY <1>1, <2>1, <2>2, UpwardsUnmoved, DownwardsUnmoved, ListeningUnmoved
    DEF discoveryVars, gatewayVars
  <2>4. QED
    BY <2>2, <2>3 DEF IInv
<1>8. QED
  BY <1>2, <1>3, <1>4, <1>5, <1>6, <1>7, GatewayReadsInv, GatewaySendsInv, SegmentInv, ReadFrameInv
  DEF Next

-----------------------------------------------------------------------------
(***************************************************************************)
(* What follows.                                                           *)
(***************************************************************************)

\* A sequence whose elements are the first ones of another is a prefix of it.
LEMMA StartsIsPrefix ==
    ASSUME NEW r, NEW b, IsSequence(r), IsSequence(b), Starts(r, b)
    PROVE  IsPrefix(r, b)
<1> DEFINE n == Len(r)
<1>1. n \in Nat /\ n <= Len(b) /\ Len(b) \in Nat /\ \A i \in 1 .. n : r[i] = b[i]
  BY DEF Starts, IsSequence
<1>2. At(r, 0, r) /\ At(b, 0, r)
  BY <1>1 DEF At
<1>3. 0 \in Nat
  OBVIOUS
<1>4. SubSeq(r, 0 + 1, 0 + Len(r)) = r /\ SubSeq(b, 0 + 1, 0 + Len(r)) = r
  BY <1>2, <1>3, PartIs
<1>5. 0 + 1 = 1 /\ 0 + n = n
  BY <1>1
<1>6. SubSeq(r, 1, n) = r /\ SubSeq(b, 1, n) = r
  BY <1>4, <1>5
<1>7. QED
  BY <1>1, <1>6 DEF IsPrefix

\* The invariant: the bytes under way in either direction are exactly the frames
\* written and not yet read, whatever the segments and whoever was dropped.
THEOREM WireInvariant == Spec => []IInv
BY InitInv, NextInv, PTL DEF Spec

\* Both ends cut the streams (frame.rs:163-234) at the
\* boundaries the other end wrote: each frame arrives once, whole and in order, as
\* long as no request was dropped in the middle of its own.
THEOREM FramesAreWhole == Spec => []FramesArriveWhole
<1>1. ASSUME IInv
      PROVE  FramesArriveWhole
  <2>1. Line /\ Begun /\ Upwards /\ Downwards
    BY <1>1 DEF IInv
  <2>2. ~torn => IsPrefix(received, begun)
    BY <2>1, StartsIsPrefix DEF Upwards, Begun
  <2>3. IsPrefix(delivered, replied)
    BY <2>1, StartsIsPrefix DEF Downwards
  <2>4. QED
    BY <2>2, <2>3 DEF FramesArriveWhole
<1>2. QED
  BY <1>1, WireInvariant, PTL

\* scan_vin (discover.rs) finds the VIN behind the marker.
LEMMA VinBehindMarker ==
    ASSUME NEW g \in Gateways, NEW i \in DOMAIN Announce[g], Announce[g][i] = Marker
    PROVE  scan_vin(Announce[g]) = SubSeq(Announce[g], i + 1, i + VinLen)
<1> DEFINE s == Announce[g]
           marks == {j \in 1 .. Len(s) : s[j] = Marker}
<1>1. /\ VinLen \in Nat /\ Len(s) \in Nat /\ DOMAIN s = 1 .. Len(s)
      /\ IsVinRun(s, i + 1) /\ \A j \in DOMAIN s : s[j] = Marker => j = i
  BY AnnounceAssumption
<1>2. marks = {i}
  BY <1>1
<1>3. i \in Nat /\ i + 1 # 0 /\ i + 1 + VinLen - 1 = i + VinLen
  BY <1>1
<1>4. Min({i}) = i
  BY <1>3 DEF Min
<1>5. scan_vin(s) = LET runs == {j \in 1 .. Len(s) : IsVinRun(s, j)}
                        at == IF marks # {} /\ IsVinRun(s, Min(marks) + 1) THEN Min(marks) + 1
                              ELSE IF runs # {} THEN Min(runs) ELSE 0
                    IN IF at = 0 THEN None ELSE SubSeq(s, at, at + VinLen - 1)
  BY DEF scan_vin
<1> HIDE DEF marks, s
<1>6. scan_vin(s) = IF i + 1 = 0 THEN None ELSE SubSeq(s, i + 1, i + 1 + VinLen - 1)
  BY <1>1, <1>2, <1>4, <1>5
<1>7. QED
  BY <1>3, <1>6 DEF s

\* Discovery (discover.rs) connects only to a gateway that was the only one heard,
\* and reports the VIN behind the marker.
THEOREM ConnectsToTheOnlyOne == Spec => []DiscoveryIsUnambiguous
<1>1. ASSUME IInv
      PROVE  DiscoveryIsUnambiguous
  <2> SUFFICES ASSUME heard # <<>>, peer # None
               PROVE  /\ \A h \in ToSet(heard) : h.ip = peer
                      /\ \A i \in DOMAIN Announce[peer] :
                            Announce[peer][i] = Marker =>
                                heard[1].vin = SubSeq(Announce[peer], i + 1, i + VinLen)
    BY DEF DiscoveryIsUnambiguous
  <2>1. /\ IsSequence(heard) /\ Len(heard) = 1 /\ heard[1].ip = peer
        /\ heard[1].ip \in Gateways /\ heard[1].vin = scan_vin(Announce[heard[1].ip])
    BY <1>1 DEF IInv, Listening
  <2>2. \A h \in ToSet(heard) : h.ip = peer
    BY <2>1 DEF ToSet, IsSequence
  <2>3. \A i \in DOMAIN Announce[peer] :
           Announce[peer][i] = Marker =>
               heard[1].vin = SubSeq(Announce[peer], i + 1, i + VinLen)
    BY <2>1, VinBehindMarker
  <2>4. QED
    BY <2>2, <2>3
<1>2. QED
  BY <1>1, WireInvariant, PTL

=============================================================================
