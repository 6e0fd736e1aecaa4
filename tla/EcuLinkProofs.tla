---------------------------- MODULE EcuLinkProofs ----------------------------
(***************************************************************************)
(* What a link owes: the requests an ECU has yet to answer, in the order   *)
(* they were sent.  The modules that EXTEND EcuLink cite the lemmas below  *)
(* for the steps they build from its operators.                            *)
(***************************************************************************)
EXTENDS EcuLink, SequenceTheorems, TLAPS

\* A sequence of anything.
IsSequence(s) == Len(s) \in Nat /\ s = [i \in 1 .. Len(s) |-> s[i]]

\* A request on its way to t, or whose reply is on its way back.
Owed(t, q) ==
    /\ q.target = t
    /\ q.serial \in Nat /\ synced[t] < q.serial /\ q.serial <= asked
    /\ q = open \/ Late(t)

\* What waits for an ECU and what it has sent, in the order of the requests.
InOrder(t) ==
    /\ \A i, j \in 1 .. Len(inbox[t]) : i < j => inbox[t][i].serial < inbox[t][j].serial
    /\ \A i, j \in 1 .. Len(outbox[t]) :
          i < j => outbox[t][i].cause.serial < outbox[t][j].cause.serial
    /\ \A i \in 1 .. Len(outbox[t]), j \in 1 .. Len(inbox[t]) :
          outbox[t][i].cause.serial < inbox[t][j].serial

Queues(t) ==
    /\ IsSequence(inbox[t]) /\ IsSequence(outbox[t])
    /\ \A i \in 1 .. Len(inbox[t]) : Owed(t, inbox[t][i])
    /\ \A i \in 1 .. Len(outbox[t]) : Owed(t, outbox[t][i].cause)
    /\ InOrder(t)

LinkTyped ==
    /\ asked \in Nat
    /\ synced \in [Targets -> Nat] /\ \A t \in Targets : synced[t] <= asked
    /\ inbox = [t \in Targets |-> inbox[t]] /\ outbox = [t \in Targets |-> outbox[t]]
    /\ \A q \in given_up : q.serial \in Nat

\* The request that waits is the last one sent, and no answer is left to take.
OpenIsLast ==
    open # NoRequest => /\ open.serial = asked /\ asked > 0 /\ answer = NoAnswer
                        /\ \A t \in Targets : synced[t] < asked

\* An answer is that of the request, or at least of its ECU and its service.
AnswerClaims ==
    answer # NoAnswer /\ answer.kind # "failed" =>
        /\ answer.cause.target = answer.request.target
        /\ answer.cause.sid = answer.request.sid

LinkInv ==
    /\ LinkTyped
    /\ OpenIsLast
    /\ \A t \in Targets : Queues(t)
    /\ AnswerClaims
    /\ StaleOnlySinceGivenUp

-----------------------------------------------------------------------------
(***************************************************************************)
(* Sequences of anything.                                                  *)
(***************************************************************************)

\* A member of Seq(S) is one.
LEMMA Listed ==
    ASSUME NEW S, NEW s \in Seq(S)
    PROVE  IsSequence(s)
<1>1. Len(s) \in Nat /\ s \in [1 .. Len(s) -> S]
  BY LenProperties
<1>2. QED
  BY <1>1, Zenon DEF IsSequence

\* What Append does to one.
LEMMA Appended ==
    ASSUME NEW s, IsSequence(s), NEW x
    PROVE  /\ IsSequence(Append(s, x)) /\ Len(Append(s, x)) = Len(s) + 1
           /\ \A i \in 1 .. Len(s) : Append(s, x)[i] = s[i]
           /\ Append(s, x)[Len(s) + 1] = x
<1> DEFINE S == {s[i] : i \in 1 .. Len(s)} \union {x}
<1>1. s \in Seq(S) /\ x \in S
  BY DEF IsSequence
<1> HIDE DEF S
<1>2. Append(s, x) \in Seq(S)
  BY <1>1, AppendProperties
<1>3. IsSequence(Append(s, x))
  BY <1>2, Listed
<1>4. QED
  BY <1>1, <1>3, AppendProperties

\* What Head and Tail are of one.
LEMMA Taken ==
    ASSUME NEW s, IsSequence(s), s # <<>>
    PROVE  /\ Len(s) > 0 /\ Head(s) = s[1]
           /\ IsSequence(Tail(s)) /\ Len(Tail(s)) = Len(s) - 1
           /\ \A i \in 1 .. Len(s) - 1 : Tail(s)[i] = s[i + 1]
<1> DEFINE S == {s[i] : i \in 1 .. Len(s)}
<1>1. s \in Seq(S)
  BY DEF IsSequence
<1> HIDE DEF S
<1>2. Head(s) = s[1] /\ Tail(s) \in Seq(S) /\ Len(Tail(s)) = Len(s) - 1
  BY <1>1
<1>3. \A i \in 1 .. Len(s) - 1 : Tail(s)[i] = s[i + 1]
  BY <1>1, HeadTailProperties, <1>2
<1>4. IsSequence(Tail(s))
  BY <1>2, Listed
<1>5. Len(s) > 0
  BY <1>1, EmptySeq
<1>6. QED
  BY <1>2, <1>3, <1>4, <1>5

-----------------------------------------------------------------------------
(***************************************************************************)
(* What is owed stays owed.                                                *)
(***************************************************************************)

\* A late reply stays late until the ECU's own reply arrives.
LEMMA LateKept ==
    ASSUME NEW t, given_up \subseteq given_up', synced'[t] = synced[t]
    PROVE  Late(t) => Late(t)'
BY DEF Late

\* What is owed stays owed while nothing arrives: a request that stops waiting
\* does so by being given up.
LEMMA OwedKept ==
    ASSUME NEW t, asked \in Nat, asked' \in Nat, asked <= asked', synced[t] \in Nat,
           given_up \subseteq given_up', synced'[t] = synced[t],
           open' = open \/ open = NoRequest \/ open \in given_up'
    PROVE  \A q : Owed(t, q) => Owed(t, q)'
<1> SUFFICES ASSUME NEW q, Owed(t, q)
             PROVE  Owed(t, q)'
  OBVIOUS
<1>1. q.target = t /\ q.serial \in Nat /\ synced'[t] < q.serial /\ q.serial <= asked'
  BY DEF Owed
<1>2. q = open' \/ Late(t)'
  <2>1. CASE Late(t)
    BY <2>1, LateKept
  <2>2. CASE q = open
    BY <2>2, <1>1 DEF Late, NoRequest
  <2>3. QED
    BY <2>1, <2>2 DEF Owed
<1>3. QED
  BY <1>1, <1>2 DEF Owed

\* Queues that do not change.
LEMMA QueuesKept ==
    ASSUME NEW t, Queues(t), inbox'[t] = inbox[t], outbox'[t] = outbox[t],
           \A q : Owed(t, q) => Owed(t, q)'
    PROVE  Queues(t)'
<1>1. IsSequence(inbox'[t]) /\ IsSequence(outbox'[t])
  BY DEF Queues
<1>2. \A i \in 1 .. Len(inbox'[t]) : \A q : q = inbox'[t][i] => Owed(t, q)'
  BY DEF Queues
<1>3. \A i \in 1 .. Len(outbox'[t]) : \A q : q = outbox'[t][i].cause => Owed(t, q)'
  BY DEF Queues
<1>4. InOrder(t)'
  BY DEF Queues, InOrder
<1>5. QED
  BY <1>1, <1>2, <1>3, <1>4 DEF Queues, Owed

-----------------------------------------------------------------------------
(***************************************************************************)
(* The steps of a link.                                                    *)
(***************************************************************************)

\* Nothing has been sent.
LEMMA LinkStarts ==
    ASSUME LinkInit
    PROVE  LinkInv
<1>1. LinkTyped
  BY DEF LinkInit, LinkTyped
<1>2. OpenIsLast /\ AnswerClaims /\ StaleOnlySinceGivenUp
  BY DEF LinkInit, OpenIsLast, AnswerClaims, StaleOnlySinceGivenUp
<1>3. ASSUME NEW t \in Targets
      PROVE  Queues(t)
  <2>1. inbox[t] = <<>> /\ outbox[t] = <<>>
    BY DEF LinkInit
  <2>2. <<>> \in Seq({}) /\ Len(<<>>) = 0
    BY EmptySeq
  <2>3. IsSequence(<<>>)
    BY <2>2, Listed
  <2>4. QED
    BY <2>1, <2>2, <2>3 DEF Queues, InOrder
<1>4. QED
  BY <1>1, <1>2, <1>3 DEF LinkInv

\* Steps at the caller's end of a link.
LEMMA LinkUnmoved ==
    ASSUME LinkInv, UNCHANGED <<asked, inbox, outbox, synced>>,
           given_up \subseteq given_up',
           \A q \in given_up' : q \in given_up \/ (q = open /\ open # NoRequest),
           open' = open \/ (open' = NoRequest /\ open \in given_up' \cup {NoRequest}),
           open' # NoRequest => answer' = answer,
           AnswerClaims', StaleOnlySinceGivenUp'
    PROVE  LinkInv'
<1>1. LinkTyped'
  <2>1. LinkTyped /\ (open # NoRequest => open.serial = asked)
    BY DEF LinkInv, OpenIsLast
  <2>2. \A q \in given_up' : q.serial \in Nat
    BY <2>1 DEF LinkTyped
  <2>3. QED
    BY <2>1, <2>2 DEF LinkTyped
<1>2. OpenIsLast'
  BY DEF LinkInv, OpenIsLast
<1>3. ASSUME NEW t \in Targets
      PROVE  Queues(t)'
  <2>1. \A q : Owed(t, q) => Owed(t, q)'
    BY OwedKept DEF LinkInv, LinkTyped
  <2>2. QED
    BY <2>1, QueuesKept DEF LinkInv
<1>4. QED
  BY <1>1, <1>2, <1>3 DEF LinkInv

\* No step of the link.
LEMMA LinkStutters ==
    ASSUME LinkInv, UNCHANGED linkVars
    PROVE  LinkInv'
<1>1. AnswerClaims' /\ StaleOnlySinceGivenUp'
  BY DEF LinkInv, linkVars, AnswerClaims, StaleOnlySinceGivenUp, Late
<1>2. QED
  BY <1>1, LinkUnmoved DEF linkVars

\* The caller takes the answer.
LEMMA LinkTakes ==
    ASSUME LinkInv, TakeAnswer
    PROVE  LinkInv'
<1>1. AnswerClaims' /\ StaleOnlySinceGivenUp'
  BY DEF TakeAnswer, AnswerClaims, StaleOnlySinceGivenUp
<1>2. open # NoRequest => answer = NoAnswer
  BY DEF LinkInv, OpenIsLast
<1>3. QED
  BY <1>1, <1>2, LinkUnmoved DEF TakeAnswer

\* The request fails.
LEMMA LinkGivesUp ==
    ASSUME LinkInv, GiveUp
    PROVE  LinkInv'
<1>1. AnswerClaims' /\ StaleOnlySinceGivenUp'
  BY DEF GiveUp, AnswerClaims, StaleOnlySinceGivenUp
<1>2. QED
  BY <1>1, LinkUnmoved DEF GiveUp

\* The caller drops the future.
LEMMA LinkAbandons ==
    ASSUME LinkInv, Abandon
    PROVE  LinkInv'
<1>1. AnswerClaims' /\ StaleOnlySinceGivenUp'
  BY DEF Abandon, AnswerClaims, StaleOnlySinceGivenUp
<1>2. QED
  BY <1>1, LinkUnmoved DEF Abandon

\* The caller sends a request: it is the last of its queue.
LEMMA LinkAsks ==
    ASSUME LinkInv, open = NoRequest, NEW t, NEW sid, NEW data, Ask(t, sid, data)
    PROVE  LinkInv'
<1> PICK q : q = [target |-> t, sid |-> sid, data |-> data, serial |-> asked + 1]
  OBVIOUS
<1>0. asked \in Nat /\ synced \in [Targets -> Nat] /\ \A u \in Targets : synced[u] <= asked
  BY DEF LinkInv, LinkTyped
<1>1. /\ asked' = asked + 1 /\ open' = q /\ answer' = NoAnswer
      /\ inbox' = [inbox EXCEPT ![t] = Append(@, q)]
      /\ outbox' = outbox /\ given_up' = given_up /\ synced' = synced
  BY DEF Ask
<1>2. q.target = t /\ q.serial = asked + 1 /\ q # NoRequest
  BY <1>0 DEF NoRequest
<1>3. LinkTyped'
  <2>1. inbox = [u \in Targets |-> inbox[u]] /\ outbox' = [u \in Targets |-> outbox'[u]]
    BY <1>1 DEF LinkInv, LinkTyped
  <2>2. inbox' = [u \in Targets |-> inbox'[u]]
    BY <1>1, <2>1
  <2>3. \A p \in given_up' : p.serial \in Nat
    BY <1>1 DEF LinkInv, LinkTyped
  <2>4. QED
    BY <1>0, <1>1, <2>1, <2>2, <2>3 DEF LinkTyped
<1>4. OpenIsLast' /\ AnswerClaims' /\ StaleOnlySinceGivenUp'
  BY <1>0, <1>1, <1>2 DEF OpenIsLast, AnswerClaims, StaleOnlySinceGivenUp
<1>5. ASSUME NEW u \in Targets
      PROVE  Queues(u)'
  <2>1. \A p : Owed(u, p) => Owed(u, p)'
    BY <1>0, <1>1, OwedKept
  <2>2. CASE u # t
    <3>1. inbox'[u] = inbox[u] /\ outbox'[u] = outbox[u]
      BY <1>1, <2>2 DEF LinkInv, LinkTyped
    <3>2. QED
      BY <3>1, <2>1, QueuesKept DEF LinkInv
  <2>3. CASE u = t
    <3>1. /\ inbox'[t] = Append(inbox[t], q) /\ outbox'[t] = outbox[t]
          /\ IsSequence(inbox[t]) /\ IsSequence(outbox[t])
      BY <1>1, <2>3 DEF LinkInv, LinkTyped, Queues
    <3>2. /\ IsSequence(inbox'[t]) /\ Len(inbox'[t]) = Len(inbox[t]) + 1
          /\ \A i \in 1 .. Len(inbox[t]) : inbox'[t][i] = inbox[t][i]
          /\ inbox'[t][Len(inbox[t]) + 1] = q
      BY <3>1, Appended
    <3>3. Owed(t, q)'
      BY <1>0, <1>1, <1>2, <2>3 DEF Owed
    <3>4. Len(inbox[t]) \in Nat /\ Len(outbox[t]) \in Nat
      BY <3>1 DEF IsSequence
    <3>5. /\ \A i \in 1 .. Len(inbox'[t]) : \A p : p = inbox'[t][i] => Owed(t, p)'
          /\ \A i \in 1 .. Len(outbox'[t]) : \A p : p = outbox'[t][i].cause => Owed(t, p)'
      BY <2>1, <2>3, <3>1, <3>2, <3>3, <3>4 DEF LinkInv, Queues
    <3>6. /\ \A i \in 1 .. Len(inbox[t]) : inbox[t][i].serial \in Nat /\ inbox[t][i].serial <= asked
          /\ \A i \in 1 .. Len(outbox[t]) :
                outbox[t][i].cause.serial \in Nat /\ outbox[t][i].cause.serial <= asked
      BY <2>3 DEF LinkInv, Queues, Owed
    <3>7. InOrder(t)
      BY <2>3 DEF LinkInv, Queues
    <3>8. InOrder(t)'
      <4>1. ASSUME NEW i \in 1 .. Len(inbox'[t]), NEW j \in 1 .. Len(inbox'[t]), i < j
            PROVE  inbox'[t][i].serial < inbox'[t][j].serial
        <5>1. i \in 1 .. Len(inbox[t]) /\ inbox'[t][i] = inbox[t][i]
          BY <4>1, <3>2, <3>4
        <5>2. CASE j = Len(inbox[t]) + 1
          BY <5>1, <5>2, <3>2, <3>6, <1>0, <1>2
        <5>3. CASE j # Len(inbox[t]) + 1
          <6>1. j \in 1 .. Len(inbox[t]) /\ inbox'[t][j] = inbox[t][j]
            BY <5>3, <3>2, <3>4
          <6>2. QED
            BY <4>1, <5>1, <6>1, <3>7 DEF InOrder
        <5>4. QED
          BY <5>2, <5>3
      <4>2. ASSUME NEW i \in 1 .. Len(outbox[t]), NEW j \in 1 .. Len(inbox'[t])
            PROVE  outbox[t][i].cause.serial < inbox'[t][j].serial
        <5>1. CASE j = Len(inbox[t]) + 1
          BY <5>1, <3>2, <3>6, <1>0, <1>2
        <5>2. CASE j # Len(inbox[t]) + 1
          <6>1. j \in 1 .. Len(inbox[t]) /\ inbox'[t][j] = inbox[t][j]
            BY <5>2, <3>2, <3>4
          <6>2. QED
            BY <6>1, <3>7 DEF InOrder
        <5>3. QED
          BY <5>1, <5>2
      <4>3. QED
        BY <4>1, <4>2, <3>1, <3>7 DEF InOrder
    <3>9. QED
      BY <2>3, <3>1, <3>2, <3>5, <3>8 DEF Queues, Owed
  <2>4. QED
    BY <2>2, <2>3
<1>6. QED
  BY <1>3, <1>4, <1>5 DEF LinkInv

-----------------------------------------------------------------------------

\* The ECU handles its next request, and replies or not: its reply follows those
\* of the requests before it.
LEMMA LinkHandles ==
    ASSUME LinkInv, NEW t \in Targets, Handles(t),
           (\E kind, content : Replies(t, kind, content)) \/ outbox' = outbox,
           UNCHANGED <<asked, open, answer, given_up, synced>>
    PROVE  LinkInv'
<1>0. LinkTyped
  BY DEF LinkInv
<1>1. inbox' = [inbox EXCEPT ![t] = Tail(inbox[t])] /\ inbox[t] # <<>>
  BY DEF Handles
<1>2. PICK r : outbox' = outbox \/ (outbox' = [outbox EXCEPT ![t] = Append(outbox[t], r)]
                                    /\ r.cause = Head(inbox[t]))
  <2>1. CASE outbox' = outbox
    BY <2>1
  <2>2. CASE \E kind, content : Replies(t, kind, content)
    <3>1. PICK kind, content : Replies(t, kind, content)
      BY <2>2
    <3>2. PICK r : r = [kind |-> kind, cause |-> Head(inbox[t]), content |-> content]
      OBVIOUS
    <3>3. outbox' = [outbox EXCEPT ![t] = Append(outbox[t], r)]
      BY <3>1, <3>2, Zenon DEF Replies
    <3>4. r.cause = Head(inbox[t])
      BY <3>2
    <3>5. QED
      BY <3>3, <3>4
  <2>3. QED
    BY <2>1, <2>2
<1>3. LinkTyped'
  <2>1. inbox' = [u \in Targets |-> inbox'[u]]
    BY <1>0, <1>1 DEF LinkTyped
  <2>2. outbox' = [u \in Targets |-> outbox'[u]]
    BY <1>0, <1>2 DEF LinkTyped
  <2>3. QED
    BY <1>0, <2>1, <2>2 DEF LinkTyped
<1>4. OpenIsLast' /\ AnswerClaims' /\ StaleOnlySinceGivenUp'
  BY DEF LinkInv, OpenIsLast, AnswerClaims, StaleOnlySinceGivenUp, Late
<1>5. ASSUME NEW u \in Targets
      PROVE  Queues(u)'
  <2>1. \A p : Owed(u, p) => Owed(u, p)'
    BY <1>0, OwedKept DEF LinkTyped
  <2>2. CASE u # t
    <3>1. inbox'[u] = inbox[u] /\ outbox'[u] = outbox[u]
      BY <1>0, <1>1, <1>2, <2>2 DEF LinkTyped
    <3>2. QED
      BY <3>1, <2>1, QueuesKept DEF LinkInv
  <2>3. CASE u = t
    <3> DEFINE m == Len(inbox[t])
               n == Len(outbox[t])
    <3>1. IsSequence(inbox[t]) /\ IsSequence(outbox[t]) /\ InOrder(t)
      BY <2>3 DEF LinkInv, Queues
    <3>2. /\ inbox'[t] = Tail(inbox[t])
          /\ outbox'[t] = outbox[t] \/ (outbox'[t] = Append(outbox[t], r) /\ r.cause = inbox[t][1])
      BY <1>0, <1>1, <1>2, <3>1, Taken DEF LinkTyped
    <3>3. /\ m \in Nat /\ m > 0 /\ IsSequence(inbox'[t]) /\ Len(inbox'[t]) = m - 1
          /\ \A i \in 1 .. m - 1 : inbox'[t][i] = inbox[t][i + 1]
      BY <1>1, <3>1, <3>2, Taken DEF IsSequence
    <3>4. /\ n \in Nat /\ IsSequence(outbox'[t])
          /\ \A i \in 1 .. n : outbox'[t][i] = outbox[t][i]
          /\ \/ Len(outbox'[t]) = n
             \/ /\ Len(outbox'[t]) = n + 1
                /\ outbox'[t][n + 1].cause = inbox[t][1]
      <4>1. n \in Nat
        BY <3>1 DEF IsSequence
      <4>2. CASE outbox'[t] = outbox[t]
        BY <4>1, <4>2, <3>1
      <4>3. CASE outbox'[t] = Append(outbox[t], r) /\ r.cause = inbox[t][1]
        BY <4>1, <4>3, <3>1, Appended
      <4>4. QED
        BY <3>2, <4>2, <4>3, <4>1
    <3>5. /\ \A i \in 1 .. m : Owed(t, inbox[t][i])
          /\ \A i \in 1 .. n : Owed(t, outbox[t][i].cause)
      BY <2>3 DEF LinkInv, Queues
    <3>6. \A i \in 1 .. Len(inbox'[t]) : \A p : p = inbox'[t][i] => Owed(t, p)'
      BY <2>1, <2>3, <3>3, <3>5
    <3>7. \A i \in 1 .. Len(outbox'[t]) : \A p : p = outbox'[t][i].cause => Owed(t, p)'
      <4>1. ASSUME NEW i \in 1 .. Len(outbox'[t]), i # n + 1
            PROVE  \A p : p = outbox'[t][i].cause => Owed(t, p)'
        <5>1. i \in 1 .. n
          BY <4>1, <3>4
        <5>2. QED
          BY <5>1, <2>1, <2>3, <3>4, <3>5
      <4>2. ASSUME n + 1 \in 1 .. Len(outbox'[t])
            PROVE  \A p : p = outbox'[t][n + 1].cause => Owed(t, p)'
        BY <4>2, <2>1, <2>3, <3>3, <3>4, <3>5
      <4>3. QED
        BY <4>1, <4>2
    <3>8. InOrder(t)'
      <4>1. ASSUME NEW i \in 1 .. Len(inbox'[t]), NEW j \in 1 .. Len(inbox'[t]), i < j
            PROVE  inbox'[t][i].serial < inbox'[t][j].serial
        <5>1. i + 1 \in 1 .. m /\ j + 1 \in 1 .. m /\ i + 1 < j + 1
          BY <4>1, <3>3
        <5>2. inbox'[t][i] = inbox[t][i + 1] /\ inbox'[t][j] = inbox[t][j + 1]
          BY <3>3
        <5>3. QED
          BY <3>1, <5>1, <5>2 DEF InOrder
      <4>2. ASSUME NEW i \in 1 .. Len(outbox'[t]), NEW j \in 1 .. Len(outbox'[t]), i < j
            PROVE  outbox'[t][i].cause.serial < outbox'[t][j].cause.serial
        <5>1. i \in 1 .. n /\ outbox'[t][i] = outbox[t][i]
          BY <4>2, <3>4
        <5>2. CASE j = n + 1
          BY <5>1, <5>2, <3>1, <3>3, <3>4 DEF InOrder
        <5>3. CASE j # n + 1
          BY <4>2, <5>1, <5>3, <3>1, <3>4 DEF InOrder
        <5>4. QED
          BY <5>2, <5>3
      <4>3. ASSUME NEW i \in 1 .. Len(outbox'[t]), NEW j \in 1 .. Len(inbox'[t])
            PROVE  outbox'[t][i].cause.serial < inbox'[t][j].serial
        <5>1. j + 1 \in 1 .. m /\ 1 < j + 1 /\ 1 \in 1 .. m /\ inbox'[t][j] = inbox[t][j + 1]
          BY <3>3
        <5>2. CASE i = n + 1
          BY <5>1, <5>2, <3>1, <3>4 DEF InOrder
        <5>3. CASE i # n + 1
          <6>1. i \in 1 .. Len(outbox[t]) /\ outbox'[t][i] = outbox[t][i]
            BY <4>3, <5>3, <3>4
          <6>2. outbox[t][i].cause.serial < inbox[t][j + 1].serial
            BY <5>1, <6>1, <3>1 DEF InOrder
          <6>3. QED
            BY <5>1, <6>1, <6>2
        <5>4. QED
          BY <5>2, <5>3
      <4>4. QED
        BY <4>1, <4>2, <4>3 DEF InOrder
    <3>9. QED
      BY <2>3, <3>3, <3>4, <3>6, <3>7, <3>8 DEF Queues, Owed
  <2>4. QED
    BY <2>2, <2>3
<1>6. QED
  BY <1>3, <1>4, <1>5 DEF LinkInv

-----------------------------------------------------------------------------

\* A reply leaves the queue.
LEMMA QueueMoves ==
    ASSUME NEW t, Queues(t), outbox[t] # <<>>, inbox'[t] = inbox[t],
           outbox'[t] = Tail(outbox[t]),
           \A q : (\/ \E i \in 1 .. Len(inbox[t]) : q = inbox[t][i]
                   \/ \E i \in 2 .. Len(outbox[t]) : q = outbox[t][i].cause) =>
                      Owed(t, q)'
    PROVE  Queues(t)'
<1> DEFINE n == Len(outbox[t])
<1>1. IsSequence(inbox'[t]) /\ IsSequence(outbox[t]) /\ InOrder(t)
  BY DEF Queues
<1>2. /\ n \in Nat /\ IsSequence(outbox'[t]) /\ Len(outbox'[t]) = n - 1
      /\ \A i \in 1 .. n - 1 : outbox'[t][i] = outbox[t][i + 1]
  BY <1>1, Taken DEF IsSequence
<1>3. InOrder(t)'
  BY <1>1, <1>2 DEF InOrder
<1>4. \A i \in 1 .. Len(inbox'[t]) : \A p : p = inbox'[t][i] => Owed(t, p)'
  OBVIOUS
<1>5. \A i \in 1 .. Len(outbox'[t]) : \A p : p = outbox'[t][i].cause => Owed(t, p)'
  BY <1>2
<1>6. QED
  BY <1>1, <1>2, <1>3, <1>4, <1>5 DEF Queues, Owed

\* A reply arrives.  Its own reply is the last that the ECU owes; any other that
\* is taken for it is that of a request given up, which the ECU owed until now.
LEMMA LinkDelivers ==
    ASSUME LinkInv, NEW t \in Targets, Deliver(t)
    PROVE  LinkInv'
<1>0. LinkTyped /\ Queues(t) /\ outbox[t] # <<>>
  BY DEF LinkInv, Deliver
<1> PICK reply : reply = Head(outbox[t])
  OBVIOUS
<1>1. /\ outbox' = [outbox EXCEPT ![t] = Tail(outbox[t])]
      /\ asked' = asked /\ inbox' = inbox /\ given_up' = given_up
  BY DEF Deliver, AfterUnclaimed
<1>2. \/ /\ Claims(reply)
         /\ answer' = [kind |-> reply.kind, request |-> open, cause |-> reply.cause,
                       content |-> reply.content]
         /\ open' = NoRequest
         /\ synced' = [synced EXCEPT ![t] = IF reply.cause = open THEN open.serial ELSE synced[t]]
      \/ UNCHANGED <<open, answer, synced>>
  BY DEF Deliver
<1>3. /\ reply = outbox[t][1] /\ 1 \in 1 .. Len(outbox[t]) /\ Len(outbox[t]) \in Nat
      /\ Owed(t, reply.cause)
  BY <1>0, Taken DEF Queues, IsSequence
<1>4. LinkTyped' /\ OpenIsLast'
  <2>1. outbox' = [u \in Targets |-> outbox'[u]]
    BY <1>0, <1>1 DEF LinkTyped
  <2>2. synced' \in [Targets -> Nat] /\ \A u \in Targets : synced'[u] <= asked
    <3>1. /\ asked \in Nat /\ synced \in [Targets -> Nat]
          /\ \A u \in Targets : synced[u] <= asked
          /\ open # NoRequest => open.serial = asked
      BY <1>0 DEF LinkTyped, LinkInv, OpenIsLast
    <3>2. QED
      BY <1>2, <3>1 DEF Claims
  <2>3. OpenIsLast'
    BY <1>1, <1>2 DEF LinkInv, OpenIsLast
  <2>4. QED
    BY <1>0, <1>1, <2>1, <2>2, <2>3 DEF LinkTyped
<1>5. ASSUME NEW u \in Targets, u # t
      PROVE  Queues(u)'
  <2>1. inbox'[u] = inbox[u] /\ outbox'[u] = outbox[u] /\ synced'[u] = synced[u]
    BY <1>0, <1>1, <1>2, <1>5 DEF LinkTyped
  <2>2. ASSUME NEW q, Owed(u, q)
        PROVE  Owed(u, q)'
    <3>1. q = open => open' = open
      BY <1>2, <1>3, <1>5, <2>2 DEF Owed, Claims
    <3>2. Late(u) => Late(u)'
      BY <1>1, <2>1, LateKept
    <3>3. QED
      BY <1>1, <2>1, <2>2, <3>1, <3>2 DEF Owed
  <2>3. QED
    BY <2>1, <2>2, QueuesKept DEF LinkInv
<1>6. inbox'[t] = inbox[t] /\ outbox'[t] = Tail(outbox[t])
  BY <1>0, <1>1 DEF LinkTyped
<1>7. CASE UNCHANGED <<open, answer, synced>>
  <2>1. \A q : Owed(t, q) => Owed(t, q)'
    <3>1. asked \in Nat /\ synced[t] \in Nat
      BY <1>0 DEF LinkTyped
    <3>2. open' = open /\ synced'[t] = synced[t]
      BY <1>7
    <3>3. QED
      BY <1>1, <3>1, <3>2, OwedKept
  <2>2. Queues(t)'
    <3>1. /\ \A i \in 1 .. Len(inbox[t]) : Owed(t, inbox[t][i])
          /\ \A i \in 2 .. Len(outbox[t]) : Owed(t, outbox[t][i].cause)
      BY <1>0, <1>3 DEF Queues
    <3>2. QED
      BY <1>0, <1>6, <2>1, <3>1, QueueMoves
  <2>3. AnswerClaims' /\ StaleOnlySinceGivenUp'
    BY <1>1, <1>7 DEF LinkInv, AnswerClaims, StaleOnlySinceGivenUp, Late
  <2>4. QED
    BY <1>4, <1>5, <2>2, <2>3 DEF LinkInv
<1>8. CASE /\ Claims(reply)
           /\ answer' = [kind |-> reply.kind, request |-> open, cause |-> reply.cause,
                         content |-> reply.content]
           /\ open' = NoRequest
           /\ synced' = [synced EXCEPT ![t] = IF reply.cause = open THEN open.serial ELSE synced[t]]
  <2>1. /\ open # NoRequest /\ open.target = t /\ reply.cause.target = t
        /\ reply.cause.sid = open.sid /\ open.serial = asked
    BY <1>3, <1>8 DEF Claims, Owed, LinkInv, OpenIsLast
  <2>2. AnswerClaims'
    BY <1>8, <2>1 DEF AnswerClaims
  <2>3. CASE reply.cause = open
    <3>1. \A i \in 1 .. Len(inbox[t]) : inbox[t][i].serial \in Nat /\ inbox[t][i].serial <= asked
      BY <1>0 DEF Queues, Owed
    <3>2. \A i \in 1 .. Len(outbox[t]) :
             outbox[t][i].cause.serial \in Nat /\ outbox[t][i].cause.serial <= asked
      BY <1>0 DEF Queues, Owed
    <3>3. /\ asked \in Nat /\ outbox[t][1].cause.serial = asked
          /\ InOrder(t) /\ 1 \in 1 .. Len(outbox[t])
      BY <1>0, <1>3, <2>1, <2>3 DEF Queues, LinkTyped
    <3>4. ASSUME NEW i \in 1 .. Len(inbox[t])
          PROVE  FALSE
      <4>1. outbox[t][1].cause.serial < inbox[t][i].serial
        BY <3>3 DEF InOrder
      <4>2. inbox[t][i].serial \in Nat /\ inbox[t][i].serial <= asked
        BY <3>1
      <4>3. QED
        BY <3>3, <4>1, <4>2
    <3>8. ASSUME NEW i \in 2 .. Len(outbox[t])
          PROVE  FALSE
      <4>1. i \in 1 .. Len(outbox[t]) /\ 1 < i
        BY <1>3
      <4>2. outbox[t][1].cause.serial < outbox[t][i].cause.serial
        BY <3>3, <4>1 DEF InOrder
      <4>3. outbox[t][i].cause.serial \in Nat /\ outbox[t][i].cause.serial <= asked
        BY <3>2, <4>1
      <4>4. QED
        BY <3>3, <4>2, <4>3
    <3>5. Queues(t)'
      BY <1>0, <1>6, <3>4, <3>8, QueueMoves
    <3>6. StaleOnlySinceGivenUp'
      BY <1>8, <2>3 DEF StaleOnlySinceGivenUp
    <3>7. QED
      BY <1>4, <1>5, <2>2, <3>5, <3>6 DEF LinkInv
  <2>4. CASE reply.cause # open
    <3>1. Late(t) /\ synced' = synced
      BY <1>0, <1>3, <1>8, <2>4 DEF Owed, LinkTyped
    <3>2. Late(t)'
      BY <1>1, <3>1 DEF Late
    <3>3. \A q : Owed(t, q) => Owed(t, q)'
      BY <1>1, <3>1, <3>2 DEF Owed
    <3>4. Queues(t)'
      <4>1. /\ \A i \in 1 .. Len(inbox[t]) : Owed(t, inbox[t][i])
            /\ \A i \in 2 .. Len(outbox[t]) : Owed(t, outbox[t][i].cause)
        BY <1>0, <1>3 DEF Queues
      <4>2. QED
        BY <1>0, <1>6, <3>3, <4>1, QueueMoves
    <3>5. StaleOnlySinceGivenUp'
      BY <1>8, <2>1, <3>2 DEF StaleOnlySinceGivenUp, Late
    <3>6. QED
      BY <1>4, <1>5, <2>2, <3>4, <3>5 DEF LinkInv
  <2>5. QED
    BY <2>3, <2>4
<1>9. QED
  BY <1>2, <1>7, <1>8

-----------------------------------------------------------------------------
(***************************************************************************)
(* What a caller may conclude.                                             *)
(***************************************************************************)

\* A reply that arrives is the first of its queue, and the others stay.
LEMMA Arrival ==
    ASSUME LinkInv, NEW t \in Targets, Deliver(t)
    PROVE  /\ 1 \in 1 .. Len(outbox[t]) /\ Head(outbox[t]) = outbox[t][1]
           /\ \A u \in Targets : \A i \in 1 .. Len(outbox'[u]) :
                 \E j \in 1 .. Len(outbox[u]) : outbox'[u][i] = outbox[u][j]
<1>1. /\ outbox[t] # <<>> /\ IsSequence(outbox[t])
      /\ \A u \in Targets : outbox'[u] = IF u = t THEN Tail(outbox[t]) ELSE outbox[u]
  BY DEF Deliver, AfterUnclaimed, LinkInv, LinkTyped, Queues
<1>2. /\ Len(outbox[t]) \in Nat /\ Len(outbox[t]) > 0 /\ Head(outbox[t]) = outbox[t][1]
      /\ Len(Tail(outbox[t])) = Len(outbox[t]) - 1
      /\ \A i \in 1 .. Len(outbox[t]) - 1 : Tail(outbox[t])[i] = outbox[t][i + 1]
  BY <1>1, Taken DEF IsSequence
<1>3. ASSUME NEW u \in Targets, NEW i \in 1 .. Len(outbox'[u])
      PROVE  \E j \in 1 .. Len(outbox[u]) : outbox'[u][i] = outbox[u][j]
  <2>1. CASE u = t
    <3>1. outbox'[u] = Tail(outbox[t])
      BY <1>1, <2>1
    <3>2. i \in 1 .. Len(outbox[t]) - 1
      BY <1>2, <3>1
    <3>3. i + 1 \in 1 .. Len(outbox[t]) /\ outbox'[u][i] = outbox[t][i + 1]
      BY <1>2, <3>1, <3>2
    <3>4. QED
      BY <2>1, <3>3
  <2>2. CASE u # t
    BY <1>1, <2>2
  <2>3. QED
    BY <2>1, <2>2
<1>4. QED
  BY <1>2, <1>3

\* A reply that is sent is to the first request of its queue.
LEMMA Sending ==
    ASSUME LinkInv, NEW t \in Targets, Handles(t), NEW kind, NEW content,
           Replies(t, kind, content)
    PROVE  \A u \in Targets : \A i \in 1 .. Len(outbox'[u]) :
              \/ \E j \in 1 .. Len(outbox[u]) : outbox'[u][i] = outbox[u][j]
              \/ u = t /\ outbox'[u][i].kind = kind /\ outbox'[u][i].cause = Head(inbox[t])
                       /\ outbox'[u][i].content = content
<1> PICK r : r = [kind |-> kind, cause |-> Head(inbox[t]), content |-> content]
  OBVIOUS
<1>1. outbox' = [outbox EXCEPT ![t] = Append(outbox[t], r)]
  BY Zenon DEF Replies
<1>2. /\ IsSequence(outbox[t])
      /\ \A u \in Targets : outbox'[u] = IF u = t THEN Append(outbox[t], r) ELSE outbox[u]
  BY <1>1 DEF LinkInv, LinkTyped, Queues
<1>3. /\ Len(outbox[t]) \in Nat /\ Len(Append(outbox[t], r)) = Len(outbox[t]) + 1
      /\ \A i \in 1 .. Len(outbox[t]) : Append(outbox[t], r)[i] = outbox[t][i]
      /\ Append(outbox[t], r)[Len(outbox[t]) + 1] = r
  BY <1>2, Appended DEF IsSequence
<1>4. r.kind = kind /\ r.cause = Head(inbox[t]) /\ r.content = content
  OBVIOUS
<1>5. ASSUME NEW u \in Targets, NEW i \in 1 .. Len(outbox'[u])
      PROVE  \/ \E j \in 1 .. Len(outbox[u]) : outbox'[u][i] = outbox[u][j]
             \/ u = t /\ outbox'[u][i] = r
  <2>1. CASE u # t
    BY <1>2, <2>1
  <2>2. CASE u = t
    <3>1. outbox'[u] = Append(outbox[t], r)
      BY <1>2, <2>2
    <3>2. i \in 1 .. Len(outbox[t]) \/ i = Len(outbox[t]) + 1
      BY <1>3, <3>1
    <3>3. QED
      BY <1>3, <2>2, <3>1, <3>2
  <2>3. QED
    BY <2>1, <2>2
<1>6. QED
  BY <1>4, <1>5

\* If no request was given up, nothing is on its way but the request that waits
\* or its reply, in one place only.
LEMMA NothingElse ==
    ASSUME LinkInv, given_up = {}, NEW t \in Targets
    PROVE  /\ \A i \in 1 .. Len(inbox[t]) : open # NoRequest /\ inbox[t][i] = open
           /\ \A i \in 1 .. Len(outbox[t]) : open # NoRequest /\ outbox[t][i].cause = open
           /\ \A u \in Targets : inbox[t] # <<>> => Len(outbox[u]) = 0
<1>1. \A u \in Targets : \A q : Owed(u, q) => q = open /\ q # NoRequest /\ q.target = u
  BY DEF LinkInv, LinkTyped, Owed, Late, NoRequest
<1>2. \A u \in Targets : /\ \A i \in 1 .. Len(inbox[u]) : Owed(u, inbox[u][i])
                         /\ \A i \in 1 .. Len(outbox[u]) : Owed(u, outbox[u][i].cause)
                         /\ InOrder(u) /\ IsSequence(inbox[u]) /\ IsSequence(outbox[u])
  BY DEF LinkInv, Queues
<1>3. ASSUME NEW u \in Targets, inbox[t] # <<>>
      PROVE  Len(outbox[u]) = 0
  <2>1. 1 \in 1 .. Len(inbox[t]) /\ Len(outbox[u]) \in Nat
    BY <1>2, <1>3, Taken DEF IsSequence
  <2>2. ASSUME 1 \in 1 .. Len(outbox[u])
        PROVE  FALSE
    <3>1. inbox[t][1] = open /\ outbox[u][1].cause = open /\ u = t
      BY <1>1, <1>2, <2>1, <2>2
    <3>2. open.serial < open.serial /\ open.serial \in Nat
      BY <1>2, <2>1, <2>2, <3>1 DEF InOrder, Owed
    <3>3. QED
      BY <3>2
  <2>3. QED
    BY <2>1, <2>2
<1>4. QED
  BY <1>1, <1>2, <1>3

=============================================================================
