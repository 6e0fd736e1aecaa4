----------------------- MODULE DiagnosticClientProofs -----------------------
(***************************************************************************)
(* What an operation of DiagnosticClient returns: values of the ECU asked, *)
(* and blocks that are whole.  The scripts come first, then the steps of   *)
(* the operation that runs one.                                            *)
(***************************************************************************)
EXTENDS DiagnosticClient, EcuLinkProofs, WellFoundedInduction

USE ClientAssumption

\* A script whose steps make an error or nothing of a refusal or a mismatch.
Scripted(s) ==
    /\ IsSequence(s) /\ Len(s) > 0
    /\ \A i \in 1 .. Len(s) : s[i].refusal \in {"error", "none"} /\ s[i].mismatch \in {"error", "none"}

\* A script in which every error ends the operation.
Plain(s) == Scripted(s) /\ \A i \in 1 .. Len(s) : s[i].block = Nothing

\* The steps of a block follow one another.
Contiguous(s) ==
    \A i, j, k \in 1 .. Len(s) :
        i < j /\ j < k /\ s[i].block = s[k].block /\ s[i].block # Nothing =>
            s[j].block = s[i].block

-----------------------------------------------------------------------------
(***************************************************************************)
(* The scripts.                                                            *)
(***************************************************************************)

\* One script after another.
LEMMA Joined ==
    ASSUME NEW s, IsSequence(s), NEW r, IsSequence(r)
    PROVE  /\ IsSequence(s \o r) /\ Len(s \o r) = Len(s) + Len(r)
           /\ \A i \in 1 .. Len(s) : (s \o r)[i] = s[i]
           /\ \A i \in Len(s) + 1 .. Len(s) + Len(r) : (s \o r)[i] = r[i - Len(s)]
<1> DEFINE S == {s[i] : i \in 1 .. Len(s)} \union {r[i] : i \in 1 .. Len(r)}
<1>1. s \in Seq(S) /\ r \in Seq(S)
  BY DEF IsSequence
<1> HIDE DEF S
<1>2. s \o r \in Seq(S)
  BY <1>1, ConcatProperties
<1>3. IsSequence(s \o r)
  BY <1>2, Listed
<1>4. QED
  BY <1>1, <1>3, ConcatProperties

\* Plain scripts in sequence are plain.
LEMMA PlainJoined ==
    ASSUME NEW s, Plain(s), NEW r, Plain(r)
    PROVE  Plain(s \o r)
<1>1. /\ IsSequence(s \o r) /\ Len(s \o r) = Len(s) + Len(r)
      /\ \A i \in 1 .. Len(s) : (s \o r)[i] = s[i]
      /\ \A i \in Len(s) + 1 .. Len(s) + Len(r) : (s \o r)[i] = r[i - Len(s)]
  BY Joined DEF Plain, Scripted
<1>2. Len(s) \in Nat /\ Len(r) \in Nat /\ Len(s) > 0
  BY DEF Plain, Scripted, IsSequence
<1>3. ASSUME NEW i \in 1 .. Len(s \o r)
      PROVE  \/ \E k \in 1 .. Len(s) : (s \o r)[i] = s[k]
             \/ \E k \in 1 .. Len(r) : (s \o r)[i] = r[k]
  <2>1. CASE i \in 1 .. Len(s)
    BY <1>1, <2>1
  <2>2. CASE i \in Len(s) + 1 .. Len(s) + Len(r)
    BY <1>1, <1>2, <2>2
  <2>3. QED
    BY <1>1, <1>2, <2>1, <2>2
<1>4. QED
  BY <1>1, <1>2, <1>3 DEF Plain, Scripted

\* A script of one step.
LEMMA OneStep ==
    ASSUME NEW x, x.refusal \in {"error", "none"}, x.mismatch \in {"error", "none"},
           x.block = Nothing
    PROVE  Plain(<<x>>)
<1>1. <<x>> \in Seq({x}) /\ Len(<<x>>) = 1 /\ <<x>>[1] = x
  OBVIOUS
<1>2. IsSequence(<<x>>)
  BY <1>1, Listed
<1>3. QED
  BY <1>1, <1>2 DEF Plain, Scripted

\* What Step makes is such a step.
LEMMA StepMade ==
    ASSUME NEW t, NEW sid, NEW data, NEW refusal \in {"error", "none"}, NEW compare,
           NEW mismatch \in {"error", "none"}
    PROVE  Plain(<<Step(t, sid, data, refusal, compare, mismatch)>>)
BY OneStep DEF Step

\* The scripts with one error for the whole operation.
LEMMA PlainScripts ==
    /\ \A t, did : Plain(read_did(t, did)) /\ Plain(read_optional(t, did))
    /\ \A t, did : Plain(MayRefuse(read_did(t, did)))
    /\ \A t : Plain(read_dtcs(t)) /\ Plain(enter_session(t)) /\ Plain(tester_present(t))
    /\ \A t, sid, data : Plain(write_after_session(t, sid, data))
    /\ \A t : Plain(reset_cbs(t)) /\ Plain(read_dynamic_measurement(t))
    /\ \A t, dtc : Plain(read_fault_detail(t, dtc))
    /\ \A t : Plain(read_ecu_identification(t))
<1>1. \A t, did : Plain(read_did(t, did)) /\ Plain(read_optional(t, did))
  BY StepMade DEF read_did, read_optional
<1>2. \A t, did : Plain(MayRefuse(read_did(t, did)))
  BY OneStep DEF MayRefuse, read_did, Step
<1>3. \A t : Plain(read_dtcs(t)) /\ Plain(enter_session(t)) /\ Plain(tester_present(t))
  BY StepMade DEF read_dtcs, enter_session, tester_present
<1>4. \A t, sid, data : Plain(write_after_session(t, sid, data))
  BY <1>3, StepMade, PlainJoined DEF write_after_session
<1>5. \A t : Plain(reset_cbs(t))
  BY <1>4, StepMade, PlainJoined DEF reset_cbs
<1>6. ASSUME NEW t
      PROVE  Plain(read_dynamic_measurement(t))
  <2> DEFINE s == read_dynamic_measurement(t)
             S == {s[1], s[2], s[3]}
  <2>1. Len(s) = 3 /\ s \in Seq(S)
    BY DEF read_dynamic_measurement
  <2>2. \A i \in 1 .. 3 : /\ s[i].refusal = "error" /\ s[i].mismatch = "error"
                          /\ s[i].block = Nothing
    BY DEF read_dynamic_measurement, Step
  <2> HIDE DEF s
  <2>3. QED
    BY <2>1, <2>2, Listed DEF Plain, Scripted, s
<1>7. ASSUME NEW t, NEW dtc
      PROVE  Plain(read_fault_detail(t, dtc))
  <2> DEFINE s == read_fault_detail(t, dtc)
             S == {s[i] : i \in 1 .. 3}
  <2>1. Len(s) = 3 /\ s \in Seq(S)
    BY DEF read_fault_detail
  <2>2. \A i \in 1 .. 3 : /\ s[i].refusal = "none" /\ s[i].mismatch = "error"
                          /\ s[i].block = Nothing
    BY DEF read_fault_detail, Step
  <2> HIDE DEF s
  <2>3. QED
    BY <2>1, <2>2, Listed DEF Plain, Scripted, s
<1>8. ASSUME NEW t
      PROVE  Plain(read_ecu_identification(t))
  <2> DEFINE s == read_ecu_identification(t)
             n == Len(IdentificationDids)
             S == {s[i] : i \in 1 .. n}
  <2>1. Len(s) = n /\ s \in Seq(S)
    BY DEF read_ecu_identification
  <2>2. \A i \in 1 .. n : /\ s[i].refusal = "none" /\ s[i].mismatch = "none"
                          /\ s[i].block = Nothing
    BY DEF read_ecu_identification, Step
  <2> HIDE DEF s
  <2>3. QED
    BY <2>1, <2>2, Listed DEF Plain, Scripted, s
<1>9. QED
  BY <1>1, <1>2, <1>3, <1>4, <1>5, <1>6, <1>7, <1>8

-----------------------------------------------------------------------------

\* Of two places in the list of a vehicle's blocks, the later is in no earlier
\* block.
LEMMA Divided ==
    ASSUME NEW n \in Nat \ {0}, NEW a \in Nat, NEW b \in Nat, a <= b
    PROVE  a \div n \in Nat /\ b \div n \in Nat /\ a \div n <= b \div n
OBVIOUS

\* The blocks of a vehicle are those of its ECUs in turn.
LEMMA BlocksInTurn ==
    LET s == IdentificationBlocks
    IN  /\ IsSequence(s)
        /\ \A i \in 1 .. Len(s) : /\ s[i].refusal \in {"error", "none"}
                                  /\ s[i].mismatch \in {"error", "none"}
                                  /\ s[i].block \in Nat
        /\ \A i, j \in 1 .. Len(s) : i <= j => s[i].block <= s[j].block
<1> DEFINE s == IdentificationBlocks
           n == Len(IdentificationDids)
           len == Len(Installed) * n
           S == {s[i] : i \in 1 .. len}
<1>1. n \in Nat \ {0} /\ len \in Nat
  OBVIOUS
<1>2. Len(s) = len /\ DOMAIN s = 1 .. len /\ s \in Seq(S)
  <2>1. s = [i \in 1 .. len |-> s[i]]
    BY Zenon DEF IdentificationBlocks
  <2> HIDE DEF s, len
  <2>2. QED
    BY <1>1, <2>1
<1>3. ASSUME NEW i \in 1 .. len
      PROVE  /\ s[i].refusal = "none" /\ s[i].mismatch = "none"
             /\ s[i].block = ((i - 1) \div n) + 1 /\ (i - 1) \div n \in Nat
  <2>1. (i - 1) % n \in 0 .. n - 1 /\ (i - 1) \div n \in Nat
    BY <1>1
  <2>2. s[i] = [read_ecu_identification(Installed[((i - 1) \div n) + 1])[((i - 1) % n) + 1]
                  EXCEPT !.block = ((i - 1) \div n) + 1]
    BY <1>1, <1>2, Zenon DEF IdentificationBlocks
  <2>3. ((i - 1) % n) + 1 \in DOMAIN IdentificationDids
    BY <2>1, <1>1
  <2>4. QED
    BY <2>1, <2>2, <2>3 DEF read_ecu_identification, Step
<1>4. \A i, j \in 1 .. len : i <= j => s[i].block <= s[j].block
  <2>1. SUFFICES ASSUME NEW i \in 1 .. len, NEW j \in 1 .. len, i <= j
                 PROVE  s[i].block <= s[j].block
    OBVIOUS
  <2>2. i - 1 \in Nat /\ j - 1 \in Nat /\ i - 1 <= j - 1
    BY <1>1, <2>1
  <2>3. (i - 1) \div n <= (j - 1) \div n
    BY <1>1, <2>2, Divided
  <2>4. QED
    BY <1>3, <2>3
<1>5. IsSequence(s)
  BY <1>2, Listed
<1>6. \A i \in 1 .. len : s[i].block \in Nat
  BY <1>3
<1> HIDE DEF s, len
<1>7. QED
  BY <1>2, <1>3, <1>4, <1>5, <1>6 DEF s

-----------------------------------------------------------------------------

\* Its blocks follow one another, and what comes before them has none.
LEMMA VehicleIsContiguous ==
    Scripted(identify_vehicle) /\ Contiguous(identify_vehicle)
<1> DEFINE head == read_ecu_list \o MayRefuse(read_did(Gateway, "vin")) \o read_i_stufe_levels
                     \o MayRefuse(read_vehicle_order)
           s == head \o IdentificationBlocks
           m == Len(head)
           n == Len(IdentificationBlocks)
<1>1. Plain(head)
  BY PlainScripts, PlainJoined DEF read_ecu_list, read_i_stufe_levels, read_vehicle_order
<1>2. identify_vehicle = s
  BY DEF identify_vehicle
<1> HIDE DEF head
<1>3. /\ IsSequence(s) /\ Len(s) = m + n
      /\ \A i \in 1 .. m : s[i] = head[i]
      /\ \A i \in m + 1 .. m + n : s[i] = IdentificationBlocks[i - m]
  BY <1>1, BlocksInTurn, Joined DEF Plain, Scripted
<1>4. m \in Nat /\ m > 0 /\ n \in Nat
  BY <1>1, BlocksInTurn DEF Plain, Scripted, IsSequence
<1> HIDE DEF s, m, n
<1>5. ASSUME NEW i \in 1 .. Len(s)
      PROVE  \/ /\ i <= m /\ i \in 1 .. m
             \/ /\ i > m /\ i \in m + 1 .. m + n /\ i - m \in 1 .. n
  BY <1>3, <1>4
<1>6. ASSUME NEW i \in 1 .. m
      PROVE  /\ s[i].block = Nothing
             /\ s[i].refusal \in {"error", "none"} /\ s[i].mismatch \in {"error", "none"}
  BY <1>1, <1>3 DEF Plain, Scripted, m
<1>7. ASSUME NEW i \in m + 1 .. m + n
      PROVE  /\ s[i].block = IdentificationBlocks[i - m].block /\ s[i].block \in Nat
             /\ s[i].refusal \in {"error", "none"} /\ s[i].mismatch \in {"error", "none"}
  <2>1. i - m \in 1 .. n
    BY <1>4
  <2>2. QED
    BY <1>3, <2>1, BlocksInTurn DEF n
<1>8. Scripted(s)
  BY <1>3, <1>4, <1>5, <1>6, <1>7 DEF Scripted
<1>9. Contiguous(s)
  <2> SUFFICES ASSUME NEW i \in 1 .. Len(s), NEW j \in 1 .. Len(s), NEW k \in 1 .. Len(s),
                      i < j, j < k, s[i].block = s[k].block, s[i].block # Nothing
               PROVE  s[j].block = s[i].block
    BY DEF Contiguous
  <2>1. i \in m + 1 .. m + n /\ j \in m + 1 .. m + n /\ k \in m + 1 .. m + n
    BY <1>3, <1>4, <1>5, <1>6
  <2>2. /\ i - m \in 1 .. n /\ j - m \in 1 .. n /\ k - m \in 1 .. n
        /\ i - m <= j - m /\ j - m <= k - m
    BY <1>4, <2>1
  <2>3. s[i].block <= s[j].block /\ s[j].block <= s[k].block
    BY <1>7, <2>1, <2>2, BlocksInTurn DEF n
  <2>4. QED
    BY <1>7, <2>1, <2>3
<1>10. QED
  BY <1>2, <1>8, <1>9, Zenon

\* Every operation's script.
LEMMA ScriptsAre ==
    ASSUME NEW o \in Operations
    PROVE  Scripted(Script(o)) /\ Contiguous(Script(o))
<1> DEFINE s == Script(o)
<1>1. \A r : Plain(r) => Scripted(r) /\ Contiguous(r)
  BY DEF Plain, Contiguous
<1>2. CASE o.name = "read_did"
  BY <1>1, <1>2, PlainScripts DEF Script
<1>3. CASE o.name = "read_dtcs"
  BY <1>1, <1>3, PlainScripts DEF Script
<1>4. CASE o.name = "read_fault_detail"
  BY <1>1, <1>4, PlainScripts DEF Script
<1>5. CASE o.name = "read_info_memory"
  BY <1>1, <1>5, PlainScripts DEF Script, read_info_memory
<1>6. CASE o.name = "read_ecu_list"
  BY <1>1, <1>6, PlainScripts DEF Script, read_ecu_list
<1>7. CASE o.name = "read_responding_ecu_list"
  BY <1>1, <1>7, PlainScripts DEF Script, read_responding_ecu_list
<1>8. CASE o.name = "read_ecu_identification"
  BY <1>1, <1>8, PlainScripts DEF Script
<1>9. CASE o.name = "identify_vehicle"
  BY <1>9, VehicleIsContiguous DEF Script
<1>10. CASE o.name \in {"clear_dtcs", "ecu_reset", "run_service_reset"}
  BY <1>1, <1>10, PlainScripts DEF Script
<1>11. CASE o.name = "tester_present"
  BY <1>1, <1>11, PlainScripts DEF Script
<1>12. CASE o.name = "reset_cbs"
  BY <1>1, <1>12, PlainScripts DEF Script
<1>13. CASE o.name = "read_dynamic_measurement"
  BY <1>1, <1>13, PlainScripts DEF Script
<1>14. QED
  BY <1>2, <1>3, <1>4, <1>5, <1>6, <1>7, <1>8, <1>9, <1>10, <1>11, <1>12, <1>13 DEF Names

-----------------------------------------------------------------------------

\* The next step to do is the first of those still to do.
LEMMA LeastIsFirst ==
    ASSUME NEW S \in SUBSET Nat, S # {}
    PROVE  Least(S) \in S /\ \A i \in S : Least(S) <= i
<1>1. PICK m \in S : \A k \in S : <<k, m>> \notin OpToRel(<, Nat)
  BY WFMin, NatLessThanWellFounded, Zenon
<1>2. \A k \in S : ~(k < m)
  BY <1>1, Zenon DEF OpToRel
<1>3. \A k \in S : m <= k
  BY <1>2
<1>4. QED
  BY <1>3, Zenon DEF Least

-----------------------------------------------------------------------------
(***************************************************************************)
(* The invariant.                                                          *)
(***************************************************************************)
Replied == {"ok", "garbled", "negative"}

KindsTyped ==
    /\ \A t \in Targets : \A i \in 1 .. Len(outbox[t]) : outbox[t][i].kind \in Replied
    /\ answer # NoAnswer => answer.kind \in Replied \union {"failed"}

\* The operation waits for the answer to the step it is at.
AsksStep(q) ==
    /\ q.target = Script(op)[at].target
    /\ q.sid = Script(op)[at].sid
    /\ q.data = Script(op)[at].data

Running ==
    op # Nothing =>
        /\ op \in Operations
        /\ at \in 1 .. Len(Script(op))
        /\ open # NoRequest => AsksStep(open)
        /\ answer # NoAnswer => AsksStep(answer.request)
        /\ returned = Nothing

\* A value is of a step behind, and under a DID that is compared it is of that DID.
IsOfItsStep(script, f) ==
    /\ f.cause.target = script[f.at].target
    /\ f.cause.sid = script[f.at].sid
    /\ script[f.at].compare = "all" => f.cause.data = script[f.at].data

Collected ==
    op # Nothing => \A f \in fields : f.at \in 1 .. at - 1 /\ IsOfItsStep(Script(op), f)

\* A step behind was answered.
Answered(k) ==
    \E i \in DOMAIN verdicts : verdicts[i].at = k /\ verdicts[i].verdict \in {"value", "none"}

\* The block of a step behind is left: its values are gone and so are its steps.
Left(k) ==
    /\ Script(op)[k].block # Nothing
    /\ \A f \in fields : Script(op)[f.at].block # Script(op)[k].block
    /\ \A j \in at .. Len(Script(op)) : Script(op)[j].block # Script(op)[k].block

Covered ==
    /\ IsSequence(verdicts)
    /\ op # Nothing => \A k \in 1 .. at - 1 : Answered(k) \/ Left(k)

IInv ==
    /\ LinkInv
    /\ KindsTyped
    /\ Running
    /\ Collected
    /\ Covered
    /\ ComparedFieldsAreTheirs
    /\ BlocksAreWhole

-----------------------------------------------------------------------------
(***************************************************************************)
(* The steps.                                                              *)
(***************************************************************************)

\* The operation goes on with the first of `rest`, or returns `collected`: that
\* is in order if every step that is not in `rest` was answered, or is of a block
\* that has no value and no step to come.
LEMMA GoesOn ==
    ASSUME IInv, op # Nothing, answer # NoAnswer,
           NEW rest \in SUBSET (at + 1 .. Len(Script(op))), NEW collected,
           GoOn(rest, collected), UNCHANGED calls,
           \A f \in collected : f.at \in 1 .. at /\ IsOfItsStep(Script(op), f),
           IsSequence(verdicts'),
           \A k \in 1 .. Len(Script(op)) : k \notin rest =>
              \/ Answered(k)'
              \/ /\ Script(op)[k].block # Nothing
                 /\ \A f \in collected : Script(op)[f.at].block # Script(op)[k].block
                 /\ \A r \in rest : k < r =>
                      \A j \in r .. Len(Script(op)) : Script(op)[j].block # Script(op)[k].block
    PROVE  IInv'
<1> PICK o : o = op
  OBVIOUS
<1> DEFINE s == Script(o)
<1>0. /\ o \in Operations /\ at \in 1 .. Len(s) /\ open = NoRequest /\ LinkInv
      /\ returned = Nothing /\ KindsTyped
  BY DEF IInv, Running, LinkInv, OpenIsLast
<1>1. IsSequence(s) /\ Len(s) \in Nat /\ DOMAIN s = 1 .. Len(s)
  BY <1>0, ScriptsAre DEF Scripted, IsSequence
<1> HIDE DEF s
<1>2. CASE rest = {}
  <2>1. /\ TakeAnswer /\ op' = Nothing
        /\ returned' = [op |-> op, ok |-> TRUE, fields |-> collected]
    BY <1>2 DEF GoOn, Finish
  <2>2. LinkInv' /\ KindsTyped'
    BY <1>0, <2>1, LinkTakes DEF TakeAnswer, KindsTyped
  <2>3. Running' /\ Collected' /\ Covered'
    BY <2>1 DEF Running, Collected, Covered
  <2>4. ComparedFieldsAreTheirs'
    BY <2>1 DEF ComparedFieldsAreTheirs, StepOf, IsOfItsStep
  <2>5. BlocksAreWhole'
    <3>1. returned'.fields = collected /\ returned'.op = o
      BY <2>1
    <3>2. SUFFICES ASSUME NEW f \in collected, s[f.at].block # Nothing,
                          NEW k \in DOMAIN s, s[k].block = s[f.at].block
                   PROVE  Answered(k)'
      BY <3>1 DEF BlocksAreWhole, StepOf, Answered, s
    <3>3. QED
      BY <1>1, <1>2, <3>2 DEF s
  <2>6. QED
    BY <2>2, <2>3, <2>4, <2>5 DEF IInv
<1>3. CASE rest # {}
  <2> DEFINE n == Least(rest)
  <2>1. rest \in SUBSET Nat
    BY <1>0, <1>1 DEF s
  <2>2. n \in rest /\ \A i \in rest : n <= i
    BY <1>3, <2>1, LeastIsFirst, Zenon
  <2>3. n \in at + 1 .. Len(s)
    BY <2>2 DEF s
  <2> HIDE DEF n
  <2>4. /\ Ask(s[n].target, s[n].sid, s[n].data)
        /\ at' = n /\ fields' = collected /\ op' = o /\ returned' = Nothing
    BY <1>0, <1>3 DEF GoOn, AskStep, s, n
  <2>5. LinkInv' /\ KindsTyped'
    BY <1>0, <2>4, LinkAsks DEF Ask, KindsTyped
  <2>6. Running'
    BY <1>0, <1>1, <2>3, <2>4 DEF Running, AsksStep, Ask, s
  <2>7. Collected'
    BY <1>0, <1>1, <2>3, <2>4 DEF Collected, s
  <2>8. Covered'
    <3>1. ASSUME NEW k \in 1 .. n - 1
          PROVE  Answered(k)' \/ Left(k)'
      <4>1. k \in 1 .. Len(s) /\ k \notin rest /\ k < n
        BY <1>0, <1>1, <2>2, <2>3, <2>1
      <4>2. CASE /\ s[k].block # Nothing
                 /\ \A f \in collected : s[f.at].block # s[k].block
                 /\ \A r \in rest : k < r => \A j \in r .. Len(s) : s[j].block # s[k].block
        BY <2>2, <2>4, <4>1, <4>2 DEF Left, s
      <4>3. QED
        BY <4>1, <4>2 DEF s
    <3>2. QED
      BY <2>4, <3>1 DEF Covered
  <2>9. ComparedFieldsAreTheirs' /\ BlocksAreWhole'
    BY <2>4 DEF ComparedFieldsAreTheirs, BlocksAreWhole
  <2>10. QED
    BY <2>5, <2>6, <2>7, <2>8, <2>9 DEF IInv
<1>4. QED
  BY <1>2, <1>3

-----------------------------------------------------------------------------

\* Only a positive answer that echoes the request is a value.
LEMMA OnlyEchoesAreValues ==
    ASSUME NEW step, step.refusal \in {"error", "none"}, step.mismatch \in {"error", "none"},
           NEW a, a.kind \in Replied \union {"failed"}, Verdict(step, a) = "value"
    PROVE  a.kind # "failed" /\ Echoes(step, a.cause.data)
<1>1. CASE a.kind = "failed"
  BY <1>1 DEF Verdict
<1>2. CASE a.kind = "negative"
  BY <1>2 DEF Verdict
<1>3. CASE a.kind = "garbled"
  BY <1>3 DEF Verdict
<1>4. CASE a.kind = "ok" /\ ~Echoes(step, a.cause.data)
  BY <1>4 DEF Verdict
<1>5. QED
  BY <1>1, <1>2, <1>3, <1>4 DEF Replied

\* The history of answers grows.
LEMMA AnsweredNow ==
    ASSUME IsSequence(verdicts), NEW v, verdicts' = Append(verdicts, v)
    PROVE  /\ IsSequence(verdicts')
           /\ \A k : Answered(k) => Answered(k)'
           /\ v.verdict \in {"value", "none"} => Answered(v.at)'
<1>1. /\ IsSequence(verdicts') /\ Len(verdicts') = Len(verdicts) + 1
      /\ \A i \in 1 .. Len(verdicts) : verdicts'[i] = verdicts[i]
      /\ verdicts'[Len(verdicts) + 1] = v
  BY Appended
<1>2. /\ DOMAIN verdicts = 1 .. Len(verdicts) /\ Len(verdicts) \in Nat
      /\ DOMAIN verdicts' = 1 .. Len(verdicts')
  BY <1>1 DEF IsSequence
<1>3. ASSUME NEW k, Answered(k)
      PROVE  Answered(k)'
  BY <1>1, <1>2, <1>3 DEF Answered
<1>4. v.verdict \in {"value", "none"} => \E i \in DOMAIN verdicts' :
         verdicts'[i].at = v.at /\ verdicts'[i].verdict \in {"value", "none"}
  BY <1>1, <1>2
<1>5. QED
  BY <1>1, <1>3, <1>4 DEF Answered

\* The operation takes an answer.
LEMMA TakesStep ==
    ASSUME IInv, TakeStep
    PROVE  IInv'
<1> PICK s : s = Script(op)
  OBVIOUS
<1> PICK a : a = at
  OBVIOUS
<1> PICK verdict : verdict = Verdict(s[at], answer)
  OBVIOUS
<1> PICK v : v = [at |-> at, verdict |-> verdict, answer |-> answer]
  OBVIOUS
<1>0. /\ op # Nothing /\ answer # NoAnswer /\ UNCHANGED calls /\ verdicts' = Append(verdicts, v)
      /\ \/ verdict = "value"
              /\ GoOn(at + 1 .. Len(s), fields \cup {[at |-> at, cause |-> answer.cause]})
         \/ verdict = "none" /\ GoOn(at + 1 .. Len(s), fields)
         \/ verdict = "error" /\ s[at].block = Nothing /\ Finish(FALSE, {})
         \/ verdict = "error" /\ s[at].block # Nothing
              /\ GoOn(AfterBlock(s, at), WithoutBlock(fields, s, s[at].block))
  BY DEF TakeStep
<1>1. /\ op \in Operations /\ at \in 1 .. Len(s) /\ AsksStep(answer.request) /\ returned = Nothing
      /\ LinkInv /\ AnswerClaims /\ KindsTyped /\ answer.kind \in Replied \union {"failed"}
      /\ open = NoRequest
  BY <1>0 DEF IInv, Running, KindsTyped, LinkInv, OpenIsLast
<1>2. IsSequence(s) /\ Len(s) \in Nat /\ Contiguous(s)
      /\ s[at].refusal \in {"error", "none"} /\ s[at].mismatch \in {"error", "none"}
  BY <1>1, ScriptsAre DEF Scripted, IsSequence
<1>3. /\ IsSequence(verdicts') /\ \A k : Answered(k) => Answered(k)'
      /\ verdict \in {"value", "none"} => Answered(a)'
  <2>1. v.at = a /\ v.verdict = verdict
    OBVIOUS
  <2>2. IsSequence(verdicts) /\ verdicts' = Append(verdicts, v)
    BY <1>0 DEF IInv, Covered
  <2>3. QED
    BY <2>1, <2>2, AnsweredNow
<1>4. /\ \A f \in fields : f.at \in 1 .. at - 1 /\ IsOfItsStep(s, f)
      /\ \A k \in 1 .. at - 1 : Answered(k) \/ Left(k)
  BY <1>0 DEF IInv, Collected, Covered
<1>5. at + 1 .. Len(s) \in SUBSET (at + 1 .. Len(s)) /\ AfterBlock(s, at) \in SUBSET (at + 1 .. Len(s))
  BY DEF AfterBlock
<1>6. CASE verdict = "value" /\ GoOn(at + 1 .. Len(s), fields \cup {[at |-> at, cause |-> answer.cause]})
  <2> PICK new : new = [at |-> at, cause |-> answer.cause]
    OBVIOUS
  <2> PICK collected : collected = fields \cup {new}
    OBVIOUS
  <2>1. answer.kind # "failed" /\ Echoes(s[at], answer.cause.data)
    <3>1. Verdict(s[at], answer) = "value"
      BY <1>6
    <3>2. QED
      BY <1>1, <1>2, <3>1, OnlyEchoesAreValues
  <2>2. answer.cause.target = s[at].target /\ answer.cause.sid = s[at].sid
    BY <1>0, <1>1, <2>1 DEF AnswerClaims, AsksStep
  <2>3. s[at].compare = "all" => answer.cause.data = s[at].data
    BY <2>1 DEF Echoes
  <2>4. IsOfItsStep(s, new)
    BY <2>2, <2>3 DEF IsOfItsStep
  <2>5. \A f \in collected : f.at \in 1 .. at /\ IsOfItsStep(s, f)
    BY <1>1, <1>2, <1>4, <2>4
  <2>6. ASSUME NEW k \in 1 .. Len(s), k \notin at + 1 .. Len(s)
        PROVE  \/ Answered(k)'
               \/ /\ s[k].block # Nothing
                  /\ \A f \in collected : s[f.at].block # s[k].block
                  /\ \A r \in at + 1 .. Len(s) : k < r => \A j \in r .. Len(s) : s[j].block # s[k].block
    <3>1. CASE k = at
      BY <1>3, <1>6, <3>1
    <3>2. CASE k \in 1 .. at - 1 /\ Left(k)
      BY <1>1, <1>2, <3>2 DEF Left
    <3>3. QED
      BY <1>1, <1>2, <1>3, <1>4, <2>6, <3>1, <3>2
  <2>7. GoOn(at + 1 .. Len(s), collected)
    BY <1>6
  <2>8. QED
    <3>1. op # Nothing /\ answer # NoAnswer /\ UNCHANGED calls
      BY <1>0
    <3>2. at + 1 .. Len(s) \in SUBSET (at + 1 .. Len(s)) /\ IsSequence(verdicts')
      BY <1>3
    <3>3. QED
      BY <3>1, <3>2, <2>5, <2>6, <2>7, GoesOn
<1>7. CASE verdict = "none" /\ GoOn(at + 1 .. Len(s), fields)
  <2>1. \A f \in fields : f.at \in 1 .. at /\ IsOfItsStep(s, f)
    BY <1>1, <1>2, <1>4
  <2>2. ASSUME NEW k \in 1 .. Len(s), k \notin at + 1 .. Len(s)
        PROVE  \/ Answered(k)'
               \/ /\ s[k].block # Nothing
                  /\ \A f \in fields : s[f.at].block # s[k].block
                  /\ \A r \in at + 1 .. Len(s) : k < r => \A j \in r .. Len(s) : s[j].block # s[k].block
    <3>1. CASE k = at
      BY <1>3, <1>7, <3>1
    <3>2. CASE k \in 1 .. at - 1 /\ Left(k)
      BY <1>1, <1>2, <3>2 DEF Left
    <3>3. QED
      BY <1>1, <1>2, <1>3, <1>4, <2>2, <3>1, <3>2
  <2>3. QED
    BY <1>0, <1>3, <1>5, <1>7, <2>1, <2>2, GoesOn
<1>8. CASE Finish(FALSE, {})
  <2>1. /\ TakeAnswer /\ op' = Nothing
        /\ returned' = [op |-> op, ok |-> FALSE, fields |-> {}]
    BY <1>8 DEF Finish
  <2>2. LinkInv' /\ KindsTyped'
    BY <1>1, <2>1, LinkTakes DEF TakeAnswer, KindsTyped
  <2>3. Running' /\ Collected' /\ Covered'
    BY <1>3, <2>1 DEF Running, Collected, Covered
  <2>4. ComparedFieldsAreTheirs' /\ BlocksAreWhole'
    BY <2>1 DEF ComparedFieldsAreTheirs, BlocksAreWhole
  <2>5. QED
    BY <2>2, <2>3, <2>4 DEF IInv
<1>9. CASE s[at].block # Nothing /\ GoOn(AfterBlock(s, at), WithoutBlock(fields, s, s[at].block))
  <2> DEFINE rest == AfterBlock(s, at)
             kept == WithoutBlock(fields, s, s[at].block)
  <2>1. \A f \in kept : f \in fields /\ s[f.at].block # s[at].block
    BY DEF WithoutBlock
  <2>2. \A r \in at + 1 .. Len(s) : r \in rest <=> s[r].block # s[at].block
    BY DEF AfterBlock
  <2>3. rest \subseteq at + 1 .. Len(s)
    BY <1>5
  <2> HIDE DEF rest, kept
  <2>4. \A f \in kept : f.at \in 1 .. at /\ IsOfItsStep(s, f)
    BY <1>1, <1>2, <1>4, <2>1
  <2>5. ASSUME NEW k \in 1 .. Len(s), k \notin rest
        PROVE  \/ Answered(k)'
               \/ /\ s[k].block # Nothing
                  /\ \A f \in kept : s[f.at].block # s[k].block
                  /\ \A r \in rest : k < r => \A j \in r .. Len(s) : s[j].block # s[k].block
    <3>1. CASE k \in 1 .. at - 1
      <4>1. CASE Left(k)
        BY <1>1, <1>2, <2>1, <2>3, <3>1, <4>1 DEF Left
      <4>2. QED
        BY <1>3, <1>4, <3>1, <4>1
    <3>2. CASE k \in at .. Len(s)
      <4>1. s[k].block = s[at].block
        BY <1>1, <1>2, <2>2, <2>5, <3>2
      <4>2. ASSUME NEW r \in rest, k < r, NEW j \in r .. Len(s), s[j].block = s[k].block
            PROVE  FALSE
        <5>1. r \in 1 .. Len(s) /\ j \in 1 .. Len(s) /\ s[r].block # s[k].block
          BY <1>1, <1>2, <2>2, <2>3, <4>1, <4>2
        <5>2. r < j
          BY <4>2, <5>1, <1>2
        <5>3. QED
          BY <1>9, <4>1, <4>2, <5>1, <5>2, <1>2 DEF Contiguous
      <4>3. QED
        BY <1>9, <2>1, <4>1, <4>2
    <3>3. QED
      BY <1>1, <1>2, <3>1, <3>2
  <2>6. GoOn(rest, kept)
    BY <1>9 DEF rest, kept
  <2>7. QED
    BY <1>0, <1>3, <2>3, <2>4, <2>5, <2>6, GoesOn
<1>10. QED
  BY <1>0, <1>6, <1>7, <1>8, <1>9

-----------------------------------------------------------------------------

\* The caller starts an operation.
LEMMA Calls ==
    ASSUME IInv, NEW o \in Operations, Call(o)
    PROVE  IInv'
<1>1. /\ op = Nothing /\ open = NoRequest /\ answer = NoAnswer
      /\ Ask(Script(o)[1].target, Script(o)[1].sid, Script(o)[1].data)
      /\ op' = o /\ at' = 1 /\ fields' = {} /\ verdicts' = <<>> /\ returned' = Nothing
  BY DEF Call, Free, AskStep
<1>2. Len(Script(o)) \in Nat /\ Len(Script(o)) > 0
  BY ScriptsAre DEF Scripted, IsSequence
<1>3. LinkInv'
  BY <1>1, LinkAsks DEF IInv
<1>4. KindsTyped'
  BY <1>1 DEF IInv, KindsTyped, Ask
<1>5. Running'
  BY <1>1, <1>2 DEF Running, AsksStep, Ask
<1>6. Collected'
  BY <1>1 DEF Collected
<1>7. Covered'
  <2>1. <<>> \in Seq({})
    BY EmptySeq
  <2>2. IsSequence(verdicts')
    BY <1>1, <2>1, Listed
  <2>3. QED
    BY <1>1, <2>2 DEF Covered
<1>8. ComparedFieldsAreTheirs' /\ BlocksAreWhole'
  BY <1>1 DEF ComparedFieldsAreTheirs, BlocksAreWhole
<1>9. QED
  BY <1>3, <1>4, <1>5, <1>6, <1>7, <1>8 DEF IInv

\* The parts about the operation are untouched by a step that leaves it alone.
LEMMA ClientUnmoved ==
    ASSUME IInv, UNCHANGED clientVars
    PROVE  Collected' /\ Covered' /\ ComparedFieldsAreTheirs' /\ BlocksAreWhole'
<1>1. /\ op' = op /\ at' = at /\ fields' = fields /\ verdicts' = verdicts /\ returned' = returned
  BY DEF clientVars
<1>2. Collected'
  BY <1>1 DEF IInv, Collected
<1>3. Covered'
  BY <1>1 DEF IInv, Covered, Answered, Left
<1>4. ComparedFieldsAreTheirs' /\ BlocksAreWhole'
  BY <1>1 DEF IInv, ComparedFieldsAreTheirs, BlocksAreWhole, StepOf
<1>5. QED
  BY <1>2, <1>3, <1>4

\* An answer to the request that waits, or no answer yet.
LEMMA RunsOn ==
    ASSUME Running, UNCHANGED clientVars,
           open' # NoRequest => open' = open,
           answer' # NoAnswer =>
              answer' = answer \/ (open # NoRequest /\ answer'.request = open)
    PROVE  Running'
<1>1. op' = op /\ at' = at /\ returned' = returned
  BY DEF clientVars
<1>2. QED
  BY <1>1 DEF Running, AsksStep

\* The request fails.
LEMMA Fails ==
    ASSUME IInv, GiveUp, UNCHANGED clientVars
    PROVE  IInv'
<1>1. /\ open # NoRequest /\ open' = NoRequest /\ outbox' = outbox
      /\ answer' = [kind |-> "failed", request |-> open, cause |-> open, content |-> Nothing]
  BY DEF GiveUp
<1>2. LinkInv' /\ Running' /\ KindsTyped'
  BY <1>1, LinkGivesUp, RunsOn DEF IInv, KindsTyped
<1>3. QED
  BY <1>2, ClientUnmoved DEF IInv

\* A reply arrives.
LEMMA Arrives ==
    ASSUME IInv, NEW t \in Targets, Deliver(t), UNCHANGED clientVars
    PROVE  IInv'
<1>0. LinkInv /\ KindsTyped /\ Running
  BY DEF IInv
<1>1. /\ outbox[t] # <<>> /\ outbox' = [outbox EXCEPT ![t] = Tail(outbox[t])]
      /\ \/ /\ open # NoRequest /\ open' = NoRequest
            /\ answer'.request = open /\ answer'.kind = Head(outbox[t]).kind
         \/ open' = open /\ answer' = answer
  BY DEF Deliver, Claims, AfterUnclaimed
<1>2. Running'
  BY <1>0, <1>1, RunsOn
<1>3. KindsTyped'
  <2>1. IsSequence(outbox[t]) /\ \A u \in Targets : outbox'[u] = IF u = t THEN Tail(outbox[t]) ELSE outbox[u]
    BY <1>0, <1>1 DEF LinkInv, Queues, LinkTyped
  <2>2. /\ Len(outbox[t]) \in Nat /\ Len(outbox[t]) > 0 /\ Head(outbox[t]) = outbox[t][1]
        /\ Len(outbox'[t]) = Len(outbox[t]) - 1
        /\ \A i \in 1 .. Len(outbox[t]) - 1 : outbox'[t][i] = outbox[t][i + 1]
    <3>1. outbox'[t] = Tail(outbox[t]) /\ Len(outbox[t]) \in Nat
      BY <2>1 DEF IsSequence
    <3>2. QED
      BY <1>1, <2>1, <3>1, Taken
  <2>3. \A i \in 1 .. Len(outbox[t]) : outbox[t][i].kind \in Replied
    BY <1>0 DEF KindsTyped
  <2>4. \A i \in 1 .. Len(outbox'[t]) : outbox'[t][i].kind \in Replied
    BY <2>2, <2>3
  <2>5. \A u \in Targets : \A i \in 1 .. Len(outbox'[u]) : outbox'[u][i].kind \in Replied
    BY <1>0, <2>1, <2>4 DEF KindsTyped
  <2>6. answer' # NoAnswer => answer'.kind \in Replied \union {"failed"}
    BY <1>0, <1>1, <2>2, <2>3 DEF KindsTyped
  <2>7. QED
    BY <2>5, <2>6 DEF KindsTyped
<1>4. LinkInv'
  BY <1>0, LinkDelivers
<1>5. QED
  BY <1>2, <1>3, <1>4, ClientUnmoved DEF IInv

\* An ECU handles a request.
LEMMA Serves ==
    ASSUME IInv, NEW t \in Targets, EcuHandles(t)
    PROVE  IInv'
<1>0. LinkInv /\ KindsTyped /\ Running
  BY DEF IInv
<1>1. /\ Handles(t) /\ UNCHANGED <<asked, open, answer, given_up, synced, clientVars>>
      /\ (\E kind \in Replied : Replies(t, kind, Nothing)) \/ outbox' = outbox
  BY DEF EcuHandles, Replied
<1>2. LinkInv'
  BY <1>0, <1>1, LinkHandles
<1>3. Running'
  BY <1>0, <1>1, RunsOn
<1>4. KindsTyped'
  <2>1. CASE outbox' = outbox
    BY <1>0, <1>1, <2>1 DEF KindsTyped
  <2>2. CASE \E kind \in Replied : Replies(t, kind, Nothing)
    <3>1. PICK r : r.kind \in Replied /\ outbox' = [outbox EXCEPT ![t] = Append(outbox[t], r)]
      <4>1. PICK kind \in Replied : Replies(t, kind, Nothing)
        BY <2>2
      <4>2. PICK r : r = [kind |-> kind, cause |-> Head(inbox[t]), content |-> Nothing]
        OBVIOUS
      <4>3. outbox' = [outbox EXCEPT ![t] = Append(outbox[t], r)]
        BY <4>1, <4>2, Zenon DEF Replies
      <4>4. r.kind \in Replied
        BY <4>2
      <4>5. QED
        BY <4>3, <4>4
    <3>2. IsSequence(outbox[t]) /\ \A u \in Targets : outbox'[u] = IF u = t THEN Append(outbox[t], r) ELSE outbox[u]
      BY <1>0, <3>1 DEF LinkInv, Queues, LinkTyped
    <3>3. /\ Len(outbox[t]) \in Nat /\ Len(outbox'[t]) = Len(outbox[t]) + 1
          /\ \A i \in 1 .. Len(outbox[t]) : outbox'[t][i] = outbox[t][i]
          /\ outbox'[t][Len(outbox[t]) + 1] = r
      <4>1. outbox'[t] = Append(outbox[t], r) /\ Len(outbox[t]) \in Nat
        BY <3>2 DEF IsSequence
      <4>2. QED
        BY <3>2, <4>1, Appended
    <3>4. \A i \in 1 .. Len(outbox'[t]) : outbox'[t][i].kind \in Replied
      BY <1>0, <3>1, <3>3 DEF KindsTyped
    <3>5. \A u \in Targets : \A i \in 1 .. Len(outbox'[u]) : outbox'[u][i].kind \in Replied
      BY <1>0, <3>2, <3>4 DEF KindsTyped
    <3>6. QED
      BY <1>0, <1>1, <3>5 DEF KindsTyped
  <2>3. QED
    BY <1>1, <2>1, <2>2
<1>5. QED
  BY <1>1, <1>2, <1>3, <1>4, ClientUnmoved DEF IInv

-----------------------------------------------------------------------------
(***************************************************************************)
(* The theorems.                                                           *)
(***************************************************************************)

\* The inductive invariant: the link owes its replies in the order of the
\* requests, the operation waits at the step it asked, and every step behind it
\* was answered or is of a block that was emptied (client.rs, session.rs).
THEOREM ClientInvariant == Spec => []IInv
<1>1. Init => IInv
  <2> SUFFICES ASSUME Init
               PROVE  IInv
    OBVIOUS
  <2>1. LinkInv /\ KindsTyped
    <3>1. LinkInit
      BY DEF Init
    <3>2. \A t \in Targets : outbox[t] = <<>> /\ Len(outbox[t]) = 0
      BY <3>1, EmptySeq DEF LinkInit
    <3>3. QED
      BY <3>1, <3>2, LinkStarts DEF KindsTyped, LinkInit
  <2>2. Running /\ Collected /\ ComparedFieldsAreTheirs /\ BlocksAreWhole
    BY DEF Init, Running, Collected, ComparedFieldsAreTheirs, BlocksAreWhole
  <2>3. Covered
    <3>1. <<>> \in Seq({})
      BY EmptySeq
    <3>2. IsSequence(verdicts)
      BY <3>1, Listed DEF Init
    <3>3. QED
      BY <3>2 DEF Covered, Init
  <2>4. QED
    BY <2>1, <2>2, <2>3 DEF IInv
<1>2. IInv /\ [Next]_vars => IInv'
  <2> SUFFICES ASSUME IInv, [Next]_vars
               PROVE  IInv'
    OBVIOUS
  <2>1. CASE \E o \in Operations : Call(o)
    BY <2>1, Calls
  <2>2. CASE TakeStep
    BY <2>2, TakesStep
  <2>3. CASE GiveUp /\ UNCHANGED clientVars
    BY <2>3, Fails
  <2>4. CASE (\E t \in Targets : Deliver(t)) /\ UNCHANGED clientVars
    BY <2>4, Arrives
  <2>5. CASE \E t \in Targets : EcuHandles(t)
    BY <2>5, Serves
  <2>6. CASE UNCHANGED vars
    <3>1. UNCHANGED linkVars /\ UNCHANGED clientVars
      BY <2>6 DEF vars
    <3>2. LinkInv'
      BY <3>1, LinkStutters DEF IInv
    <3>3. KindsTyped'
      BY <3>1 DEF IInv, KindsTyped, linkVars
    <3>4. Running'
      BY <3>1, RunsOn DEF IInv, linkVars
    <3>5. QED
      BY <3>1, <3>2, <3>3, <3>4, ClientUnmoved DEF IInv
  <2>7. QED
    BY <2>1, <2>2, <2>3, <2>4, <2>5, <2>6 DEF Next, Exhausted
<1>3. QED
  BY <1>1, <1>2, PTL DEF Spec

\* An answer is the reply to another request only while the ECU owes the reply of
\* a request given up: from the next own reply on, none is (session.rs:20-28).
THEOREM StaleNeedsGivingUp == Spec => []StaleOnlySinceGivenUp
<1>1. IInv => StaleOnlySinceGivenUp
  BY DEF IInv, LinkInv
<1>2. QED
  BY <1>1, ClientInvariant, PTL

\* A value that an operation returns under a DID it compares is of that DID and of
\* the ECU asked, whatever replies are late (client.rs:327-342, 447-469, 581-604).
THEOREM ReturnedIsAsked == Spec => []ComparedFieldsAreTheirs
<1>1. IInv => ComparedFieldsAreTheirs
  BY DEF IInv
<1>2. QED
  BY <1>1, ClientInvariant, PTL

\* The identification of an ECU of the vehicle is all there or empty, however many
\* ECUs and DIDs there are (client.rs:495-503).
THEOREM VehicleBlocksAreWhole == Spec => []BlocksAreWhole
<1>1. IInv => BlocksAreWhole
  BY DEF IInv
<1>2. QED
  BY <1>1, ClientInvariant, PTL

=============================================================================
