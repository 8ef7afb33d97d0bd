----------------------------- MODULE RingProofs -----------------------------
(***************************************************************************)
(* What holds of the ring for every size, batch and number of arrivals.    *)
(***************************************************************************)
EXTENDS Ring, TLAPS

LEMMA AfterSlot ==
  ASSUME NEW i \in Slots
  PROVE  /\ After(i) = IF i + 1 = Size THEN 0 ELSE i + 1
         /\ After(i) \in Slots
BY RingAssumption, SMTT(30) DEF After, Slots

(* The slot at distance i from slot t.                                        *)
LEMMA SlotFrom ==
  ASSUME NEW t \in Slots, NEW i \in 0 .. Size
  PROVE  /\ From(t, i) = IF t + i < Size THEN t + i ELSE t + i - Size
         /\ From(t, i) \in Slots
BY RingAssumption, SMTT(30) DEF From, Slots

LEMMA FromEnds ==
  ASSUME NEW t \in Slots
  PROVE  From(t, 0) = t /\ From(t, Size) = t
<1>1. 0 \in 0 .. Size /\ Size \in 0 .. Size
  BY RingAssumption
<1>2. From(t, 0) = (IF t + 0 < Size THEN t + 0 ELSE t + 0 - Size)
  BY <1>1, SlotFrom
<1>3. From(t, Size) = (IF t + Size < Size THEN t + Size ELSE t + Size - Size)
  BY <1>1, SlotFrom
<1>4. QED
  BY <1>2, <1>3, RingAssumption DEF Slots

LEMMA FromNext ==
  ASSUME NEW t \in Slots, NEW i \in 0 .. Size - 1
  PROVE  /\ From(After(t), i) = From(t, i + 1)
         /\ After(From(t, i)) = From(t, i + 1)
<1>1. /\ i \in 0 .. Size /\ i + 1 \in 0 .. Size /\ After(t) \in Slots
      /\ From(t, i) \in Slots
  BY AfterSlot, SlotFrom, RingAssumption
<1>2. From(After(t), i) = IF After(t) + i < Size THEN After(t) + i ELSE After(t) + i - Size
  BY <1>1, SlotFrom
<1>3. From(t, i) = IF t + i < Size THEN t + i ELSE t + i - Size
  BY <1>1, SlotFrom
<1>4. From(t, i + 1) = IF t + (i + 1) < Size THEN t + (i + 1) ELSE t + (i + 1) - Size
  BY <1>1, SlotFrom
<1>5. /\ After(t) = IF t + 1 = Size THEN 0 ELSE t + 1
      /\ After(From(t, i)) = IF From(t, i) + 1 = Size THEN 0 ELSE From(t, i) + 1
  BY <1>1, AfterSlot
<1>6. QED
  BY <1>2, <1>3, <1>4, <1>5, RingAssumption DEF Slots

LEMMA FromDistinct ==
  ASSUME NEW t \in Slots, NEW i \in 0 .. Size - 1, NEW j \in 0 .. Size - 1, i # j
  PROVE  From(t, i) # From(t, j)
<1>1. i \in 0 .. Size /\ j \in 0 .. Size
  BY RingAssumption
<1>2. From(t, i) = IF t + i < Size THEN t + i ELSE t + i - Size
  BY <1>1, SlotFrom
<1>3. From(t, j) = IF t + j < Size THEN t + j ELSE t + j - Size
  BY <1>1, SlotFrom
<1>4. QED
  BY <1>2, <1>3, RingAssumption DEF Slots

(* The strengthening: besides what is shown, the head follows from the tail,   *)
(* what is delivered is older than all that is kept, and a batch fits the      *)
(* stamps that are left.                                                       *)
RingInv ==
  /\ TypeOK
  /\ head = From(tail, used)
  /\ NewestKept
  /\ used <= arrived
  /\ got <= arrived - used
  /\ arrived + left <= Arrivals
  /\ NoLostWakeup

THEOREM RingInit == Init => RingInv
<1> SUFFICES ASSUME Init PROVE RingInv
  OBVIOUS
<1>1. 0 \in Slots
  BY RingAssumption DEF Slots
<1>2. head = From(tail, used)
  <2>1. From(0, 0) = 0
    BY <1>1, FromEnds
  <2>2. QED
    BY <2>1 DEF Init
<1>3. TypeOK
  <2>1. 0 \in 0 .. Size /\ 0 \in 0 .. Batch /\ 0 \in 0 .. Arrivals
    BY RingAssumption
  <2>2. QED
    BY <1>1, <2>1 DEF Init, TypeOK
<1>4. QED
  BY <1>2, <1>3, RingAssumption DEF Init, RingInv, NewestKept, NoLostWakeup

LEMMA PushKeeps == RingInv /\ Push => RingInv'
<1> SUFFICES ASSUME RingInv, Push PROVE RingInv'
  OBVIOUS
<1> USE RingAssumption
<1>1. /\ tail \in Slots /\ head \in Slots /\ used \in 0 .. Size
      /\ arrived \in 0 .. Arrivals /\ left \in 1 .. Batch
      /\ data \in [Slots -> 0 .. Arrivals]
      /\ arrived + 1 <= Arrivals
  BY DEF RingInv, TypeOK, Push
<1>2. After(head) \in Slots /\ After(tail) \in Slots
  BY <1>1, AfterSlot
<1>3. TypeOK'
  BY <1>1, <1>2 DEF RingInv, TypeOK, Push
<1>4. head = From(tail, used)
  BY DEF RingInv
<1>5. head' = From(tail', used')
  <2>1. CASE used = Size
    <3>1. head = tail /\ head' = After(head) /\ tail' = After(tail) /\ used' = Size
      BY <2>1, <1>1, <1>4, FromEnds DEF Push
    <3>2. QED
      BY <3>1, <1>2, FromEnds
  <2>2. CASE used # Size
    <3>1. used \in 0 .. Size - 1 /\ used' = used + 1 /\ tail' = tail /\ head' = After(head)
      BY <2>2, <1>1 DEF Push
    <3>2. QED
      BY <3>1, <1>1, <1>4, FromNext
  <2>3. QED
    BY <2>1, <2>2
<1>6. ASSUME NEW i \in 0 .. used' - 1
      PROVE  data'[From(tail', i)] = arrived' - used' + 1 + i
  <2>1. CASE used = Size
    <3>1. /\ used' = used /\ tail' = After(tail) /\ head = tail /\ i \in 0 .. Size - 1
          /\ arrived' = arrived + 1 /\ data' = [data EXCEPT ![head] = arrived + 1]
      BY <2>1, <1>1, <1>4, FromEnds DEF Push
    <3>2. From(tail', i) = From(tail, i + 1)
      BY <3>1, <1>1, FromNext
    <3>3. CASE i = Size - 1
      <4>1. i + 1 = Size
        BY <3>3, <1>1
      <4>2. From(tail', i) = head
        BY <4>1, <3>1, <3>2, <1>1, FromEnds
      <4>3. QED
        BY <4>2, <3>1, <3>3, <2>1, <1>1
    <3>4. CASE i # Size - 1
      <4>1. i + 1 \in 0 .. Size - 1 /\ 0 \in 0 .. Size - 1 /\ i + 1 # 0 /\ i + 1 \in 0 .. used - 1
        BY <3>1, <3>4, <2>1
      <4>2. From(tail, i + 1) # From(tail, 0)
        BY <4>1, <1>1, FromDistinct
      <4>3. From(tail, i + 1) # head
        BY <4>2, <3>1, <1>1, FromEnds
      <4>4. data[From(tail, i + 1)] = arrived - used + 1 + (i + 1)
        BY <4>1 DEF RingInv, NewestKept
      <4>5. QED
        BY <4>3, <4>4, <3>1, <3>2, <1>1
    <3>5. QED
      BY <3>3, <3>4
  <2>2. CASE used # Size
    <3>1. /\ used' = used + 1 /\ tail' = tail /\ i \in 0 .. Size - 1 /\ used \in 0 .. Size - 1
          /\ arrived' = arrived + 1 /\ data' = [data EXCEPT ![head] = arrived + 1]
      BY <2>2, <1>1 DEF Push
    <3>2. CASE i = used
      BY <3>1, <3>2, <1>1, <1>4
    <3>3. CASE i # used
      <4>1. From(tail, i) # head
        BY <3>1, <3>3, <1>1, <1>4, FromDistinct
      <4>2. i \in 0 .. used - 1
        BY <3>1, <3>3, <1>1
      <4>3. data[From(tail, i)] = arrived - used + 1 + i
        BY <4>2 DEF RingInv, NewestKept
      <4>4. QED
        BY <4>1, <4>3, <3>1, <1>1
    <3>4. QED
      BY <3>2, <3>3
  <2>3. QED
    BY <2>1, <2>2
<1>7. /\ (used <= arrived)' /\ (got <= arrived - used)'
      /\ (arrived + left <= Arrivals)' /\ NoLostWakeup'
  BY <1>1 DEF RingInv, TypeOK, Push, NoLostWakeup
<1>8. QED
  BY <1>3, <1>5, <1>6, <1>7 DEF RingInv, NewestKept

(* What popping the oldest element does to the ring.                          *)
LEMMA TakeKeeps ==
  ASSUME RingInv, Take, used > 0, arrived' = arrived
  PROVE  /\ head' = From(tail', used')
         /\ tail' \in Slots /\ used' \in 0 .. Size /\ got' \in 0 .. Arrivals
         /\ NewestKept'
         /\ used' <= arrived' /\ got' <= arrived' - used'
         /\ got' > got /\ got' = arrived' - used'
<1> USE RingAssumption
<1>1. /\ tail \in Slots /\ head \in Slots /\ used \in 1 .. Size
      /\ arrived \in 0 .. Arrivals /\ got \in 0 .. Arrivals
      /\ data \in [Slots -> 0 .. Arrivals]
  BY DEF RingInv, TypeOK
<1>2. After(tail) \in Slots /\ used - 1 \in 0 .. Size
  BY <1>1, AfterSlot
<1>3. data[tail] = arrived - used + 1
  <2>1. From(tail, 0) = tail
    BY <1>1, FromEnds
  <2>2. data[From(tail, 0)] = arrived - used + 1 + 0
    BY <1>1 DEF RingInv, NewestKept
  <2>3. QED
    BY <2>1, <2>2, <1>1
<1>4. head' = From(tail', used')
  <2>1. used - 1 \in 0 .. Size - 1 /\ (used - 1) + 1 = used
    BY <1>1
  <2>2. From(After(tail), used - 1) = From(tail, (used - 1) + 1)
    BY <2>1, <1>1, FromNext
  <2>3. QED
    BY <2>1, <2>2 DEF RingInv, Take
<1>5. NewestKept'
  <2> SUFFICES ASSUME NEW i \in 0 .. used' - 1
               PROVE  data'[From(tail', i)] = arrived' - used' + 1 + i
    BY DEF NewestKept
  <2>1. i + 1 \in 0 .. used - 1 /\ i \in 0 .. Size - 1
    BY <1>1 DEF Take
  <2>2. From(tail', i) = From(tail, i + 1)
    BY <2>1, <1>1, FromNext DEF Take
  <2>3. data[From(tail, i + 1)] = arrived - used + 1 + (i + 1)
    BY <2>1 DEF RingInv, NewestKept
  <2>4. QED
    BY <2>1, <2>2, <2>3, <1>1 DEF Take
<1>6. QED
  BY <1>1, <1>2, <1>3, <1>4, <1>5 DEF RingInv, Take

LEMMA PopKeeps == RingInv /\ (PopNow \/ PopWake) => RingInv'
<1> SUFFICES ASSUME RingInv, PopNow \/ PopWake PROVE RingInv'
  OBVIOUS
<1> USE RingAssumption
<1>1. CASE Take /\ used > 0 /\ (PopNow \/ PopWake)
  <2>1. arrived' = arrived
    BY <1>1 DEF PopNow, PopWake
  <2>2. TypeOK'
    BY <1>1, <2>1, TakeKeeps DEF RingInv, TypeOK, PopNow, PopWake, Take
  <2>3. (arrived + left <= Arrivals)' /\ NoLostWakeup'
    BY <1>1 DEF RingInv, TypeOK, NoLostWakeup, PopNow, PopWake, Take
  <2>4. QED
    BY <1>1, <2>1, <2>2, <2>3, TakeKeeps DEF RingInv
<1>2. CASE PopWake /\ ~(used > 0)
  BY <1>2 DEF RingInv, TypeOK, NewestKept, NoLostWakeup, PopWake, ring
<1>3. QED
  BY <1>1, <1>2 DEF PopNow, PopWake

LEMMA ClearKeeps == RingInv /\ Clear => RingInv'
<1> SUFFICES ASSUME RingInv, Clear PROVE RingInv'
  OBVIOUS
<1>1. 0 \in Slots /\ 0 \in 0 .. Size
  BY RingAssumption DEF Slots
<1>2. From(0, 0) = 0
  BY <1>1, FromEnds
<1>3. QED
  BY <1>1, <1>2 DEF RingInv, TypeOK, NewestKept, NoLostWakeup, Clear

LEMMA OthersKeep == RingInv /\ (PushBegin \/ PushEnd \/ PopWait) => RingInv'
<1> SUFFICES ASSUME RingInv, PushBegin \/ PushEnd \/ PopWait PROVE RingInv'
  OBVIOUS
<1>1. UNCHANGED <<ring, arrived, got>>
  BY DEF PushBegin, PushEnd, PopWait
<1>2. left' \in 0 .. Batch /\ (arrived + left <= Arrivals)'
  <2>1. CASE PushBegin
    <3>1. PICK n \in 1 .. Batch : arrived + n <= Arrivals /\ left' = n
      BY <2>1 DEF PushBegin
    <3>2. QED
      BY <3>1, <1>1, RingAssumption
  <2>2. CASE PushEnd \/ PopWait
    BY <2>2, <1>1 DEF RingInv, TypeOK, PushEnd, PopWait
  <2>3. QED
    BY <2>1, <2>2
<1>3. lock' \in BOOLEAN /\ pc' \in {"idle", "waiting"} /\ signalled' \in BOOLEAN
  BY DEF RingInv, TypeOK, PushBegin, PushEnd, PopWait
<1>4. TypeOK'
  BY <1>1, <1>2, <1>3 DEF RingInv, TypeOK, ring
<1>5. NewestKept'
  BY <1>1 DEF RingInv, NewestKept, ring
<1>6. NoLostWakeup'
  BY RingAssumption DEF RingInv, TypeOK, NoLostWakeup, PushBegin, PushEnd, PopWait, ring
<1>7. QED
  BY <1>1, <1>2, <1>4, <1>5, <1>6 DEF RingInv, ring

THEOREM RingStep == RingInv /\ [Next]_vars => RingInv'
<1>1. RingInv /\ UNCHANGED vars => RingInv'
  BY DEF RingInv, TypeOK, NewestKept, NoLostWakeup, vars
<1>2. QED
  BY <1>1, PushKeeps, PopKeeps, ClearKeeps, OthersKeep DEF Next

THEOREM RingInvariant == Spec => []RingInv
BY RingInit, RingStep, PTL DEF Spec

(* Every state of the ring is well typed.                                     *)
THEOREM RingTyped == Spec => []TypeOK
<1>1. RingInv => TypeOK
  BY DEF RingInv
<1>2. QED
  BY <1>1, RingInvariant, PTL

(* The ring always holds exactly the newest elements, in order.               *)
THEOREM RingKeepsNewest == Spec => []NewestKept
<1>1. RingInv => NewestKept
  BY DEF RingInv
<1>2. QED
  BY <1>1, RingInvariant, PTL

(* No wake-up of a waiting pop is lost.                                       *)
THEOREM RingWakes == Spec => []NoLostWakeup
<1>1. RingInv => NoLostWakeup
  BY DEF RingInv
<1>2. QED
  BY <1>1, RingInvariant, PTL

(* Every pop that finds the ring in use takes the oldest element kept, and it is *)
(* newer than all that were popped before: none is out of order or twice.      *)
THEOREM RingInOrder == Spec => DeliveredInOrder
<1>1. RingInv /\ [Next]_vars =>
        [(PopNow \/ PopWake) /\ used > 0 => got' > got /\ got' = arrived' - used']_vars
  <2> SUFFICES ASSUME RingInv, PopNow \/ PopWake, used > 0
               PROVE  got' > got /\ got' = arrived' - used'
    OBVIOUS
  <2>1. Take /\ arrived' = arrived
    BY DEF PopNow, PopWake
  <2>2. QED
    BY <2>1, TakeKeeps
<1>2. QED
  BY <1>1, RingInvariant, PTL DEF DeliveredInOrder, Spec

=============================================================================
