----------------------------- MODULE ScanProofs -----------------------------
(***************************************************************************)
(* What the proofs of both zero-cycle tests need of the arithmetic of a     *)
(* scan: there are steps angles on each side, repeats comparisons at each,  *)
(* and comparison k of the whole test is at angle                          *)
(* (k \div repeats) % (2 * steps) of the round.                             *)
(***************************************************************************)
EXTENDS Integers, TLAPS

-----------------------------------------------------------------------------
(* Division.                                                                *)
LEMMA Euclid == ASSUME NEW a \in Nat, NEW b \in Nat \ {0}
  PROVE a = b * (a \div b) + (a % b) /\ a \div b \in Nat /\ a % b \in 0 .. b - 1
OBVIOUS

LEMMA Unique == ASSUME NEW b \in Nat \ {0}, NEW q \in Nat, NEW r \in 0 .. b - 1
  PROVE (b * q + r) \div b = q /\ (b * q + r) % b = r
OBVIOUS

LEMMA Multiple == ASSUME NEW a \in Nat, NEW d \in Nat \ {0}, a % d = 0
  PROVE  \E q \in Nat : a = d * q
<1>1. a = d * (a \div d) + 0 /\ a \div d \in Nat
  BY Euclid
<1>2. PICK q \in Nat : q = a \div d
  BY <1>1
<1>3. a = d * q + 0
  BY <1>1, <1>2
<1>4. a = d * q
  BY <1>3
<1> QED
  BY <1>4

(* Where a side of the scan ends, an angle does.                            *)
LEMMA SideEnds == ASSUME NEW a \in Nat, NEW b \in Nat \ {0}, NEW c \in Nat \ {0}, a % (b * c) = 0
  PROVE a % c = 0
<1>1. b * c \in Nat \ {0}
  OBVIOUS
<1>2. PICK q \in Nat : a = (b * c) * q
  BY <1>1, Multiple, Zenon
<1>3. PICK k \in Nat : k = b * q
  OBVIOUS
<1>4. a = c * k
  BY <1>2, <1>3
<1>5. 0 \in 0 .. c - 1
  OBVIOUS
<1>6. (c * k + 0) % c = 0
  BY <1>3, <1>5, Unique
<1>7. c * k + 0 = a
  BY <1>4, <1>3
<1> QED
  BY <1>6, <1>7

(* Within an angle the next comparison is at the same angle.                *)
LEMMA AngleStays == ASSUME NEW a \in Nat, NEW c \in Nat \ {0}, a % c # 0, a > 0
  PROVE (a - 1) \div c = a \div c
<1>1. PICK q \in Nat, r \in 0 .. c - 1 : a = c * q + r /\ q = a \div c /\ r = a % c
  BY Euclid
<1>2. r - 1 \in 0 .. c - 1 /\ a - 1 = c * q + (r - 1)
  BY <1>1
<1>3. (c * q + (r - 1)) \div c = q
  BY <1>1, <1>2, Unique
<1> QED
  BY <1>1, <1>2, <1>3

LEMMA Split == ASSUME NEW a \in Nat, NEW b \in Nat \ {0}
  PROVE  \E q \in Nat, r \in 0 .. b - 1 : a = b * q + r /\ a \div b = q /\ a % b = r
BY Euclid

(* Counting up by one: a digit turns over when the lower one is full.       *)
LEMMA Carry ==
  ASSUME NEW a \in Nat, NEW b \in Nat \ {0}
  PROVE  IF a % b = b - 1
         THEN (a + 1) \div b = (a \div b) + 1 /\ (a + 1) % b = 0
         ELSE (a + 1) \div b = a \div b /\ (a + 1) % b = (a % b) + 1
<1>1. PICK q \in Nat, r \in 0 .. b - 1 : a = b * q + r /\ a \div b = q /\ a % b = r
  BY Split
<1>2. CASE r = b - 1
  <2>1. a + 1 = b * (q + 1) + 0
    BY <1>1, <1>2
  <2>2. (b * (q + 1) + 0) \div b = q + 1 /\ (b * (q + 1) + 0) % b = 0
    BY Unique
  <2> QED
    BY <1>1, <1>2, <2>1, <2>2
<1>3. CASE r # b - 1
  <2>1. a + 1 = b * q + (r + 1) /\ r + 1 \in 0 .. b - 1
    BY <1>1, <1>3
  <2>2. (b * q + (r + 1)) \div b = q /\ (b * q + (r + 1)) % b = r + 1
    BY <1>1, <2>1, Unique
  <2> QED
    BY <1>1, <1>3, <2>1, <2>2
<1> QED
  BY <1>2, <1>3

-----------------------------------------------------------------------------
(* Angle i of a round, first on the negative side and then on the positive,    *)
(* and the place of an angle on the round.                                   *)
AngleAt(steps, i) == IF i < steps THEN -(i + 1) ELSE i - steps + 1

Rank(steps, b) == IF b < 0 THEN -b - 1 ELSE b + steps - 1

(* How many of the first k comparisons were made at angle o of the round.      *)
Tally(steps, repeats, k, o) ==
  LET q == k \div repeats
      v == q % (2 * steps)
  IN  repeats * (q \div (2 * steps))
        + (IF v > o THEN repeats ELSE IF v = o THEN k % repeats ELSE 0)

(* An angle is where its rank says.                                         *)
LEMMA RankHit ==
  ASSUME NEW steps \in Nat \ {0}, NEW i \in 0 .. 2 * steps - 1, NEW b \in (-steps .. steps) \ {0}
  PROVE  Rank(steps, b) \in 0 .. 2 * steps - 1 /\ (i = Rank(steps, b) <=> AngleAt(steps, i) = b)
BY DEF Rank, AngleAt

LEMMA RoundIndex ==
  ASSUME NEW steps \in Nat \ {0}, NEW repeats \in Nat \ {0}, NEW k \in Nat
  PROVE  (k \div repeats) % (2 * steps) \in 0 .. 2 * steps - 1
<1>1. k \div repeats \in Nat /\ 2 * steps \in Nat \ {0}
  BY Euclid
<1> QED
  BY <1>1, Euclid

(* One more comparison counts for the angle it is made at.                  *)
LEMMA TallyNext ==
  ASSUME NEW steps \in Nat \ {0}, NEW repeats \in Nat \ {0},
         NEW k \in Nat, NEW o \in 0 .. 2 * steps - 1
  PROVE  Tally(steps, repeats, k + 1, o) 
           = Tally(steps, repeats, k, o) + (IF (k \div repeats) % (2 * steps) = o THEN 1 ELSE 0)
<1> DEFINE S == 2 * steps
           q == k \div repeats
           v == q % S
           w == q \div S
<1>1. S \in Nat \ {0} /\ repeats \in Nat \ {0}
  OBVIOUS
<1>2. q \in Nat /\ k % repeats \in 0 .. repeats - 1
  BY <1>1, Euclid
<1>3. v \in 0 .. S - 1 /\ w \in Nat
  BY <1>1, <1>2, Euclid
<1>4. Tally(steps, repeats, k, o) =
        repeats * w + (IF v > o THEN repeats ELSE IF v = o THEN k % repeats ELSE 0)
  BY DEF Tally
<1>5. Tally(steps, repeats, k + 1, o) = repeats * (((k + 1) \div repeats) \div S)
        + (IF ((k + 1) \div repeats) % S > o THEN repeats
           ELSE IF ((k + 1) \div repeats) % S = o THEN (k + 1) % repeats ELSE 0)
  BY DEF Tally
<1>6. PICK m \in Nat : m = repeats * w
  BY <1>1, <1>3
<1>7. repeats * (w + 1) = m + repeats
  <2> HIDE DEF w
  <2> QED
    BY <1>1, <1>3, <1>6
<1>8. CASE k % repeats # repeats - 1
  <2>1. (k + 1) \div repeats = q /\ (k + 1) % repeats = (k % repeats) + 1
    BY <1>1, <1>8, Carry
  <2>2. w = q \div S /\ v = q % S
    OBVIOUS
  <2> HIDE DEF S, q, v, w
  <2>3. Tally(steps, repeats, k + 1, o) =
          m + (IF v > o THEN repeats ELSE IF v = o THEN (k % repeats) + 1 ELSE 0)
    BY <1>5, <1>6, <2>1, <2>2
  <2> QED
    BY <1>1, <1>2, <1>3, <1>4, <1>6, <2>3 DEF S, q, v
<1>9. CASE k % repeats = repeats - 1
  <2>1. (k + 1) \div repeats = q + 1 /\ (k + 1) % repeats = 0
    BY <1>1, <1>9, Carry
  <2>2. CASE v # S - 1
    <3>1. (q + 1) \div S = w /\ (q + 1) % S = v + 1
      BY <1>1, <1>2, <2>2, Carry
    <3> HIDE DEF S, q, v, w
    <3>2. Tally(steps, repeats, k + 1, o) = m + (IF v + 1 > o THEN repeats ELSE 0)
      BY <1>1, <1>3, <1>5, <1>6, <2>1, <3>1
    <3> QED
      BY <1>1, <1>2, <1>3, <1>4, <1>6, <1>9, <3>2 DEF S, q, v
  <2>3. CASE v = S - 1
    <3>1. (q + 1) \div S = w + 1 /\ (q + 1) % S = 0
      BY <1>1, <1>2, <2>3, Carry
    <3> HIDE DEF S, q, v, w
    <3>2. Tally(steps, repeats, k + 1, o)
            = (m + repeats) + (IF 0 > o THEN repeats ELSE IF 0 = o THEN 0 ELSE 0)
      BY <1>5, <1>7, <2>1, <3>1
    <3>3. Tally(steps, repeats, k + 1, o) = m + repeats
      BY <1>1, <1>6, <3>2
    <3> QED
      BY <1>1, <1>2, <1>3, <1>4, <1>6, <1>9, <2>3, <3>3 DEF S, q, v
  <2> QED
    BY <2>2, <2>3
<1> QED
  BY <1>8, <1>9

LEMMA TallyNone ==
  ASSUME NEW steps \in Nat \ {0}, NEW repeats \in Nat \ {0},
         NEW o \in 0 .. 2 * steps - 1
  PROVE  Tally(steps, repeats, 0, o) = 0
<1>1. 0 \div repeats = 0 /\ 0 % repeats = 0 /\ 0 \div (2 * steps) = 0 /\ 0 % (2 * steps) = 0
  OBVIOUS
<1> QED
  BY <1>1 DEF Tally

(* A full scan has made Repeats comparisons at each angle in each round.    *)
LEMMA TallyAll ==
  ASSUME NEW steps \in Nat \ {0}, NEW repeats \in Nat \ {0},
         NEW rounds \in Nat, NEW o \in 0 .. 2 * steps - 1
  PROVE  Tally(steps, repeats, 2 * steps * repeats * rounds, o) = repeats * rounds
<1> DEFINE S == 2 * steps
           total == 2 * steps * repeats * rounds
<1>1. S \in Nat \ {0} /\ repeats \in Nat \ {0} /\ rounds \in Nat
  OBVIOUS
<1>2. PICK t \in Nat : t = S * rounds
  BY <1>1
<1>3. total = repeats * t + 0
  BY <1>1, <1>2
<1>4. total \div repeats = t /\ total % repeats = 0
  BY <1>1, <1>3, Unique
<1>5. t = S * rounds + 0
  BY <1>1, <1>2
<1> HIDE DEF S, total
<1>6. t \div S = rounds /\ t % S = 0
  <2>1. 0 \in 0 .. S - 1
    BY <1>1
  <2> QED
    BY <1>1, <1>5, <2>1, Unique
<1>7. Tally(steps, repeats, total, o) = repeats * rounds + 0
  BY <1>4, <1>6 DEF Tally, S
<1> QED
  BY <1>1, <1>7 DEF total

=============================================================================
