--------------------------- MODULE ZeroCycleProofs ---------------------------
(***************************************************************************)
(* What holds of the test of one motor for every scan, limit, table and    *)
(* set of drifts: it is driven with true coordinates only, a comparison is *)
(* made where it says, a PASS is earned, no cut meets a motor that is owed *)
(* a DISABLE but in the cases named, and the table of anomalies agrees     *)
(* with the tally.                                                         *)
(***************************************************************************)
EXTENDS ZeroCycle, ScanProofs, WellFoundedInduction

-----------------------------------------------------------------------------
(* Where a motor that was sent ENABLE may stand: on its way, with the flag    *)
(* set once it has confirmed, or on the way out; and there the flag is set, or *)
(* the DISABLE could not be sent, or none was due.                           *)
OwedInv ==
  /\ owed => pc \in {"confirm", "moving", "base", "done", "cut", "ended"}
  /\ owed /\ pc \in {"moving", "base"} => enabled
  /\ owed /\ pc = "base" /\ why = "point" => moved
  /\ pc \in {"enable", "confirm", "moving"} /\ why = "point" => moved
  /\ owed /\ pc = "done" => enabled \/ lost \/ why # "point" \/ cancel # {}
  /\ owed /\ pc = "cut" => enabled \/ lost \/ why # "point" \/ "stop" \in cancel \/ ~supply
  /\ cancel \subseteq {"x", "stop"}

LEMMA OwedInit == Init => OwedInv
BY DEF Init, OwedInv

(* After giving up the motor is owed a DISABLE only if that could not be sent, or  *)
(* none was due.                                                            *)
LEMMA GivenUp ==
  ASSUME GiveUp, owed'
  PROVE  pc' = "done" /\ (lost' \/ cancel # {} \/ why # "point")
<1>1. CASE Cancelled \/ why # "point"
  BY <1>1 DEF GiveUp, Abort, Cancelled
<1>2. CASE \E sent \in BOOLEAN : SendDisable(sent)
  <2>1. lost' = owed'
    BY <1>2 DEF SendDisable, Disable
  <2> QED
    BY <2>1 DEF GiveUp, Abort
<1> QED
  BY <1>1, <1>2 DEF GiveUp

LEMMA OwedStep == OwedInv /\ [Next]_vars => OwedInv'
<1> SUFFICES ASSUME OwedInv, [Next]_vars PROVE OwedInv'
  OBVIOUS
<1> USE DEF OwedInv, motor, setup, loop, score, retest, end, Abort, Cancelled
<1>1. CASE Start \/ Zero \/ Finish \/ Round \/ Resume
  <2>1. UNCHANGED owed /\ ~owed /\ UNCHANGED cancel
          /\ (pc' \in {"enable", "confirm", "moving"} => why' = "mid")
    BY <1>1 DEF Start, Zero, Finish, Round, Resume
  <2>2. ~owed'
    BY <2>1
  <2> QED
    BY <2>1, <2>2
<1>2. CASE Power
  BY <1>2 DEF Power, PowerOn
<1>3. CASE Pick
  <2>1. UNCHANGED owed /\ ~owed /\ UNCHANGED cancel /\ (pc' = "enable" => moved')
          /\ pc' \in {"done", "enable", "base"}
    BY <1>3 DEF Pick
  <2>2. ~owed'
    BY <2>1
  <2> QED
    BY <2>1, <2>2
<1>4. CASE SendEnable
  BY <1>4 DEF SendEnable, GiveUp, SendDisable, Disable
<1>5. CASE Confirm
  <2>1. pc = "confirm" /\ UNCHANGED <<why, moved, cancel, supply>>
    BY <1>5 DEF Confirm
  <2>2. CASE ~Cancelled /\ pc' = "moving" /\ enabled' = TRUE
    BY <2>1, <2>2
  <2>3. CASE GiveUp
    <3>1. pc' = "done"
      BY <2>3 DEF GiveUp
    <3> QED
      BY <2>1, <2>3, <3>1, GivenUp
  <2> QED
    BY <1>5, <2>2, <2>3 DEF Confirm
<1>6. CASE Move
  <2>1. pc = "moving" /\ UNCHANGED <<why, moved, cancel, supply>>
    BY <1>6 DEF Move
  <2>2. CASE ~Cancelled /\ pc' = "base" /\ UNCHANGED <<owed, lost, enabled>>
    BY <2>1, <2>2
  <2>3. CASE GiveUp
    <3>1. pc' = "done"
      BY <2>3 DEF GiveUp
    <3> QED
      BY <2>1, <2>3, <3>1, GivenUp
  <2> QED
    BY <1>6, <2>2, <2>3 DEF Move
<1>7. CASE Base
  BY <1>7 DEF Base, SendDisable, Disable
<1>8. CASE BaseZero
  BY <1>8 DEF BaseZero, SendDisable, Disable
<1>9. CASE Off
  BY <1>9 DEF Off, PowerOff, Disable
<1>10. CASE On
  BY <1>10 DEF On, PowerOn
<1>11. CASE OnZero
  BY <1>11 DEF OnZero, PowerOn
<1>12. CASE Compare
  <2>1. UNCHANGED owed /\ ~owed /\ UNCHANGED cancel /\ pc' \in {"head", "retest"}
    BY <1>12 DEF Compare
  <2>2. ~owed'
    BY <2>1
  <2> QED
    BY <2>1, <2>2
<1>13. CASE RetestOff
  BY <1>13 DEF RetestOff, PowerOff, Disable
<1>14. CASE RetestOn
  BY <1>14 DEF RetestOn, PowerOn
<1>15. CASE Anchor
  BY <1>15 DEF Anchor
<1>16. CASE Recheck
  BY <1>16 DEF Recheck
<1>17. CASE Done
  BY <1>17 DEF Done, Disable
<1>18. CASE Cut
  BY <1>18 DEF Cut, PowerOff, Disable
<1>19. CASE Cancel
  BY <1>19 DEF Cancel
<1>20. CASE UNCHANGED vars
  BY <1>20 DEF vars
<1> QED
  BY <1>1, <1>2, <1>3, <1>4, <1>5, <1>6, <1>7, <1>8, <1>9, <1>10, <1>11, <1>12, <1>13,
     <1>14, <1>15, <1>16, <1>17, <1>18, <1>19, <1>20 DEF Next, Host

(* The three cuts: before a comparison and in a retest nothing is owed, and    *)
(* at the end console_power_off sends DISABLE, if it can, to a motor whose    *)
(* flag is set.                                                             *)
LEMMA CutStep ==
  ASSUME OwedInv, [Next]_vars, supply, ~supply', owed'
  PROVE  lost' \/ (~enabled /\ ("stop" \in cancel \/ why # "point"))
<1> USE DEF OwedInv, motor, setup, loop, score, retest, end
<1>1. CASE Off \/ RetestOff \/ Cut
  BY <1>1 DEF Off, RetestOff, Cut, PowerOff, Disable
<1>2. CASE Power \/ On \/ OnZero \/ RetestOn
  <2>1. supply' = supply \/ supply' = TRUE
    BY <1>2 DEF Power, On, OnZero, RetestOn, PowerOn
  <2> QED
    BY <2>1
<1>3. CASE UNCHANGED supply
  BY <1>3
<1>4. CASE Start \/ Zero \/ Finish \/ Round \/ Resume \/ Pick \/ SendEnable \/ Confirm
  BY <1>3, <1>4 DEF Start, Zero, Finish, Round, Resume, Pick, SendEnable, Confirm
<1>5. CASE Move \/ Base \/ BaseZero \/ Compare \/ Anchor \/ Recheck \/ Done \/ Cancel
  BY <1>3, <1>5 DEF Move, Base, BaseZero, Compare, Anchor, Recheck, Done, Cancel
<1> QED
  BY <1>1, <1>2, <1>3, <1>4, <1>5 DEF Next, Host, vars

(* For every scan and every fault, failing sends included: a cut of the supply  *)
(* meets a motor that was sent ENABLE and no DISABLE only if a DISABLE was tried *)
(* and could not be sent, or with the flag clear after a signal or on the way   *)
(* back to zero.                                                            *)
THEOREM CycleNoLiveCut == Spec => NoLiveCut
<1>1. OwedInv /\ [Next]_vars =>
        [supply /\ ~supply' /\ owed' =>
           lost' \/ (~enabled /\ ("stop" \in cancel \/ why # "point"))]_vars
  BY CutStep
<1> QED
  BY <1>1, OwedInit, OwedStep, PTL DEF Spec, NoLiveCut

-----------------------------------------------------------------------------
(* Types, part by part.                                                     *)
TypeFlags ==
  /\ supply \in BOOLEAN /\ enabled \in BOOLEAN /\ owed \in BOOLEAN /\ lost \in BOOLEAN
  /\ slipped \in BOOLEAN
  /\ continue \in BOOLEAN /\ force \in BOOLEAN /\ moved \in BOOLEAN /\ arrived \in BOOLEAN
  /\ unread \in BOOLEAN /\ completed \in BOOLEAN /\ paused \in BOOLEAN
TypeInts ==
  at \in Int /\ drift \in Int /\ offset \in Int /\ target \in Int /\ before \in Int
TypeTable ==
  /\ points \in Seq(Point) /\ Len(points) <= PointMax
  /\ point \in 0 .. Len(points) /\ asked \in 0 .. Len(points)
  /\ cursor \in Nat
TypeCounts ==
  /\ count \in Counts /\ n \in Nat /\ index \in 0 .. Total
  /\ since \in 0 .. Revisit /\ tries \in 0 .. Retests
  /\ passed \in Nat /\ failures \in Nat /\ compared \in [Angles -> Nat]
TypeControl ==
  /\ mode \in {"random", "negative", "positive"} /\ why \in {"point", "mid", "recover"}
  /\ result \in {0, -1} /\ cancel \subseteq {"x", "stop"} /\ pc \in Places

(* The parts make up the type invariant.                                    *)
LEMMA TypeOfParts ==
  ASSUME TypeFlags, TypeInts, at \in Reach, TypeTable, TypeCounts, TypeControl
  PROVE  TypeOK
<1>1. {supply, enabled, owed, lost, slipped, continue, force, moved, arrived,
       unread, completed, paused} \subseteq BOOLEAN
  BY DEF TypeFlags
<1>2. {drift, offset, target, before} \subseteq Int
  BY DEF TypeInts
<1> QED
  BY <1>1, <1>2 DEF TypeOK, TypeTable, TypeCounts, TypeControl

(* What the assumption says of each constant.                               *)
LEMMA Constants ==
  /\ Steps \in Nat \ {0} /\ Repeats \in Nat \ {0} /\ Rounds \in Nat \ {0}
  /\ Revisit \in Nat \ {0} /\ Retests \in Nat \ {0} /\ PointMax \in Nat \ {0}
  /\ Bound \in Nat \ {0} /\ Total \in Nat
  /\ Spots \subseteq Reach /\ Reach \subseteq Int /\ Jumps \subseteq Int
<1>1. /\ Steps \in Nat \ {0} /\ Repeats \in Nat \ {0} /\ Rounds \in Nat \ {0}
      /\ Revisit \in Nat \ {0} /\ Retests \in Nat \ {0} /\ PointMax \in Nat \ {0}
      /\ Bound \in Nat \ {0}
  BY ZeroCycleAssumption
<1>2. Spots \subseteq Reach /\ Reach \subseteq Int /\ Jumps \subseteq Int
  BY <1>1, ZeroCycleAssumption DEF Reach
<1> QED
  BY <1>1, <1>2 DEF Total

-----------------------------------------------------------------------------
(* What a motor's way, the place in the scan and the retests have to do with  *)
(* the place in the code.                                                   *)
WayInv ==
  /\ pc \in {"idle", "power", "zero", "pick", "compare", "retest", "retestOn"} => why = "point"
  /\ pc = "recheck" => why # "point"
  /\ pc = "mid" => why = "mid"
  /\ pc = "pick" /\ Scanning => index < Total
  /\ why = "mid" => Scanning /\ index < Total /\ index % Repeats = 0
  /\ pc = "retestOn" => tries < Retests

(* The coordinates: off the way back from a failure the offset is zero, up to  *)
(* the next cut it is the drift, and a baseline was read where the motor      *)
(* still stands.                                                            *)
CoordInv ==
  /\ pc \in {"idle", "power", "zero"} => at = 0
  /\ why # "recover" \/ pc \in {"head", "mid", "pick"} =>
       pc \in {"done", "cut", "ended"} \/ offset = 0
  /\ pc \in {"head", "mid", "pick", "enable", "confirm", "moving", "base", "off", "on"} =>
       offset = drift
  /\ pc \in {"enable", "confirm", "moving"} /\ why = "point" => target \in Reach
  /\ pc \in {"off", "on", "compare", "retest", "retestOn"} /\ why = "point" => before = at + offset
  /\ pc \in {"off", "on", "recheck"} /\ why # "point" => at = 0

(* What the motor's place rests on.                                         *)
PlaceInv == TypeInts /\ at \in Reach /\ TypeTable /\ TypeCounts /\ TypeControl /\ WayInv /\ CoordInv

(* In a scan the target is the angle of the comparison under way, a round that  *)
(* arrived stands there, and where the next comparison needs no move it is at  *)
(* the same angle.                                                          *)
ThereInv ==
  /\ pc \in {"idle", "power", "zero"} => index = 0
  /\ pc \in {"head", "mid", "pick"} /\ Scanning /\ ~force /\ index % Repeats # 0 /\ arrived =>
       at = ScanTarget(index)
  /\ pc \in {"enable", "confirm", "moving", "base", "off", "on", "compare"}
       /\ why = "point" /\ Scanning =>
       index > 0 /\ target = ScanTarget(index - 1)
  /\ pc \in {"base", "off", "on", "compare"} /\ why = "point" /\ arrived => at = target

(* A jump is on the tally, or about to be found, or the test is not completed;  *)
(* a test that is completed was not cancelled, and its supply could be cut.   *)
PassInv ==
  /\ completed => pc \in {"done", "cut", "ended"}
  /\ pc \in {"retest", "retestOn"} \/ why = "recover" => failures > 0
  /\ slipped /\ failures = 0 =>
       \/ pc \in {"done", "cut", "ended"} /\ ~completed
       \/ pc = "compare" /\ drift # offset
       \/ pc = "recheck" /\ drift # 0
  /\ pc \in {"cut", "ended"} /\ completed => "x" \notin cancel
  /\ pc = "ended" /\ completed => ~supply

(* How often an angle was compared: as often as the order of the scan makes it  *)
(* of the comparisons before the one under way.                              *)
RankOf(a) == Rank(Steps, IF mode = "positive" THEN -a ELSE a)

TallyOf(k, o) == Tally(Steps, Repeats, k, o)

(* A comparison is at the angle whose rank is its place on the round.       *)
LEMMA CycleRankHit ==
  ASSUME NEW k \in Nat, NEW a \in Angles
  PROVE  /\ RankOf(a) \in 0 .. 2 * Steps - 1
         /\ (k \div Repeats) % (2 * Steps) = RankOf(a) <=> ScanTarget(k) = a
<1>1. PICK i \in 0 .. 2 * Steps - 1 : i = (k \div Repeats) % (2 * Steps)
  BY Constants, RoundIndex
<1>2. ScanTarget(k) = IF mode = "positive" THEN -AngleAt(Steps, i) ELSE AngleAt(Steps, i)
  BY <1>1 DEF ScanTarget, AngleAt
<1>3. PICK b \in Angles : b = IF mode = "positive" THEN -a ELSE a
  BY Constants DEF Angles
<1>4. /\ Rank(Steps, b) \in 0 .. 2 * Steps - 1
      /\ i = Rank(Steps, b) <=> AngleAt(Steps, i) = b
  BY <1>1, <1>3, Constants, RankHit DEF Angles
<1>5. ScanTarget(k) = a <=> AngleAt(Steps, i) = b
  BY <1>1, <1>2, <1>3, Constants DEF AngleAt, Angles
<1>6. RankOf(a) = Rank(Steps, b)
  BY <1>3 DEF RankOf
<1> QED
  BY <1>1, <1>4, <1>5, <1>6

(* The arithmetic of the scan, for the scan of this test.                   *)
LEMMA CycleTally ==
  ASSUME NEW o \in 0 .. 2 * Steps - 1
  PROVE  /\ TallyOf(0, o) = 0
         /\ TallyOf(Total, o) = Repeats * Rounds
         /\ \A k \in Nat : TallyOf(k + 1, o) =
              TallyOf(k, o) + (IF (k \div Repeats) % (2 * Steps) = o THEN 1 ELSE 0)
<1>1. Steps \in Nat \ {0} /\ Repeats \in Nat \ {0} /\ Rounds \in Nat
  BY Constants
<1>2. Tally(Steps, Repeats, 0, o) = 0
  BY <1>1, TallyNone, Zenon
<1>3. Tally(Steps, Repeats, 2 * Steps * Repeats * Rounds, o) = Repeats * Rounds
  BY <1>1, TallyAll, Zenon
<1>4. ASSUME NEW k \in Nat
      PROVE  Tally(Steps, Repeats, k + 1, o) = Tally(Steps, Repeats, k, o)
               + (IF (k \div Repeats) % (2 * Steps) = o THEN 1 ELSE 0)
  BY <1>1, TallyNext, Zenon
<1> QED
  BY <1>2, <1>3, <1>4 DEF TallyOf, Total

LEMMA Mirrored == \A b \in Angles : -b \in Angles /\ Rank(Steps, b) \in 0 .. 2 * Steps - 1
BY Constants, RankHit, 0 \in 0 .. 2 * Steps - 1 DEF Angles

Underway == why = "point" /\ pc \in {"enable", "confirm", "moving", "base", "off", "on", "compare"}

TallyInv ==
  /\ pc \in {"idle", "power", "zero"} => index = 0 /\ compared = [a \in Angles |-> 0]
  /\ Scanning /\ (pc \in {"done", "cut", "ended"} => completed) =>
       \A a \in Angles :
         compared[a] = TallyOf(IF Underway THEN index - 1 ELSE index, RankOf(a))

-----------------------------------------------------------------------------
(* The start.                                                               *)
LEMMA PlaceInit == Init => PlaceInv /\ TypeFlags /\ ThereInv /\ PassInv /\ TallyInv
<1> SUFFICES ASSUME Init PROVE PlaceInv /\ TypeFlags /\ ThereInv /\ PassInv /\ TallyInv
  OBVIOUS
<1> USE Constants DEF Init
<1>1. TypeFlags
  <2>1. continue \in BOOLEAN
    BY ZeroCycleAssumption
  <2> QED
    BY <2>1 DEF TypeFlags
<1>2. TypeInts /\ at \in Reach
  BY DEF TypeInts, Reach
<1>3. TypeTable
  BY DEF TypeTable
<1>4. TypeCounts
  BY DEF TypeCounts, Angles
<1>5. TypeControl
  BY DEF TypeControl, Places
<1>6. WayInv /\ CoordInv /\ ThereInv
  BY DEF WayInv, CoordInv, ThereInv
<1>7. ~slipped /\ ~completed
  OBVIOUS
<1>8. PassInv /\ TallyInv
  BY <1>7 DEF PassInv, TallyInv, Scanning
<1> QED
  BY <1>1, <1>2, <1>3, <1>4, <1>5, <1>6, <1>8 DEF PlaceInv

-----------------------------------------------------------------------------
(* Every action keeps the flags.                                            *)
LEMMA FlagsStep ==
  ASSUME TypeFlags, [Next]_vars
  PROVE  TypeFlags'
<1> USE DEF TypeFlags, motor, setup, loop, score, retest, end, Abort, Cancelled
<1>1. CASE Start
  BY <1>1 DEF Start
<1>2. CASE Power
  BY <1>2 DEF Power, PowerOn
<1>3. CASE Zero
  BY <1>3 DEF Zero
<1>4. CASE Finish
  BY <1>4 DEF Finish
<1>5. CASE Round
  BY <1>5 DEF Round
<1>6. CASE Resume
  BY <1>6 DEF Resume
<1>7. CASE Pick
  BY <1>7 DEF Pick
<1>8. CASE SendEnable
  BY <1>8 DEF SendEnable, GiveUp, SendDisable, Disable
<1>9. CASE Confirm
  BY <1>9 DEF Confirm, GiveUp, SendDisable, Disable
<1>10. CASE Move
  BY <1>10 DEF Move, GiveUp, SendDisable, Disable
<1>11. CASE Base
  BY <1>11 DEF Base, SendDisable, Disable
<1>12. CASE BaseZero
  BY <1>12 DEF BaseZero, SendDisable, Disable
<1>13. CASE Off
  BY <1>13 DEF Off, PowerOff, Disable
<1>14. CASE On
  BY <1>14 DEF On, PowerOn
<1>15. CASE OnZero
  BY <1>15 DEF OnZero, PowerOn
<1>16. CASE Compare
  BY <1>16 DEF Compare
<1>17. CASE RetestOff
  BY <1>17 DEF RetestOff, PowerOff, Disable
<1>18. CASE RetestOn
  BY <1>18 DEF RetestOn, PowerOn
<1>19. CASE Anchor
  BY <1>19 DEF Anchor
<1>20. CASE Recheck
  BY <1>20 DEF Recheck, MoveAgain
<1>21. CASE Done
  BY <1>21 DEF Done, Disable
<1>22. CASE Cut
  BY <1>22 DEF Cut, PowerOff, Disable
<1>23. CASE Cancel
  BY <1>23 DEF Cancel
<1>24. CASE UNCHANGED vars
  BY <1>24 DEF vars
<1> QED
  BY <1>1, <1>2, <1>3, <1>4, <1>5, <1>6, <1>7, <1>8, <1>9, <1>10, <1>11, <1>12, <1>13,
     <1>14, <1>15, <1>16, <1>17, <1>18, <1>19, <1>20, <1>21, <1>22, <1>23, <1>24
     DEF Next, Host

(* The table keeps its type and its length when an entry is edited.           *)
LEMMA EditedPoint ==
  ASSUME NEW p \in Point, NEW a \in Nat, NEW b \in Nat
  PROVE  /\ p.at \in Int
         /\ [p EXCEPT !.planned = @ + 1] \in Point
         /\ [p EXCEPT !.missed = @ + 1] \in Point
         /\ [p EXCEPT !.observed = @ + 1, !.fails = @ + a, !.reproduced = @ + b] \in Point
<1>1. /\ p = [at |-> p.at, observed |-> p.observed, fails |-> p.fails, planned |-> p.planned,
              reproduced |-> p.reproduced, missed |-> p.missed]
      /\ p.at \in Int /\ p.observed \in Nat /\ p.fails \in Nat /\ p.planned \in Nat
      /\ p.reproduced \in Nat /\ p.missed \in Nat
  BY DEF Point
<1>2. [p EXCEPT !.planned = @ + 1] \in Point
  BY <1>1 DEF Point
<1>3. [p EXCEPT !.missed = @ + 1] \in Point
  BY DEF Point
<1>4. [p EXCEPT !.observed = @ + 1, !.fails = @ + a, !.reproduced = @ + b] \in Point
  <2>1. [p EXCEPT !.observed = @ + 1] \in Point
    BY DEF Point
  <2>2. \A q \in Point : /\ [q EXCEPT !.fails = @ + a] \in Point
                          /\ [q EXCEPT !.reproduced = @ + b] \in Point
    BY DEF Point
  <2>3. [p EXCEPT !.observed = @ + 1, !.fails = @ + a, !.reproduced = @ + b]
          = [[[p EXCEPT !.observed = @ + 1] EXCEPT !.fails = @ + a] EXCEPT !.reproduced = @ + b]
    BY DEF Point
  <2> QED
    BY <2>1, <2>2, <2>3
<1> QED
  BY <1>1, <1>2, <1>3, <1>4

LEMMA EditedEntry ==
  ASSUME NEW s \in Seq(Point), NEW i \in 1 .. Len(s),
         NEW t, \/ t = [s EXCEPT ![i].planned = @ + 1]
                \/ t = [s EXCEPT ![i].missed = @ + 1]
  PROVE  t \in Seq(Point) /\ Len(t) = Len(s)
<1>1. s[i] \in Point
  OBVIOUS
<1>2. PICK p \in Point : t = [s EXCEPT ![i] = p]
  <2>1. CASE t = [s EXCEPT ![i].planned = @ + 1]
    <3>1. t = [s EXCEPT ![i] = [s[i] EXCEPT !.planned = @ + 1]]
      BY <2>1
    <3> QED
      BY <1>1, <3>1, EditedPoint, 0 \in Nat
  <2>2. CASE t = [s EXCEPT ![i].missed = @ + 1]
    <3>1. t = [s EXCEPT ![i] = [s[i] EXCEPT !.missed = @ + 1]]
      BY <2>2
    <3> QED
      BY <1>1, <3>1, EditedPoint, 0 \in Nat
  <2> QED
    BY <2>1, <2>2
<1> QED
  BY <1>2

Counted(s, i, a, b) ==
  [s EXCEPT ![i].observed = @ + 1, ![i].fails = @ + a, ![i].reproduced = @ + b]

LEMMA CountedEntry ==
  ASSUME NEW s \in Seq(Point), NEW i \in 1 .. Len(s), NEW a \in Nat, NEW b \in Nat
  PROVE  Counted(s, i, a, b) \in Seq(Point) /\ Len(Counted(s, i, a, b)) = Len(s)
<1> DEFINE p == [s[i] EXCEPT !.observed = @ + 1, !.fails = @ + a, !.reproduced = @ + b]
<1>1. p \in Point
  <2>1. s[i] \in Point
    OBVIOUS
  <2> QED
    BY <2>1, EditedPoint
<1>2. Counted(s, i, a, b) = [s EXCEPT ![i] = p]
  BY DEF Counted
<1> HIDE DEF p
<1>3. [s EXCEPT ![i] = p] \in Seq(Point) /\ Len([s EXCEPT ![i] = p]) = Len(s)
  BY <1>1
<1> QED
  BY <1>2, <1>3

LEMMA AddedToZero == ASSUME NEW d \in Int, NEW a, a = 0, a + d = 0 PROVE d = 0
OBVIOUS

LEMMA Turn == ASSUME NEW c \in Nat, NEW k \in Nat \ {0} PROVE (c % k) + 1 \in 1 .. k
OBVIOUS

(* The next target is a place, wherever it comes from.                      *)
LEMMA PickTarget ==
  ASSUME PlaceInv, Pick
  PROVE  /\ target' \in Int /\ asked' \in 0 .. Len(points') /\ cursor' \in Nat
         /\ points' \in Seq(Point) /\ Len(points') = Len(points)
         /\ since' \in 0 .. Revisit
<1> USE Constants DEF PlaceInv, TypeInts, TypeTable, TypeCounts
<1>1. CASE /\ Scanning /\ target' = ScanTarget(index) /\ asked' = 0
           /\ UNCHANGED <<since, cursor, points>>
  <2>1. (index \div Repeats) % (2 * Steps) \in Int
    OBVIOUS
  <2>2. ScanTarget(index) \in Int
    BY <2>1 DEF ScanTarget
  <2> QED
    BY <1>1, <2>2
<1>2. CASE /\ points # <<>> /\ since >= Revisit
           /\ asked' = (cursor % Len(points)) + 1 /\ cursor' = cursor + 1 /\ since' = 0
           /\ target' = points[asked'].at
           /\ points' = [points EXCEPT ![asked'].planned = @ + 1]
  <2>1. Len(points) \in Nat \ {0}
    BY <1>2
  <2>2. asked' \in 1 .. Len(points)
    BY <1>2, <2>1, Turn
  <2>3. points[asked'] \in Point
    BY <2>2
  <2>4. points[asked'].at \in Int
    BY <2>3 DEF Point
  <2>5. points' \in Seq(Point) /\ Len(points') = Len(points)
    BY <1>2, <2>2, EditedEntry
  <2>6. target' = points[asked'].at /\ cursor' = cursor + 1 /\ since' = 0
    BY <1>2
  <2> QED
    BY <2>2, <2>4, <2>5, <2>6
<1>3. CASE /\ points = <<>> \/ since < Revisit
           /\ target' \in Spots /\ asked' = 0
           /\ since' = IF points = <<>> THEN since ELSE since + 1
           /\ UNCHANGED <<cursor, points>>
  BY <1>3
<1> QED
  BY <1>1, <1>2, <1>3 DEF Pick

(* Every action goes to a place that is named.                              *)
LEMMA ControlStep == PlaceInv /\ [Next]_vars => TypeControl'
<1> SUFFICES ASSUME PlaceInv, [Next]_vars PROVE TypeControl'
  OBVIOUS
<1> USE Constants DEF PlaceInv, TypeControl, Places, motor, setup, loop, score, retest,
        end, Abort, Cancelled
<1>1. CASE Start
  BY <1>1 DEF Start
<1>2. CASE Power
  BY <1>2 DEF Power, PowerOn
<1>3. CASE Zero
  BY <1>3 DEF Zero
<1>4. CASE Finish
  BY <1>4 DEF Finish
<1>5. CASE Round
  BY <1>5 DEF Round
<1>6. CASE Resume
  BY <1>6 DEF Resume
<1>7. CASE Pick
  BY <1>7 DEF Pick
<1>8. CASE SendEnable
  BY <1>8 DEF SendEnable, GiveUp, SendDisable, Disable
<1>9. CASE Confirm
  BY <1>9 DEF Confirm, GiveUp, SendDisable, Disable
<1>10. CASE Move
  BY <1>10 DEF Move, GiveUp, SendDisable, Disable
<1>11. CASE Base
  BY <1>11 DEF Base, SendDisable, Disable
<1>12. CASE BaseZero
  BY <1>12 DEF BaseZero, SendDisable, Disable
<1>13. CASE Off
  BY <1>13 DEF Off, PowerOff, Disable
<1>14. CASE On
  BY <1>14 DEF On, PowerOn
<1>15. CASE OnZero
  BY <1>15 DEF OnZero, PowerOn
<1>16. CASE Compare
  BY <1>16 DEF Compare
<1>17. CASE RetestOff
  BY <1>17 DEF RetestOff, PowerOff, Disable
<1>18. CASE RetestOn
  BY <1>18 DEF RetestOn, PowerOn
<1>19. CASE Anchor
  BY <1>19 DEF Anchor
<1>20. CASE Recheck
  BY <1>20 DEF Recheck, MoveAgain
<1>21. CASE Done
  BY <1>21 DEF Done, Disable
<1>22. CASE Cut
  BY <1>22 DEF Cut, PowerOff, Disable
<1>23. CASE Cancel
  BY <1>23 DEF Cancel
<1>24. CASE UNCHANGED vars
  BY <1>24 DEF vars
<1> QED
  BY <1>1, <1>2, <1>3, <1>4, <1>5, <1>6, <1>7, <1>8, <1>9, <1>10, <1>11, <1>12, <1>13,
     <1>14, <1>15, <1>16, <1>17, <1>18, <1>19, <1>20, <1>21, <1>22, <1>23, <1>24
     DEF Next, Host

(* Every action keeps to the way: a detour within the scan is made at the   *)
(* end of a side only.                                                      *)
LEMMA WayStep == PlaceInv /\ [Next]_vars => WayInv'
<1> SUFFICES ASSUME PlaceInv, [Next]_vars PROVE WayInv'
  OBVIOUS
<1> USE Constants DEF PlaceInv, WayInv, TypeCounts, TypeControl, Scanning, motor, setup,
        loop, score, retest, end, Abort, Cancelled
<1>1. CASE Start
  BY <1>1 DEF Start
<1>2. CASE Power
  BY <1>2 DEF Power, PowerOn
<1>3. CASE Zero
  BY <1>3 DEF Zero
<1>4. CASE Finish
  BY <1>4 DEF Finish
<1>5. CASE Round
  <2>1. UNCHANGED <<index, mode, tries, Total>> /\ pc = "head" /\ index \in Nat
    BY <1>5 DEF Round
  <2>2. CASE Boundary
    <3>1. index % Repeats = 0
      BY <2>1, <2>2, SideEnds DEF Boundary
    <3>2. Scanning /\ index < Total /\ why' = "mid" /\ pc' = "enable"
      BY <2>2, <1>5 DEF Round, Boundary
    <3> QED
      BY <2>1, <3>1, <3>2
  <2>3. CASE ~Boundary
    <3>1. why' = "point" /\ pc' = "pick" /\ (Scanning => index < Total)
      BY <2>3, <1>5 DEF Round
    <3> QED
      BY <2>1, <3>1
  <2> QED
    BY <2>2, <2>3
<1>6. CASE Resume
  BY <1>6 DEF Resume
<1>7. CASE Pick
  BY <1>7 DEF Pick
<1>8. CASE SendEnable
  BY <1>8 DEF SendEnable, GiveUp, SendDisable, Disable
<1>9. CASE Confirm
  BY <1>9 DEF Confirm, GiveUp, SendDisable, Disable
<1>10. CASE Move
  BY <1>10 DEF Move, GiveUp, SendDisable, Disable
<1>11. CASE Base
  BY <1>11 DEF Base, SendDisable, Disable
<1>12. CASE BaseZero
  BY <1>12 DEF BaseZero, SendDisable, Disable
<1>13. CASE Off
  BY <1>13 DEF Off, PowerOff, Disable
<1>14. CASE On
  BY <1>14 DEF On, PowerOn
<1>15. CASE OnZero
  BY <1>15 DEF OnZero, PowerOn
<1>16. CASE Compare
  BY <1>16 DEF Compare
<1>17. CASE RetestOff
  BY <1>17 DEF RetestOff, PowerOff, Disable
<1>18. CASE RetestOn
  BY <1>18 DEF RetestOn, PowerOn
<1>19. CASE Anchor
  BY <1>19 DEF Anchor
<1>20. CASE Recheck
  BY <1>20 DEF Recheck, MoveAgain
<1>21. CASE Done
  BY <1>21 DEF Done, Disable
<1>22. CASE Cut
  BY <1>22 DEF Cut, PowerOff, Disable
<1>23. CASE Cancel
  BY <1>23 DEF Cancel
<1>24. CASE UNCHANGED vars
  BY <1>24 DEF vars
<1> QED
  BY <1>1, <1>2, <1>3, <1>4, <1>5, <1>6, <1>7, <1>8, <1>9, <1>10, <1>11, <1>12, <1>13,
     <1>14, <1>15, <1>16, <1>17, <1>18, <1>19, <1>20, <1>21, <1>22, <1>23, <1>24
     DEF Next, Host

(* Every action keeps the coordinates: a cut may change the drift, and      *)
(* either the comparison finds it and the offset is anchored anew, or the   *)
(* test ends.                                                               *)
LEMMA CoordStep == PlaceInv /\ [Next]_vars => CoordInv'
<1> SUFFICES ASSUME PlaceInv, [Next]_vars PROVE CoordInv'
  OBVIOUS
<1> USE Constants DEF PlaceInv, TypeInts, CoordInv, WayInv, TypeControl, Command, Goal,
        Reading, motor, setup, loop, score, retest, end, Abort, Cancelled
<1>1. CASE Start
  BY <1>1 DEF Start
<1>2. CASE Power
  BY <1>2 DEF Power, PowerOn
<1>3. CASE Zero
  <2>1. at = 0 /\ offset = 0 /\ UNCHANGED <<at, offset, why, before, target>> /\ why = "point"
    BY <1>3 DEF Zero
  <2>2. drift' \in Int
    BY <2>1, <1>3 DEF Zero
  <2>3. (pc' = "head" /\ at + drift' = 0) \/ pc' = "done"
    BY <1>3 DEF Zero
  <2>4. (pc' = "head" /\ drift' = 0) \/ pc' = "done"
    BY <2>1, <2>2, <2>3, AddedToZero
  <2> QED
    BY <2>1, <2>4
<1>4. CASE Finish
  BY <1>4 DEF Finish
<1>5. CASE Round
  BY <1>5 DEF Round
<1>6. CASE Resume
  BY <1>6 DEF Resume
<1>7. CASE Pick
  <2>1. pc = "pick" /\ UNCHANGED <<at, drift, offset, why, before>> /\ offset = 0 /\ offset = drift
    BY <1>7 DEF Pick
  <2>2. pc' = "done" \/ (pc' \in {"enable", "base"} /\ target' + 0 \in Reach)
    BY <2>1, <1>7 DEF Pick
  <2>3. target' \in Int
    BY <1>7, PickTarget
  <2> QED
    BY <2>1, <2>2, <2>3
<1>8. CASE SendEnable
  BY <1>8 DEF SendEnable, GiveUp, SendDisable, Disable, Reach
<1>9. CASE Confirm
  BY <1>9 DEF Confirm, GiveUp, SendDisable, Disable
<1>10. CASE Move
  BY <1>10 DEF Move, GiveUp, SendDisable, Disable, Reach
<1>11. CASE Base
  BY <1>11 DEF Base, SendDisable, Disable
<1>12. CASE BaseZero
  <2>1. pc = "base" /\ why # "point" /\ UNCHANGED <<at, drift, offset, why, before, target>>
    BY <1>12 DEF BaseZero
  <2>2. pc' = "done" \/ (pc' = "off" /\ at + drift = offset)
    BY <1>12 DEF BaseZero
  <2> QED
    BY <2>1, <2>2
<1>13. CASE Off
  BY <1>13 DEF Off, PowerOff, Disable
<1>14. CASE On
  BY <1>14 DEF On, PowerOn
<1>15. CASE OnZero
  BY <1>15 DEF OnZero, PowerOn
<1>16. CASE Compare
  <2>1. pc = "compare" /\ UNCHANGED <<at, drift, offset, why, before, target>>
    BY <1>16 DEF Compare
  <2>2. (at + drift = before /\ pc' = "head") \/ pc' = "retest"
    BY <1>16 DEF Compare
  <2> QED
    BY <2>1, <2>2
<1>17. CASE RetestOff
  BY <1>17 DEF RetestOff, PowerOff, Disable
<1>18. CASE RetestOn
  BY <1>18 DEF RetestOn, PowerOn
<1>19. CASE Anchor
  BY <1>19 DEF Anchor
<1>20. CASE Recheck
  BY <1>20 DEF Recheck, MoveAgain, RebootZero
<1>21. CASE Done
  BY <1>21 DEF Done, Disable
<1>22. CASE Cut
  BY <1>22 DEF Cut, PowerOff, Disable
<1>23. CASE Cancel
  BY <1>23 DEF Cancel
<1>24. CASE UNCHANGED vars
  BY <1>24 DEF vars
<1> QED
  BY <1>1, <1>2, <1>3, <1>4, <1>5, <1>6, <1>7, <1>8, <1>9, <1>10, <1>11, <1>12, <1>13,
     <1>14, <1>15, <1>16, <1>17, <1>18, <1>19, <1>20, <1>21, <1>22, <1>23, <1>24
     DEF Next, Host

(* Between two comparisons at an angle no move is needed.                   *)
LEMMA SameAngle ==
  ASSUME NEW k \in Nat, k > 0, k % Repeats # 0
  PROVE  ScanTarget(k - 1) = ScanTarget(k)
<1>1. (k - 1) \div Repeats = k \div Repeats
  BY Constants, AngleStays
<1> QED
  BY <1>1 DEF ScanTarget

(* Every action keeps the motor's place in the scan.                        *)
LEMMA ThereStep == PlaceInv /\ ThereInv /\ [Next]_vars => ThereInv'
<1> SUFFICES ASSUME PlaceInv /\ ThereInv, [Next]_vars PROVE ThereInv'
  OBVIOUS
<1> USE Constants DEF PlaceInv, WayInv, ThereInv, Scanning, motor, setup, loop, score,
        retest, end, Abort, Cancelled
<1>1. CASE Start
  BY <1>1 DEF Start, ScanTarget
<1>2. CASE Power
  BY <1>2 DEF Power, PowerOn, ScanTarget
<1>3. CASE Zero
  BY <1>3 DEF Zero, ScanTarget
<1>4. CASE Finish
  BY <1>4 DEF Finish, ScanTarget
<1>5. CASE Round
  BY <1>5 DEF Round, ScanTarget
<1>6. CASE Resume
  BY <1>6 DEF Resume, ScanTarget
<1>7. CASE Pick
  <2>1. pc = "pick" /\ UNCHANGED <<at, force, mode, arrived, why>> /\ why = "point"
          /\ pc' \in {"done", "enable", "base"} /\ index \in Nat
    BY <1>7 DEF Pick, WayInv, TypeCounts
  <2>2. CASE Scanning
    <3>1. /\ target' = ScanTarget(index) /\ index' = index + 1
          /\ moved' = (index % Repeats = 0 \/ force)
      BY <2>2, <1>7 DEF Pick
    <3>2. index' > 0 /\ index' - 1 = index
      BY <2>1, <3>1
    <3>3. target' = ScanTarget(index' - 1)
      BY <3>1, <3>2
    <3>4. ScanTarget(index' - 1) = ScanTarget(index - 1)'
      BY <2>1 DEF ScanTarget
    <3>5. pc' = "base" /\ arrived => at = ScanTarget(index)
      <4>1. pc' = "base" => ~moved'
        BY <1>7 DEF Pick
      <4> QED
        BY <2>1, <2>2, <3>1, <4>1
    <3> QED
      BY <2>1, <3>1, <3>2, <3>3, <3>4, <3>5
  <2>3. CASE ~Scanning
    <3>1. pc' # "base"
      BY <2>3, <1>7 DEF Pick
    <3> QED
      BY <2>1, <2>3, <3>1
  <2> QED
    BY <2>2, <2>3
<1>8. CASE SendEnable
  BY <1>8 DEF SendEnable, GiveUp, SendDisable, Disable, ScanTarget
<1>9. CASE Confirm
  BY <1>9 DEF Confirm, GiveUp, SendDisable, Disable, ScanTarget
<1>10. CASE Move
  <2>1. UNCHANGED <<index, mode, target, why>> /\ pc = "moving"
    BY <1>10 DEF Move
  <2>2. pc' = "done" \/ (pc' = "base" /\ (arrived' /\ why = "point" => at' = target))
    <3>1. why = "point" => Command(Goal) - drift = target
      BY <2>1 DEF CoordInv, TypeInts, Goal, Command
    <3>2. pc' = "done" \/ (pc' = "base" /\ (at' = Command(Goal) - drift \/ arrived' = FALSE))
      BY <1>10 DEF Move, GiveUp
    <3> QED
      BY <3>1, <3>2
  <2> QED
    BY <2>1, <2>2 DEF ScanTarget
<1>11. CASE Base
  BY <1>11 DEF Base, SendDisable, Disable, ScanTarget
<1>12. CASE BaseZero
  BY <1>12 DEF BaseZero, SendDisable, Disable, ScanTarget
<1>13. CASE Off
  BY <1>13 DEF Off, PowerOff, Disable, ScanTarget
<1>14. CASE On
  BY <1>14 DEF On, PowerOn, ScanTarget
<1>15. CASE OnZero
  BY <1>15 DEF OnZero, PowerOn, ScanTarget
<1>16. CASE Compare
  <2>1. pc = "compare" /\ UNCHANGED <<index, mode, at, arrived, target, why, force>>
    BY <1>16 DEF Compare
  <2>2. why = "point" /\ index \in Nat
    BY <2>1 DEF WayInv, TypeCounts
  <2>3. pc' \in {"head", "retest"}
    BY <1>16 DEF Compare
  <2>4. Scanning /\ index % Repeats # 0 /\ arrived => at = ScanTarget(index)
    BY <2>1, <2>2, SameAngle
  <2> QED
    BY <2>1, <2>2, <2>3, <2>4 DEF ScanTarget
<1>17. CASE RetestOff
  BY <1>17 DEF RetestOff, PowerOff, Disable, ScanTarget
<1>18. CASE RetestOn
  BY <1>18 DEF RetestOn, PowerOn, ScanTarget
<1>19. CASE Anchor
  BY <1>19 DEF Anchor, ScanTarget
<1>20. CASE Recheck
  <2>1. UNCHANGED <<index, mode, at, arrived, target, why>> /\ pc = "recheck"
    BY <1>20 DEF Recheck
  <2>2. pc' = "done" \/ (pc' = "head" /\ force' = TRUE) \/ (pc' = "mid" /\ why = "mid")
    BY <1>20 DEF Recheck, MoveAgain
  <2>3. pc' = "mid" => index % Repeats = 0
    BY <2>2 DEF WayInv
  <2> QED
    BY <2>1, <2>2, <2>3
<1>21. CASE Done
  BY <1>21 DEF Done, ScanTarget
<1>22. CASE Cut
  BY <1>22 DEF Cut, PowerOff, Disable, ScanTarget
<1>23. CASE Cancel
  BY <1>23 DEF Cancel, ScanTarget
<1>24. CASE UNCHANGED vars
  BY <1>24 DEF vars, ScanTarget
<1> QED
  BY <1>1, <1>2, <1>3, <1>4, <1>5, <1>6, <1>7, <1>8, <1>9, <1>10, <1>11, <1>12, <1>13,
     <1>14, <1>15, <1>16, <1>17, <1>18, <1>19, <1>20, <1>21, <1>22, <1>23, <1>24
     DEF Next, Host

(* A move ends within the reach of the motor, since its offset is true.     *)
LEMMA IntsStep == PlaceInv /\ [Next]_vars => TypeInts' /\ at' \in Reach'
<1> SUFFICES ASSUME PlaceInv, [Next]_vars PROVE TypeInts' /\ at' \in Reach'
  OBVIOUS
<1> USE Constants DEF PlaceInv, TypeInts, TypeControl, CoordInv, WayInv, Command, Goal,
        Reading, motor, setup, loop, score, retest, end, Abort, Cancelled
<1>1. CASE Start
  BY <1>1 DEF Start
<1>2. CASE Power
  BY <1>2 DEF Power, PowerOn
<1>3. CASE Zero
  BY <1>3 DEF Zero
<1>4. CASE Finish
  BY <1>4 DEF Finish
<1>5. CASE Round
  BY <1>5 DEF Round
<1>6. CASE Resume
  BY <1>6 DEF Resume
<1>7. CASE Pick
  <2>1. UNCHANGED <<at, drift, offset, before>>
    BY <1>7 DEF Pick
  <2> QED
    BY <1>7, <2>1, PickTarget
<1>8. CASE SendEnable
  BY <1>8 DEF SendEnable, GiveUp, SendDisable, Disable
<1>9. CASE Confirm
  BY <1>9 DEF Confirm, GiveUp, SendDisable, Disable
<1>10. CASE Move
  <2>1. UNCHANGED <<drift, offset, before, target>>
    BY <1>10 DEF Move
  <2>2. at' \in Spots \/ at' = Command(Goal) - drift
    BY <1>10 DEF Move
  <2>3. Goal \in Reach
    BY <1>10 DEF Move, Reach
  <2>4. Command(Goal) - drift = Goal
    BY <2>3, <1>10 DEF Move
  <2> QED
    BY <2>1, <2>2, <2>3, <2>4 DEF Reach
<1>11. CASE Base
  <2>1. UNCHANGED <<at, drift, offset, target>> /\ (before' = before \/ before' = Reading)
    BY <1>11 DEF Base
  <2> QED
    BY <2>1
<1>12. CASE BaseZero
  BY <1>12 DEF BaseZero, SendDisable, Disable
<1>13. CASE Off
  BY <1>13 DEF Off, PowerOff, Disable
<1>14. CASE On
  BY <1>14 DEF On, PowerOn
<1>15. CASE OnZero
  BY <1>15 DEF OnZero, PowerOn
<1>16. CASE Compare
  BY <1>16 DEF Compare
<1>17. CASE RetestOff
  BY <1>17 DEF RetestOff, PowerOff, Disable
<1>18. CASE RetestOn
  BY <1>18 DEF RetestOn, PowerOn
<1>19. CASE Anchor
  BY <1>19 DEF Anchor
<1>20. CASE Recheck
  BY <1>20 DEF Recheck, MoveAgain
<1>21. CASE Done
  BY <1>21 DEF Done, Disable
<1>22. CASE Cut
  BY <1>22 DEF Cut, PowerOff, Disable
<1>23. CASE Cancel
  BY <1>23 DEF Cancel
<1>24. CASE UNCHANGED vars
  BY <1>24 DEF vars
<1> QED
  BY <1>1, <1>2, <1>3, <1>4, <1>5, <1>6, <1>7, <1>8, <1>9, <1>10, <1>11, <1>12, <1>13,
     <1>14, <1>15, <1>16, <1>17, <1>18, <1>19, <1>20, <1>21, <1>22, <1>23, <1>24
     DEF Next, Host

(* Every action keeps the counts.                                           *)
LEMMA CountsStep == PlaceInv /\ [Next]_vars => TypeCounts'
<1> SUFFICES ASSUME PlaceInv, [Next]_vars PROVE TypeCounts'
  OBVIOUS
<1> USE Constants DEF PlaceInv, TypeInts, TypeCounts, WayInv, motor, setup, loop, score,
        retest, end, Abort, Cancelled
<1>1. CASE Start
  BY <1>1 DEF Start
<1>2. CASE Power
  BY <1>2 DEF Power, PowerOn
<1>3. CASE Zero
  BY <1>3 DEF Zero
<1>4. CASE Finish
  BY <1>4 DEF Finish
<1>5. CASE Round
  BY <1>5 DEF Round
<1>6. CASE Resume
  BY <1>6 DEF Resume
<1>7. CASE Pick
  <2>1. UNCHANGED <<count, n, tries, passed, failures, compared, Total>>
    BY <1>7 DEF Pick
  <2>2. (index' = index + 1 /\ index < Total) \/ UNCHANGED index
    BY <1>7 DEF Pick
  <2>3. index' \in 0 .. Total
    BY <2>2
  <2> QED
    BY <1>7, <2>1, <2>3, PickTarget
<1>8. CASE SendEnable
  BY <1>8 DEF SendEnable, GiveUp, SendDisable, Disable
<1>9. CASE Confirm
  BY <1>9 DEF Confirm, GiveUp, SendDisable, Disable
<1>10. CASE Move
  BY <1>10 DEF Move, GiveUp, SendDisable, Disable
<1>11. CASE Base
  BY <1>11 DEF Base, SendDisable, Disable
<1>12. CASE BaseZero
  BY <1>12 DEF BaseZero, SendDisable, Disable
<1>13. CASE Off
  BY <1>13 DEF Off, PowerOff, Disable
<1>14. CASE On
  BY <1>14 DEF On, PowerOn
<1>15. CASE OnZero
  BY <1>15 DEF OnZero, PowerOn
<1>16. CASE Compare
  <2>1. UNCHANGED <<count, index, since>> /\ tries' = 0
    BY <1>16 DEF Compare
  <2>2. n' = n \/ n' = n + 1
    BY <1>16 DEF Compare
  <2>3. /\ passed' = passed + 1 \/ passed' = passed + 0
        /\ failures' = failures + 1 \/ failures' = failures + 0
    BY <1>16 DEF Compare
  <2>4. compared' = compared \/ compared' = [compared EXCEPT ![target] = @ + 1]
    BY <1>16 DEF Compare
  <2>5. compared' \in [Angles -> Nat]
    BY <2>4
  <2> QED
    BY <2>1, <2>2, <2>3, <2>5
<1>17. CASE RetestOff
  BY <1>17 DEF RetestOff, PowerOff, Disable
<1>18. CASE RetestOn
  BY <1>18 DEF RetestOn, PowerOn, Tried
<1>19. CASE Anchor
  BY <1>19 DEF Anchor
<1>20. CASE Recheck
  BY <1>20 DEF Recheck, MoveAgain
<1>21. CASE Done
  BY <1>21 DEF Done, Disable
<1>22. CASE Cut
  BY <1>22 DEF Cut, PowerOff, Disable
<1>23. CASE Cancel
  BY <1>23 DEF Cancel
<1>24. CASE UNCHANGED vars
  BY <1>24 DEF vars
<1> QED
  BY <1>1, <1>2, <1>3, <1>4, <1>5, <1>6, <1>7, <1>8, <1>9, <1>10, <1>11, <1>12, <1>13,
     <1>14, <1>15, <1>16, <1>17, <1>18, <1>19, <1>20, <1>21, <1>22, <1>23, <1>24
     DEF Next, Host

(* What the comparison makes of the table is a table.                       *)
LEMMA CompareTable ==
  ASSUME PlaceInv, Compare
  PROVE  TypeTable'
<1> USE Constants DEF PlaceInv, TypeInts, TypeTable
<1> DEFINE here == before - offset
           ok   == Reading = before
           hit  == asked # 0 /\ here = target
           old  == IF hit THEN asked ELSE IF Found(here) = {} THEN 0
                   ELSE CHOOSE i \in Found(here) : TRUE
           new  == ~ok /\ old = 0 /\ Room
           miss == IF asked # 0 /\ ~hit THEN [points EXCEPT ![asked].missed = @ + 1] ELSE points
           blank == [at |-> here, observed |-> 0, fails |-> 0,
                     planned |-> 0, reproduced |-> 0, missed |-> 0]
           all  == IF new THEN Append(miss, blank) ELSE miss
           one(b) == IF b THEN 1 ELSE 0
<1>1. old \in 0 .. Len(points)
  BY DEF Found
<1>2. miss \in Seq(Point) /\ Len(miss) = Len(points)
  <2>1. CASE asked # 0 /\ ~hit
    <3>1. asked \in 1 .. Len(points) /\ miss = [points EXCEPT ![asked].missed = @ + 1]
      BY <2>1
    <3> QED
      BY <3>1, EditedEntry
  <2>2. CASE ~(asked # 0 /\ ~hit)
    BY <2>2
  <2> QED
    BY <2>1, <2>2
<1>3. blank \in Point
  BY DEF Point
<1>4. /\ all \in Seq(Point) /\ Len(all) <= PointMax /\ Len(points) <= Len(all)
      /\ new => Len(all) > 0
  BY <1>2, <1>3 DEF Room
<1>5. point' = (IF new THEN Len(all) ELSE old)
  BY DEF Compare
<1>6. point' \in 0 .. Len(all)
  <2> HIDE DEF all, new, old
  <2>1. Len(all) \in Nat
    BY <1>4
  <2> QED
    BY <1>1, <1>4, <1>5, <2>1
<1>7. points' = IF point' = 0 THEN all
               ELSE [all EXCEPT ![point'].observed = @ + 1,
                                ![point'].fails = @ + one(~ok),
                                ![point'].reproduced = @ + one(~ok /\ hit)]
  BY DEF Compare
<1>8. points' \in Seq(Point) /\ Len(points') = Len(all)
  <2>1. CASE point' = 0
    BY <1>4, <1>7, <2>1
  <2>2. CASE point' # 0
    <3>1. one(~ok) \in Nat /\ one(~ok /\ hit) \in Nat
      OBVIOUS
    <3> HIDE DEF all, one, ok, hit
    <3>2. points' = [all EXCEPT ![point'].observed = @ + 1,
                                ![point'].fails = @ + one(~ok),
                                ![point'].reproduced = @ + one(~ok /\ hit)]
      BY <1>7, <2>2
    <3>3. point' \in 1 .. Len(all)
      BY <1>4, <1>6, <2>2
    <3>4. all \in Seq(Point)
      BY <1>4
    <3>5. points' = Counted(all, point', one(~ok), one(~ok /\ hit))
      BY <3>2 DEF Counted
    <3> QED
      BY <3>1, <3>3, <3>4, <3>5, CountedEntry
  <2> QED
    BY <2>1, <2>2
<1>9. UNCHANGED <<asked, cursor>>
  BY DEF Compare
<1> HIDE DEF all
<1> QED
  BY <1>4, <1>6, <1>8, <1>9

(* Every action keeps the table.                                            *)
LEMMA TableStep == PlaceInv /\ [Next]_vars => TypeTable'
<1> SUFFICES ASSUME PlaceInv, [Next]_vars PROVE TypeTable'
  OBVIOUS
<1> USE Constants DEF PlaceInv, TypeInts, TypeTable, motor, setup, loop, score, retest,
        end, Abort, Cancelled
<1>1. CASE Start
  BY <1>1 DEF Start
<1>2. CASE Power
  BY <1>2 DEF Power, PowerOn
<1>3. CASE Zero
  BY <1>3 DEF Zero
<1>4. CASE Finish
  BY <1>4 DEF Finish
<1>5. CASE Round
  BY <1>5 DEF Round
<1>6. CASE Resume
  BY <1>6 DEF Resume
<1>7. CASE Pick
  <2>1. UNCHANGED point
    BY <1>7 DEF Pick
  <2> QED
    BY <2>1, <1>7, PickTarget
<1>8. CASE SendEnable
  BY <1>8 DEF SendEnable, GiveUp, SendDisable, Disable
<1>9. CASE Confirm
  BY <1>9 DEF Confirm, GiveUp, SendDisable, Disable
<1>10. CASE Move
  BY <1>10 DEF Move, GiveUp, SendDisable, Disable
<1>11. CASE Base
  BY <1>11 DEF Base, SendDisable, Disable
<1>12. CASE BaseZero
  BY <1>12 DEF BaseZero, SendDisable, Disable
<1>13. CASE Off
  BY <1>13 DEF Off, PowerOff, Disable
<1>14. CASE On
  BY <1>14 DEF On, PowerOn
<1>15. CASE OnZero
  BY <1>15 DEF OnZero, PowerOn
<1>16. CASE Compare
  BY <1>16, CompareTable
<1>17. CASE RetestOff
  BY <1>17 DEF RetestOff, PowerOff, Disable
<1>18. CASE RetestOn
  BY <1>18 DEF RetestOn, PowerOn
<1>19. CASE Anchor
  BY <1>19 DEF Anchor
<1>20. CASE Recheck
  BY <1>20 DEF Recheck, MoveAgain
<1>21. CASE Done
  BY <1>21 DEF Done, Disable
<1>22. CASE Cut
  BY <1>22 DEF Cut, PowerOff, Disable
<1>23. CASE Cancel
  BY <1>23 DEF Cancel
<1>24. CASE UNCHANGED vars
  BY <1>24 DEF vars
<1> QED
  BY <1>1, <1>2, <1>3, <1>4, <1>5, <1>6, <1>7, <1>8, <1>9, <1>10, <1>11, <1>12, <1>13,
     <1>14, <1>15, <1>16, <1>17, <1>18, <1>19, <1>20, <1>21, <1>22, <1>23, <1>24
     DEF Next, Host

(* Every action keeps the account of jumps.                                 *)
LEMMA PassStep == PlaceInv /\ TypeFlags /\ PassInv /\ [Next]_vars => PassInv'
<1> SUFFICES ASSUME PlaceInv /\ TypeFlags /\ PassInv, [Next]_vars PROVE PassInv'
  OBVIOUS
<1> USE Constants DEF PlaceInv, WayInv, CoordInv, TypeInts, TypeCounts, PassInv, motor,
        setup, loop, score, retest, end, Abort, Cancelled
<1>1. CASE Start
  BY <1>1 DEF Start
<1>2. CASE Power
  BY <1>2 DEF Power, PowerOn
<1>3. CASE Zero
  BY <1>3 DEF Zero
<1>4. CASE Finish
  BY <1>4 DEF Finish
<1>5. CASE Round
  BY <1>5 DEF Round
<1>6. CASE Resume
  BY <1>6 DEF Resume
<1>7. CASE Pick
  BY <1>7 DEF Pick
<1>8. CASE SendEnable
  BY <1>8 DEF SendEnable, GiveUp, SendDisable, Disable
<1>9. CASE Confirm
  BY <1>9 DEF Confirm, GiveUp, SendDisable, Disable
<1>10. CASE Move
  BY <1>10 DEF Move, GiveUp, SendDisable, Disable
<1>11. CASE Base
  BY <1>11 DEF Base, SendDisable, Disable
<1>12. CASE BaseZero
  BY <1>12 DEF BaseZero, SendDisable, Disable
<1>13. CASE Off
  BY <1>13 DEF Off, PowerOff, Disable
<1>14. CASE On
  BY <1>14 DEF On, PowerOn
<1>15. CASE OnZero
  <2>1. /\ pc = "on" /\ why # "point" /\ ~completed
        /\ UNCHANGED <<at, offset, completed, cancel, failures, why>>
    BY <1>15 DEF OnZero, PowerOn
  <2>2. ~completed' /\ pc' \in {"recheck", "done"}
    BY <2>1, <1>15 DEF OnZero, PowerOn
  <2>3. failures = 0 => offset = 0 /\ drift = 0 /\ ~slipped
    BY <2>1
  <2>4. UNCHANGED <<drift, slipped>> \/ slipped' = (slipped \/ drift' # drift)
    BY <2>1, <1>15 DEF OnZero, PowerOn
  <2>5. failures = 0 /\ slipped' => drift' # 0
    BY <2>3, <2>4
  <2> QED
    BY <2>1, <2>2, <2>5
<1>16. CASE Compare
  <2>1. pc = "compare" /\ UNCHANGED <<at, drift, offset, slipped, completed, cancel, supply, why>>
          /\ before = at + offset /\ ~completed
    BY <1>16 DEF Compare
  <2>2. ~completed'
    BY <2>1
  <2>3. CASE at + drift = before
    <3>1. pc' = "head" /\ failures' = failures + 0
      BY <2>3, <1>16 DEF Compare, Reading
    <3>2. drift = offset
      BY <2>1, <2>3
    <3>3. slipped => failures # 0
      BY <2>1, <3>2
    <3>4. slipped' => failures' # 0
      BY <2>1, <3>1, <3>3
    <3> QED
      BY <2>1, <2>2, <3>1, <3>4
  <2>4. CASE at + drift # before
    <3>1. pc' = "retest" /\ failures' = failures + 1
      BY <2>4, <1>16 DEF Compare, Reading
    <3> QED
      BY <2>1, <2>2, <3>1
  <2> QED
    BY <2>3, <2>4
<1>17. CASE RetestOff
  BY <1>17 DEF RetestOff, PowerOff, Disable
<1>18. CASE RetestOn
  <2>1. pc = "retestOn" /\ pc' = "retest" /\ UNCHANGED <<completed, failures, why>> /\ ~completed
    BY <1>18 DEF RetestOn
  <2>2. ~completed'
    BY <2>1
  <2> QED
    BY <2>1, <2>2
<1>19. CASE Anchor
  BY <1>19 DEF Anchor
<1>20. CASE Recheck
  BY <1>20 DEF Recheck, MoveAgain, RebootZero, Reading
<1>21. CASE Done
  BY <1>21 DEF Done, Disable
<1>22. CASE Cut
  <2>1. pc = "cut" /\ pc' = "ended" /\ UNCHANGED <<why, failures, cancel>>
    BY <1>22 DEF Cut, PowerOff
  <2>2. completed' => completed /\ ~supply'
    <3>1. CASE ~supply
      BY <1>22, <3>1 DEF Cut, PowerOff, TypeFlags
    <3>2. CASE supply
      BY <1>22, <3>2 DEF Cut, PowerOff, TypeFlags
    <3> QED
      BY <3>1, <3>2
  <2>3. UNCHANGED slipped
    BY <1>22 DEF Cut, PowerOff
  <2>4. why = "recover" => failures > 0
    BY <2>1
  <2>5. slipped' /\ failures' = 0 => ~completed'
    BY <2>1, <2>2, <2>3
  <2> QED
    BY <2>1, <2>2, <2>4, <2>5
<1>23. CASE Cancel
  BY <1>23 DEF Cancel
<1>24. CASE UNCHANGED vars
  BY <1>24 DEF vars
<1> QED
  BY <1>1, <1>2, <1>3, <1>4, <1>5, <1>6, <1>7, <1>8, <1>9, <1>10, <1>11, <1>12, <1>13,
     <1>14, <1>15, <1>16, <1>17, <1>18, <1>19, <1>20, <1>21, <1>22, <1>23, <1>24
     DEF Next, Host

(* Every action keeps the tally; only the comparison adds to it.            *)
LEMMA TallyStep == PlaceInv /\ ThereInv /\ PassInv /\ TallyInv /\ [Next]_vars => TallyInv'
<1> SUFFICES ASSUME PlaceInv /\ ThereInv /\ PassInv /\ TallyInv, [Next]_vars PROVE TallyInv'
  OBVIOUS
<1> USE Constants DEF PlaceInv, WayInv, TypeCounts, PassInv, TallyInv, Underway,
        Scanning, motor, setup, loop, score, retest, end, Abort, Cancelled
<1>1. CASE Start
  <2>1. /\ index = 0 /\ compared = [a \in Angles |-> 0] /\ pc' = "power"
        /\ UNCHANGED <<index, compared>>
    BY <1>1 DEF Start
  <2>2. (\A a \in Angles : compared[a] = TallyOf(0, RankOf(a)))'
    <3>1. ASSUME NEW a \in Angles PROVE RankOf(a)' \in 0 .. 2 * Steps - 1
      BY Mirrored DEF RankOf
    <3>2. ASSUME NEW a \in Angles PROVE TallyOf(0, RankOf(a)') = 0
      BY <3>1, CycleTally
    <3> QED
      BY <2>1, <3>2
  <2> QED
    BY <2>1, <2>2
<1>2. CASE Power
  BY <1>2 DEF Power, PowerOn, RankOf
<1>3. CASE Zero
  BY <1>3 DEF Zero, RankOf
<1>4. CASE Finish
  BY <1>4 DEF Finish, RankOf
<1>5. CASE Round
  BY <1>5 DEF Round, RankOf
<1>6. CASE Resume
  BY <1>6 DEF Resume, RankOf
<1>7. CASE Pick
  BY <1>7 DEF Pick, RankOf
<1>8. CASE SendEnable
  BY <1>8 DEF SendEnable, GiveUp, SendDisable, Disable, RankOf
<1>9. CASE Confirm
  BY <1>9 DEF Confirm, GiveUp, SendDisable, Disable, RankOf
<1>10. CASE Move
  BY <1>10 DEF Move, GiveUp, SendDisable, Disable, RankOf
<1>11. CASE Base
  BY <1>11 DEF Base, SendDisable, Disable, RankOf
<1>12. CASE BaseZero
  BY <1>12 DEF BaseZero, SendDisable, Disable, RankOf
<1>13. CASE Off
  BY <1>13 DEF Off, PowerOff, Disable, RankOf
<1>14. CASE On
  BY <1>14 DEF On, PowerOn, RankOf
<1>15. CASE OnZero
  BY <1>15 DEF OnZero, PowerOn, RankOf
<1>16. CASE Compare
  <2>1. /\ pc = "compare" /\ why = "point" /\ pc' \in {"head", "retest"}
        /\ UNCHANGED <<index, mode, why>>
    BY <1>16 DEF Compare
  <2>2. CASE Scanning
    <3>1. index - 1 \in Nat /\ target = ScanTarget(index - 1)
      BY <2>1, <2>2 DEF ThereInv
    <3>2. compared' = [compared EXCEPT ![target] = @ + 1]
      BY <2>2, <1>16 DEF Compare
    <3>3. ASSUME NEW a \in Angles PROVE compared'[a] = TallyOf(index, RankOf(a))
      <4>1. compared[a] = TallyOf(index - 1, RankOf(a))
        BY <2>1, <2>2
      <4>2. RankOf(a) \in 0 .. 2 * Steps - 1
            /\ (((index - 1) \div Repeats) % (2 * Steps) = RankOf(a) <=> target = a)
        BY <3>1, CycleRankHit
      <4>3. TallyOf((index - 1) + 1, RankOf(a))
              = TallyOf(index - 1, RankOf(a)) + (IF target = a THEN 1 ELSE 0)
        BY <3>1, <4>2, CycleTally
      <4>4. (index - 1) + 1 = index
        BY <3>1
      <4>5. compared'[a] = compared[a] + (IF target = a THEN 1 ELSE 0)
        BY <3>2
      <4> QED
        BY <4>1, <4>3, <4>4, <4>5
    <3> QED
      BY <2>1, <3>3 DEF RankOf
  <2>3. CASE ~Scanning
    BY <2>1, <2>3
  <2> QED
    BY <2>2, <2>3
<1>17. CASE RetestOff
  BY <1>17 DEF RetestOff, PowerOff, Disable, RankOf
<1>18. CASE RetestOn
  BY <1>18 DEF RetestOn, PowerOn, RankOf
<1>19. CASE Anchor
  BY <1>19 DEF Anchor, RankOf
<1>20. CASE Recheck
  BY <1>20 DEF Recheck, MoveAgain, RankOf
<1>21. CASE Done
  BY <1>21 DEF Done, RankOf
<1>22. CASE Cut
  BY <1>22 DEF Cut, PowerOff, Disable, RankOf
<1>23. CASE Cancel
  BY <1>23 DEF Cancel, RankOf
<1>24. CASE UNCHANGED vars
  BY <1>24 DEF vars, RankOf
<1> QED
  BY <1>1, <1>2, <1>3, <1>4, <1>5, <1>6, <1>7, <1>8, <1>9, <1>10, <1>11, <1>12, <1>13,
     <1>14, <1>15, <1>16, <1>17, <1>18, <1>19, <1>20, <1>21, <1>22, <1>23, <1>24
     DEF Next, Host

LEMMA PlaceStep == PlaceInv /\ [Next]_vars => PlaceInv'
BY ControlStep, WayStep, CoordStep, IntsStep, CountsStep, TableStep DEF PlaceInv

-----------------------------------------------------------------------------
(* All of it holds in every reachable state.                                *)
LEMMA PlaceAlways == Spec => [](PlaceInv /\ TypeFlags /\ ThereInv /\ PassInv /\ TallyInv)
BY PlaceInit, PlaceStep, FlagsStep, ThereStep, PassStep, TallyStep, PTL DEF Spec

(* Every reachable state of the test is well typed, for every scan, table and  *)
(* set of drifts: the motor stays within its reach, and the table within its   *)
(* room.                                                                    *)
THEOREM CycleTyped == Spec => []TypeOK
<1>1. PlaceInv /\ TypeFlags => TypeOK
  BY TypeOfParts DEF PlaceInv
<1> QED
  BY <1>1, PlaceAlways, PTL

(* However often the reading jumps, the motor is driven only while the software *)
(* offset is the true shift of its coordinates.                             *)
THEOREM CycleCoordinatesTrue == Spec => []CoordinatesTrue
<1>1. PlaceInv => CoordinatesTrue
  BY DEF PlaceInv, CoordInv, CoordinatesTrue
<1> QED
  BY <1>1, PlaceAlways, PTL

(* A round recorded as having reached its target is compared there, whatever    *)
(* detours the motor made to zero between comparisons at one angle.          *)
THEOREM CycleReachedMeansThere == Spec => []ReachedMeansThere
<1>1. PlaceInv /\ ThereInv => ReachedMeansThere
  BY DEF PlaceInv, WayInv, ThereInv, ReachedMeansThere
<1> QED
  BY <1>1, PlaceAlways, PTL

(* PASS means that the reading never slipped, nobody cancelled, and the supply is *)
(* off; and whatever way a full scan is completed, every angle was compared as  *)
(* often as asked.                                                          *)
THEOREM CyclePassEarned == Spec => []PassEarned
<1>1. ASSUME PlaceInv, TypeFlags, PassInv, TallyInv PROVE PassEarned
  <2> SUFFICES ASSUME pc = "ended" PROVE PassEarned
    BY DEF PassEarned
  <2>1. ASSUME Outcome = "PASS" PROVE ~supply /\ ~slipped /\ failures = 0 /\ cancel \cap {"x"} = {}
    <3>1. completed /\ failures = 0
      BY <2>1 DEF Outcome
    <3>2. "x" \notin cancel /\ ~supply /\ ~slipped
      BY <1>1, <3>1 DEF PassInv
    <3> QED
      BY <3>1, <3>2
  <2>2. ASSUME completed, Scanning, index = Total, NEW a \in Angles
        PROVE  compared[a] = Repeats * Rounds
    <3>1. compared[a] = TallyOf(Total, RankOf(a))
      BY <1>1, <2>2 DEF TallyInv, Underway
    <3>2. RankOf(a) \in 0 .. 2 * Steps - 1
      BY <2>2, CycleRankHit, 0 \in Nat
    <3> QED
      BY <3>1, <3>2, CycleTally
  <2> QED
    BY <2>1, <2>2 DEF PassEarned
<1> QED
  BY <1>1, PlaceAlways, PTL

-----------------------------------------------------------------------------
(* The table of anomalies.  A sum over it is a recursive function; what is     *)
(* claimed of every length is argued from the least length that fails it.    *)
LEMMA Least ==
  ASSUME NEW T \in SUBSET Nat, T # {}
  PROVE  \E x \in T : \A y \in T : x <= y
<1>1. PICK x \in T : \A y \in T : ~ (<<y, x>> \in OpToRel(<, Nat))
  BY NatLessThanWellFounded, WFMin
<1>2. ASSUME NEW y \in T PROVE x <= y
  <2>1. <<y, x>> \notin OpToRel(<, Nat)
    BY <1>1
  <2>2. ~(y < x)
    BY <2>1 DEF OpToRel
  <2> QED
    BY <2>2
<1> QED
  BY <1>2

(* The sums of the failures in the beginnings of s, up to the length m.       *)
Sums(s, f, m) ==
  /\ f \in [0 .. m -> Nat] /\ f[0] = 0
  /\ \A k \in 1 .. m : f[k] = f[k - 1] + s[k].fails

LEMMA SumsExist ==
  ASSUME NEW s \in Seq(Point), NEW m \in 0 .. Len(s)
  PROVE  \E f : Sums(s, f, m)
<1> DEFINE T == {k \in 0 .. Len(s) : ~ \E f : Sums(s, f, k)}
<1>1. SUFFICES ASSUME T # {} PROVE FALSE
  OBVIOUS
<1>2. PICK x \in T : \A y \in T : x <= y
  <2>1. T \in SUBSET Nat
    OBVIOUS
  <2> HIDE DEF T
  <2> QED
    BY <1>1, <2>1, Least
<1>3. CASE x = 0
  <2>1. Sums(s, [k \in 0 .. 0 |-> 0], 0)
    BY DEF Sums
  <2> QED
    BY <1>3, <2>1
<1>4. CASE x # 0
  <2>1. x - 1 \in 0 .. Len(s) /\ x \in 1 .. Len(s)
    BY <1>4
  <2>2. x - 1 \notin T
    BY <1>2
  <2>3. PICK f : Sums(s, f, x - 1)
    BY <2>1, <2>2
  <2>4. s[x].fails \in Nat
    <3>1. s[x] \in Point
      BY <2>1
    <3> QED
      BY <3>1 DEF Point
  <2> DEFINE g == [k \in 0 .. x |-> IF k = x THEN f[x - 1] + s[x].fails ELSE f[k]]
  <2>5. g \in [0 .. x -> Nat] /\ g[0] = 0
    BY <2>1, <2>3, <2>4, <1>4 DEF Sums
  <2>6. ASSUME NEW k \in 1 .. x PROVE g[k] = g[k - 1] + s[k].fails
    BY <2>1, <2>3, <1>4 DEF Sums
  <2>7. Sums(s, g, x)
    BY <2>5, <2>6 DEF Sums
  <2> QED
    BY <2>1, <2>7
<1> QED
  BY <1>3, <1>4

(* Whatever sums them up, FailsIn is the last of its sums.                   *)
LEMMA FailsAreSum ==
  ASSUME NEW s \in Seq(Point), NEW f, Sums(s, f, Len(s))
  PROVE  FailsIn(s) = f[Len(s)]
<1> DEFINE rec(h) == [k \in 0 .. Len(s) |-> IF k = 0 THEN 0 ELSE h[k - 1] + s[k].fails]
<1>1. f = rec(f)
  BY DEF Sums
<1>2. PICK h : h = (CHOOSE q : q = rec(q))
  OBVIOUS
<1>3. h = rec(h)
  BY <1>1, <1>2
<1>4. \A k \in 0 .. Len(s) : h[k] = IF k = 0 THEN 0 ELSE h[k - 1] + s[k].fails
  BY <1>3
<1>5. \A k \in 0 .. Len(s) : h[k] = f[k]
  <2> DEFINE T == {k \in 0 .. Len(s) : h[k] # f[k]}
  <2>1. SUFFICES ASSUME T # {} PROVE FALSE
    OBVIOUS
  <2>2. PICK x \in T : \A y \in T : x <= y
    <3>1. T \in SUBSET Nat
      OBVIOUS
    <3> HIDE DEF T
    <3> QED
      BY <2>1, <3>1, Least
  <2>3. x # 0
    BY <1>4 DEF Sums
  <2>4. x - 1 \in 0 .. Len(s) /\ x - 1 \notin T /\ x \in 1 .. Len(s)
    BY <2>2, <2>3
  <2> QED
    BY <1>4, <2>3, <2>4 DEF Sums
<1>6. FailsIn(s) = h[Len(s)]
  BY <1>2 DEF FailsIn
<1> QED
  BY <1>5, <1>6

LEMMA FailsTyped == ASSUME NEW s \in Seq(Point) PROVE FailsIn(s) \in Nat
<1>1. PICK f : Sums(s, f, Len(s))
  BY SumsExist
<1> QED
  BY <1>1, FailsAreSum DEF Sums

LEMMA FailsOfNone == FailsIn(<<>>) = 0
<1>1. <<>> \in Seq(Point) /\ Len(<<>>) = 0 /\ Len(<<>>) \in 0 .. Len(<<>>)
  OBVIOUS
<1>2. PICK f : Sums(<<>>, f, Len(<<>>))
  BY <1>1, SumsExist
<1> QED
  BY <1>1, <1>2, FailsAreSum DEF Sums

LEMMA FailsOfSame ==
  ASSUME NEW s \in Seq(Point), NEW t \in Seq(Point), Len(t) = Len(s),
         \A k \in 1 .. Len(s) : t[k].fails = s[k].fails
  PROVE  FailsIn(t) = FailsIn(s)
<1>1. PICK f : Sums(s, f, Len(s))
  BY SumsExist
<1>2. Sums(t, f, Len(t))
  BY <1>1 DEF Sums
<1> QED
  BY <1>1, <1>2, FailsAreSum

(* An entry with d more failures makes d more of the sum.                    *)
LEMMA FailsOfEdited ==
  ASSUME NEW s \in Seq(Point), NEW t \in Seq(Point), Len(t) = Len(s),
         NEW i \in 1 .. Len(s), NEW d \in Nat,
         \A k \in 1 .. Len(s) : t[k].fails = s[k].fails + (IF k = i THEN d ELSE 0)
  PROVE  FailsIn(t) = FailsIn(s) + d
<1>1. PICK f : Sums(s, f, Len(s))
  BY SumsExist
<1> DEFINE g == [k \in 0 .. Len(s) |-> IF k < i THEN f[k] ELSE f[k] + d]
<1>2. g \in [0 .. Len(s) -> Nat] /\ g[0] = 0 /\ g[Len(s)] = f[Len(s)] + d
  BY <1>1 DEF Sums
<1>3. ASSUME NEW k \in 1 .. Len(s) PROVE g[k] = g[k - 1] + t[k].fails
  <2>1. f[k] = f[k - 1] + s[k].fails /\ s[k].fails \in Nat /\ f[k - 1] \in Nat
    <3>1. s[k] \in Point
      OBVIOUS
    <3>2. s[k].fails \in Nat
      BY <3>1 DEF Point
    <3>3. k - 1 \in 0 .. Len(s)
      OBVIOUS
    <3> QED
      BY <1>1, <3>2, <3>3 DEF Sums
  <2>2. g[k] = (IF k < i THEN f[k] ELSE f[k] + d)
    OBVIOUS
  <2>3. g[k - 1] = (IF k - 1 < i THEN f[k - 1] ELSE f[k - 1] + d)
    OBVIOUS
  <2> HIDE DEF g
  <2> QED
    BY <2>1, <2>2, <2>3
<1> HIDE DEF g
<1>4. Sums(t, g, Len(t))
  BY <1>2, <1>3 DEF Sums
<1> QED
  BY <1>1, <1>2, <1>4, FailsAreSum

LEMMA FailsOfAppended ==
  ASSUME NEW s \in Seq(Point), NEW p \in Point
  PROVE  FailsIn(Append(s, p)) = FailsIn(s) + p.fails
<1>1. PICK f : Sums(s, f, Len(s))
  BY SumsExist
<1> DEFINE g == [k \in 0 .. Len(s) + 1 |-> IF k = Len(s) + 1 THEN f[Len(s)] + p.fails ELSE f[k]]
<1>2. p.fails \in Nat /\ Append(s, p) \in Seq(Point) /\ Len(Append(s, p)) = Len(s) + 1
  BY DEF Point
<1>3. g \in [0 .. Len(s) + 1 -> Nat] /\ g[0] = 0 /\ g[Len(s) + 1] = f[Len(s)] + p.fails
  BY <1>1, <1>2 DEF Sums
<1>4. ASSUME NEW k \in 1 .. Len(s) + 1 PROVE g[k] = g[k - 1] + Append(s, p)[k].fails
  <2>1. CASE k = Len(s) + 1
    BY <2>1
  <2>2. CASE k # Len(s) + 1
    <3>1. k \in 1 .. Len(s) /\ Append(s, p)[k] = s[k] /\ g[k] = f[k] /\ g[k - 1] = f[k - 1]
      BY <2>2
    <3> QED
      BY <1>1, <3>1 DEF Sums
  <2> QED
    BY <2>1, <2>2
<1> HIDE DEF g
<1>5. Sums(Append(s, p), g, Len(Append(s, p)))
  BY <1>2, <1>3, <1>4 DEF Sums
<1> QED
  BY <1>1, <1>2, <1>3, <1>5, FailsAreSum

(* A table in which every place has one entry, and no entry counts more than was  *)
(* planned or seen.                                                         *)
EntriesAgree(s) ==
  /\ \A i, j \in 1 .. Len(s) : s[i].at = s[j].at => i = j
  /\ \A i \in 1 .. Len(s) : /\ s[i].reproduced + s[i].missed <= s[i].planned
                            /\ s[i].fails <= s[i].observed

(* The anomaly that was asked for is the one of the target until the comparison,   *)
(* and the revisit is planned but neither reproduced nor missed.             *)
PendingInv ==
  asked # 0 /\ why = "point"
    /\ pc \in {"enable", "confirm", "moving", "base", "off", "on", "compare"} =>
    /\ points[asked].at = target
    /\ points[asked].reproduced + points[asked].missed < points[asked].planned

PointsInv == PointsAgree /\ PendingInv

(* What an edit of one entry makes of the fields of all.                     *)
Planned(s, i) == [s EXCEPT ![i].planned = @ + 1]
Missed(s, i)  == [s EXCEPT ![i].missed = @ + 1]

LEMMA EditedFields ==
  ASSUME NEW s \in Seq(Point), NEW i \in 1 .. Len(s), NEW k \in 1 .. Len(s)
  PROVE  /\ Planned(s, i)[k] = IF k = i THEN [s[k] EXCEPT !.planned = @ + 1] ELSE s[k]
         /\ Missed(s, i)[k] = IF k = i THEN [s[k] EXCEPT !.missed = @ + 1] ELSE s[k]
<1>1. s \in [1 .. Len(s) -> Point]
  OBVIOUS
<1> QED
  BY <1>1 DEF Planned, Missed

LEMMA PlannedFields ==
  ASSUME NEW s \in Seq(Point), NEW i \in 1 .. Len(s), NEW k \in 1 .. Len(s)
  PROVE  /\ Planned(s, i)[k].at = s[k].at /\ Planned(s, i)[k].observed = s[k].observed
         /\ Planned(s, i)[k].fails = s[k].fails /\ Planned(s, i)[k].missed = s[k].missed
         /\ Planned(s, i)[k].reproduced = s[k].reproduced
         /\ Planned(s, i)[k].planned = s[k].planned + (IF k = i THEN 1 ELSE 0)
<1>1. s[k] \in Point
  OBVIOUS
<1> DEFINE p == [s[k] EXCEPT !.planned = @ + 1]
<1>2. Planned(s, i)[k] = IF k = i THEN p ELSE s[k]
  BY EditedFields
<1>3. /\ p.at = s[k].at /\ p.observed = s[k].observed /\ p.fails = s[k].fails
      /\ p.reproduced = s[k].reproduced /\ p.missed = s[k].missed /\ p.planned = s[k].planned + 1
      /\ s[k].planned \in Nat
  BY <1>1 DEF Point
<1> HIDE DEF p
<1> QED
  BY <1>2, <1>3

LEMMA MissedFields ==
  ASSUME NEW s \in Seq(Point), NEW i \in 1 .. Len(s), NEW k \in 1 .. Len(s)
  PROVE  /\ Missed(s, i)[k].at = s[k].at /\ Missed(s, i)[k].observed = s[k].observed
         /\ Missed(s, i)[k].fails = s[k].fails /\ Missed(s, i)[k].planned = s[k].planned
         /\ Missed(s, i)[k].reproduced = s[k].reproduced
         /\ Missed(s, i)[k].missed = s[k].missed + (IF k = i THEN 1 ELSE 0)
<1>1. s[k] \in Point
  OBVIOUS
<1> DEFINE p == [s[k] EXCEPT !.missed = @ + 1]
<1>2. Missed(s, i)[k] = IF k = i THEN p ELSE s[k]
  BY EditedFields
<1>3. /\ p.at = s[k].at /\ p.observed = s[k].observed /\ p.fails = s[k].fails
      /\ p.reproduced = s[k].reproduced /\ p.planned = s[k].planned /\ p.missed = s[k].missed + 1
      /\ s[k].missed \in Nat
  BY <1>1 DEF Point
<1> HIDE DEF p
<1> QED
  BY <1>2, <1>3

LEMMA CountedFields ==
  ASSUME NEW s \in Seq(Point), NEW i \in 1 .. Len(s), NEW a \in Nat, NEW b \in Nat,
         NEW k \in 1 .. Len(s)
  PROVE  /\ Counted(s, i, a, b)[k].at = s[k].at
         /\ Counted(s, i, a, b)[k].planned = s[k].planned
         /\ Counted(s, i, a, b)[k].missed = s[k].missed
         /\ Counted(s, i, a, b)[k].observed = s[k].observed + (IF k = i THEN 1 ELSE 0)
         /\ Counted(s, i, a, b)[k].fails = s[k].fails + (IF k = i THEN a ELSE 0)
         /\ Counted(s, i, a, b)[k].reproduced = s[k].reproduced + (IF k = i THEN b ELSE 0)
<1>1. s[k] \in Point /\ s \in [1 .. Len(s) -> Point]
  OBVIOUS
<1> DEFINE t == Counted(s, i, a, b)
           p == [s[k] EXCEPT !.observed = @ + 1, !.fails = @ + a, !.reproduced = @ + b]
<1>2. t[k] = IF k = i THEN p ELSE s[k]
  BY <1>1 DEF Counted
<1>3. /\ p.at = s[k].at /\ p.planned = s[k].planned /\ p.missed = s[k].missed
      /\ p.observed = s[k].observed + 1 /\ p.fails = s[k].fails + a
      /\ p.reproduced = s[k].reproduced + b
  BY <1>1 DEF Point
<1>4. s[k].observed \in Nat /\ s[k].fails \in Nat /\ s[k].reproduced \in Nat
  BY <1>1 DEF Point
<1> HIDE DEF t, p
<1> QED
  BY <1>2, <1>3, <1>4 DEF t

(* What a comparison makes of the table: the round is filed under the entry that  *)
(* was asked for, if it was reached, or the one found here, or a new one.     *)
LEMMA CompareFiles ==
  ASSUME PlaceInv, PointsInv, Compare
  PROVE  PointsInv'
<1> USE Constants DEF PlaceInv, TypeInts, TypeTable
<1> DEFINE here == before - offset
           ok   == Reading = before
           hit  == asked # 0 /\ here = target
           old  == IF hit THEN asked ELSE IF Found(here) = {} THEN 0
                   ELSE CHOOSE i \in Found(here) : TRUE
           new  == ~ok /\ old = 0 /\ Room
           miss == IF asked # 0 /\ ~hit THEN [points EXCEPT ![asked].missed = @ + 1] ELSE points
           blank == [at |-> here, observed |-> 0, fails |-> 0,
                     planned |-> 0, reproduced |-> 0, missed |-> 0]
           all  == IF new THEN Append(miss, blank) ELSE miss
           one(b) == IF b THEN 1 ELSE 0
           a == one(~ok)
           b == one(~ok /\ hit)
<1>1. /\ old \in 0 .. Len(points) /\ here \in Int
      /\ old # 0 => points[old].at = here
      /\ hit => old = asked /\ asked # 0
      /\ old = 0 => ~hit /\ \A i \in 1 .. Len(points) : points[i].at # here
  <2>1. pc = "compare" /\ why = "point"
    BY DEF Compare, WayInv
  <2>2. hit => asked \in 1 .. Len(points) /\ points[asked].at = here
    BY <2>1 DEF PointsInv, PendingInv
  <2>3. ~hit /\ Found(here) # {} => old \in 1 .. Len(points) /\ points[old].at = here
    BY DEF Found
  <2> QED
    BY SMTT(30), <2>2, <2>3 DEF Found
<1>2. /\ miss \in Seq(Point) /\ Len(miss) = Len(points)
      /\ \A k \in 1 .. Len(points) :
           /\ miss[k].at = points[k].at /\ miss[k].observed = points[k].observed
           /\ miss[k].fails = points[k].fails /\ miss[k].planned = points[k].planned
           /\ miss[k].reproduced = points[k].reproduced
           /\ miss[k].missed = (IF k = asked /\ ~hit THEN points[k].missed + 1 ELSE points[k].missed)
  <2>1. CASE asked # 0 /\ ~hit
    <3>1. asked \in 1 .. Len(points) /\ miss = [points EXCEPT ![asked].missed = @ + 1]
      BY <2>1
    <3> HIDE DEF miss, hit
    <3>2. miss \in Seq(Point) /\ Len(miss) = Len(points)
      BY <3>1, EditedEntry
    <3>3. ASSUME NEW k \in 1 .. Len(points)
          PROVE  /\ miss[k].at = points[k].at /\ miss[k].observed = points[k].observed
                 /\ miss[k].fails = points[k].fails /\ miss[k].planned = points[k].planned
                 /\ miss[k].reproduced = points[k].reproduced
                 /\ miss[k].missed = points[k].missed + (IF k = asked THEN 1 ELSE 0)
      <4>1. points \in Seq(Point) /\ miss = Missed(points, asked)
        BY <3>1 DEF Missed
      <4> QED
        BY <3>1, <4>1, MissedFields
    <3>4. \A k \in 1 .. Len(points) : points[k].missed \in Nat
      <4> TAKE k \in 1 .. Len(points)
      <4>1. points[k] \in Point
        OBVIOUS
      <4> QED
        BY <4>1 DEF Point
    <3> QED
      BY <2>1, <3>2, <3>3, <3>4
  <2>2. CASE ~(asked # 0 /\ ~hit)
    <3>1. miss = points
      BY <2>2
    <3>2. ASSUME NEW k \in 1 .. Len(points) PROVE ~(k = asked /\ ~hit)
      BY <2>2
    <3> HIDE DEF miss, hit
    <3> QED
      BY <3>1, <3>2
  <2> QED
    BY <2>1, <2>2
<1>3. blank \in Point
  BY <1>1 DEF Point
<1>4. a \in Nat /\ b \in Nat /\ b <= a /\ (hit \/ b = 0)
  OBVIOUS
<1>5. /\ point' = (IF new THEN Len(all) ELSE old)
      /\ points' = (IF point' = 0 THEN all ELSE Counted(all, point', a, b))
      /\ failures' = failures + a
      /\ pc' \in {"head", "retest"}
  BY DEF Compare, Counted
<1>6. PendingInv'
  BY <1>5 DEF PendingInv
<1>7. /\ all \in Seq(Point) /\ Len(all) = Len(points) + (IF new THEN 1 ELSE 0)
      /\ \A k \in 1 .. Len(points) : all[k] = miss[k]
      /\ new => all[Len(points) + 1] = blank
  BY SMTT(30), <1>2, <1>3
<1>8. point' \in 0 .. Len(all) /\ (point' = 0 <=> old = 0 /\ ~new)
  <2>1. Len(points) \in Nat
    OBVIOUS
  <2> HIDE DEF all, new, old, here, hit, ok, a, b, blank
  <2>2. CASE new
    BY <1>5, <1>7, <2>1, <2>2
  <2>3. CASE ~new
    BY <1>1, <1>5, <1>7, <2>1, <2>3
  <2> QED
    BY <2>2, <2>3
<1>9. new => old = 0 /\ a = 1 /\ b = 0 /\ Len(points) < PointMax
  BY <1>1 DEF Room
<1>10. ~new /\ old = 0 /\ a # 0 => Len(points) = PointMax
  <2>1. ~new /\ old = 0 /\ a # 0 => ~(Len(points) < PointMax)
    BY DEF Room
  <2> HIDE DEF new, old, a
  <2> QED
    BY <2>1
<1>11. a \in {0, 1}
  OBVIOUS
<1> HIDE DEF all, new, old, hit, ok, miss, blank, here, a, b, one
<1>12. /\ points' \in Seq(Point) /\ Len(points') = Len(all)
       /\ \A k \in 1 .. Len(all) :
            /\ points'[k].at = all[k].at /\ points'[k].planned = all[k].planned
            /\ points'[k].missed = all[k].missed
            /\ points'[k].observed = all[k].observed + (IF k = point' THEN 1 ELSE 0)
            /\ points'[k].fails = all[k].fails + (IF k = point' THEN a ELSE 0)
            /\ points'[k].reproduced = all[k].reproduced + (IF k = point' THEN b ELSE 0)
  <2>1. CASE point' = 0
    <3>1. points' = all
      BY <1>5, <2>1
    <3>2. ASSUME NEW k \in 1 .. Len(all)
          PROVE  /\ k # point' /\ all[k].observed \in Nat /\ all[k].fails \in Nat
                 /\ all[k].reproduced \in Nat
      <4>1. all[k] \in Point
        BY <1>7
      <4> QED
        BY SMTT(30), <2>1, <4>1 DEF Point
    <3> QED
      BY <1>7, <3>1, <3>2
  <2>2. CASE point' # 0
    <3>1. point' \in 1 .. Len(all) /\ points' = Counted(all, point', a, b)
      BY <1>5, <1>7, <1>8, <2>2
    <3>2. points' \in Seq(Point) /\ Len(points') = Len(all)
      BY <1>4, <1>7, <3>1, CountedEntry
    <3>3. all \in Seq(Point)
      BY <1>7
    <3>4. ASSUME NEW k \in 1 .. Len(all)
          PROVE  /\ points'[k].at = all[k].at /\ points'[k].planned = all[k].planned
                 /\ points'[k].missed = all[k].missed
                 /\ points'[k].observed = all[k].observed + (IF k = point' THEN 1 ELSE 0)
                 /\ points'[k].fails = all[k].fails + (IF k = point' THEN a ELSE 0)
                 /\ points'[k].reproduced = all[k].reproduced + (IF k = point' THEN b ELSE 0)
      <4> DEFINE i == point'
      <4>1. i \in 1 .. Len(all) /\ a \in Nat /\ b \in Nat
        BY <1>4, <3>1
      <4>2. points' = Counted(all, i, a, b)
        BY <3>1
      <4> HIDE DEF i
      <4>3. /\ Counted(all, i, a, b)[k].at = all[k].at
            /\ Counted(all, i, a, b)[k].planned = all[k].planned
            /\ Counted(all, i, a, b)[k].missed = all[k].missed
            /\ Counted(all, i, a, b)[k].observed = all[k].observed + (IF k = i THEN 1 ELSE 0)
            /\ Counted(all, i, a, b)[k].fails = all[k].fails + (IF k = i THEN a ELSE 0)
            /\ Counted(all, i, a, b)[k].reproduced = all[k].reproduced + (IF k = i THEN b ELSE 0)
        BY <3>3, <4>1, CountedFields
      <4> QED
        BY <4>2, <4>3 DEF i
    <3> QED
      BY <3>2, <3>4
  <2> QED
    BY <2>1, <2>2
<1>13. ASSUME NEW k \in 1 .. Len(points)
       PROVE  /\ points[k].observed \in Nat /\ points[k].fails \in Nat /\ points[k].planned \in Nat
              /\ points[k].reproduced \in Nat /\ points[k].missed \in Nat
  <2>1. points[k] \in Point
    OBVIOUS
  <2> QED
    BY <2>1 DEF Point
<1>14. ASSUME new
       PROVE  /\ blank.at = here /\ blank.observed = 0 /\ blank.fails = 0 /\ blank.planned = 0
              /\ blank.reproduced = 0 /\ blank.missed = 0
  BY DEF blank
<1>15. \A i, j \in 1 .. Len(points') : points'[i].at = points'[j].at => i = j
  <2>1. ASSUME NEW i \in 1 .. Len(points')
        PROVE  points'[i].at = IF i \in 1 .. Len(points) THEN points[i].at ELSE here
    BY <1>2, <1>7, <1>12, <1>14
  <2>2. Len(points') = Len(points) + 1 => \A i \in 1 .. Len(points) : points[i].at # here
    BY <1>1, <1>7, <1>9, <1>12
  <2>3. \A i, j \in 1 .. Len(points) : points[i].at = points[j].at => i = j
    BY DEF PointsInv, PointsAgree
  <2> QED
    BY SMTT(30), <1>7, <1>12, <2>1, <2>2, <2>3
<1>16. ASSUME NEW k \in 1 .. Len(points')
       PROVE  /\ points'[k].reproduced + points'[k].missed <= points'[k].planned
              /\ points'[k].fails <= points'[k].observed
  <2>1. CASE k \in 1 .. Len(points)
    <3>1. /\ points[k].reproduced + points[k].missed <= points[k].planned
          /\ points[k].fails <= points[k].observed
      BY <2>1 DEF PointsInv, PointsAgree
    <3>2. k = asked => points[k].reproduced + points[k].missed < points[k].planned
      <4>1. pc = "compare"
        BY DEF Compare
      <4>2. why = "point"
        BY <4>1 DEF WayInv
      <4> QED
        BY <2>1, <4>1, <4>2 DEF PointsInv, PendingInv
    <3>3. hit => point' = asked
      BY <1>1, <1>5, <1>9
    <3>4. /\ points'[k].planned = points[k].planned
          /\ points'[k].missed = IF k = asked /\ ~hit THEN points[k].missed + 1 ELSE points[k].missed
          /\ points'[k].reproduced = points[k].reproduced + (IF k = point' THEN b ELSE 0)
          /\ points'[k].observed = points[k].observed + (IF k = point' THEN 1 ELSE 0)
          /\ points'[k].fails = points[k].fails + (IF k = point' THEN a ELSE 0)
      BY SMTT(30), <1>2, <1>7, <1>12, <2>1
    <3>5. points'[k].fails <= points'[k].observed
      BY <1>11, <1>13, <2>1, <3>1, <3>4
    <3>6. b \in {0, 1}
      BY <1>4, <1>11
    <3>7. points'[k].reproduced + points'[k].missed <= points'[k].planned
      <4>1. CASE hit
        BY <1>13, <2>1, <3>1, <3>2, <3>3, <3>4, <3>6, <4>1
      <4>2. CASE ~hit
        <5>1. points'[k].reproduced = points[k].reproduced
          BY <1>4, <1>13, <2>1, <3>4, <4>2
        <5>2. k = asked => points'[k].missed = points[k].missed + 1
          BY <3>4, <4>2
        <5>3. k # asked => points'[k].missed = points[k].missed
          BY <3>4
        <5> QED
          BY <1>13, <2>1, <3>1, <3>2, <3>4, <5>1, <5>2, <5>3
      <4> QED
        BY <4>1, <4>2
    <3> QED
      BY <3>5, <3>7
  <2>2. CASE k \notin 1 .. Len(points)
    <3>1. new /\ k = Len(points) + 1 /\ k \in 1 .. Len(all)
      BY <1>7, <1>12, <2>2
    <3> QED
      BY <1>7, <1>9, <1>12, <1>14, <3>1
  <2> QED
    BY <2>1, <2>2
<1>17. FailsIn(all) = FailsIn(points) /\ FailsIn(points) \in Nat
  <2>1. FailsIn(miss) = FailsIn(points) /\ FailsIn(points) \in Nat
    BY <1>2, FailsOfSame, FailsTyped
  <2>2. CASE new
    <3>1. all = Append(miss, blank)
      BY <2>2 DEF all
    <3> QED
      BY <1>2, <1>3, <1>14, <2>1, <2>2, <3>1, FailsOfAppended
  <2>3. CASE ~new
    <3>1. all = miss
      BY <2>3 DEF all
    <3> QED
      BY <2>1, <3>1
  <2> QED
    BY <2>2, <2>3
<1>18. FailsIn(points') = FailsIn(all) + (IF point' = 0 THEN 0 ELSE a)
  <2>0. all \in Seq(Point) /\ \A k \in 1 .. Len(all) : all[k].fails \in Nat
    <3>1. ASSUME NEW k \in 1 .. Len(all) PROVE all[k].fails \in Nat
      <4>1. all[k] \in Point
        BY <1>7
      <4> QED
        BY <4>1 DEF Point
    <3> QED
      BY <1>7, <3>1
  <2>1. CASE point' = 0
    <3>1. points' = all
      BY <1>5, <2>1
    <3> QED
      BY <1>17, <2>1, <3>1
  <2>2. CASE point' # 0
    <3> DEFINE i == point'  t == points'
    <3>1. i \in 1 .. Len(all) /\ t \in Seq(Point) /\ Len(t) = Len(all) /\ a \in Nat
      BY <1>4, <1>7, <1>8, <1>12, <2>2
    <3>2. \A k \in 1 .. Len(all) : t[k].fails = all[k].fails + (IF k = i THEN a ELSE 0)
      BY <1>12
    <3> HIDE DEF i, t
    <3>3. FailsIn(t) = FailsIn(all) + a
      BY ONLY <2>0, <3>1, <3>2, FailsOfEdited
    <3> QED
      BY <2>2, <3>3 DEF t
  <2> QED
    BY <2>1, <2>2
<1>19. FailsIn(points') = failures' \/ (Len(points') = PointMax /\ FailsIn(points') < failures')
  <2>1. /\ failures \in Nat
        /\ FailsIn(points) = failures \/ (Len(points) = PointMax /\ FailsIn(points) < failures)
    BY DEF PointsInv, PointsAgree, TypeCounts
  <2>2. CASE point' = 0
    BY <1>5, <1>7, <1>8, <1>10, <1>11, <1>12, <1>17, <1>18, <2>1, <2>2
  <2>3. CASE point' # 0 /\ new
    BY <1>5, <1>9, <1>11, <1>17, <1>18, <2>1, <2>3
  <2>4. CASE point' # 0 /\ ~new
    BY <1>5, <1>7, <1>11, <1>12, <1>17, <1>18, <2>1, <2>4
  <2> QED
    BY <2>2, <2>3, <2>4
<1>20. PointsAgree'
  BY <1>15, <1>16, <1>19 DEF PointsAgree
<1> QED
  BY <1>6, <1>20 DEF PointsInv

(* A revisit is planned under the entry whose place becomes the target.      *)
LEMMA PickPlans ==
  ASSUME PlaceInv, PointsInv, Pick
  PROVE  PointsInv'
<1> USE Constants DEF PlaceInv, TypeInts, TypeTable
<1>1. pc' \in {"done", "enable", "base"} /\ UNCHANGED <<failures, why>>
  BY DEF Pick, score
<1>2. CASE asked' = 0 /\ points' = points
  BY <1>1, <1>2 DEF PointsInv, PointsAgree, PendingInv
<1>3. CASE /\ points # <<>> /\ asked' = (cursor % Len(points)) + 1
           /\ target' = points[asked'].at
           /\ points' = [points EXCEPT ![asked'].planned = @ + 1]
  <2> DEFINE i == asked'  t == points'
  <2>1. i \in 1 .. Len(points)
    <3>1. Len(points) \in Nat \ {0}
      BY <1>3
    <3> QED
      BY <1>3, <3>1, Turn
  <2>2. t \in Seq(Point) /\ Len(t) = Len(points) /\ t = Planned(points, i) /\ target' = points[i].at
    BY <1>3, <2>1, EditedEntry DEF Planned
  <2>3. points \in Seq(Point) /\ points # <<>> /\ failures \in Nat
    BY <1>3 DEF TypeCounts
  <2> HIDE DEF i, t
  <2>4. ASSUME NEW k \in 1 .. Len(points)
        PROVE  /\ t[k].at = points[k].at /\ t[k].observed = points[k].observed
               /\ t[k].fails = points[k].fails /\ t[k].missed = points[k].missed
               /\ t[k].reproduced = points[k].reproduced
               /\ t[k].planned = points[k].planned + (IF k = i THEN 1 ELSE 0)
               /\ points[k].reproduced \in Nat /\ points[k].missed \in Nat
               /\ points[k].planned \in Nat
    <3>1. points[k] \in Point
      OBVIOUS
    <3>2. /\ points[k].reproduced \in Nat /\ points[k].missed \in Nat /\ points[k].planned \in Nat
      BY <3>1 DEF Point
    <3> QED
      BY SMTT(30), <2>1, <2>2, <2>3, <3>2, PlannedFields
  <2>5. FailsIn(t) = FailsIn(points)
    BY <2>2, <2>3, <2>4, FailsOfSame
  <2>6. EntriesAgree(points)
    BY DEF EntriesAgree, PointsInv, PointsAgree
  <2>7. EntriesAgree(t)
    <3>1. \A j, k \in 1 .. Len(t) : t[j].at = t[k].at => j = k
      BY <2>2, <2>4, <2>6 DEF EntriesAgree
    <3>2. ASSUME NEW k \in 1 .. Len(t)
          PROVE  t[k].reproduced + t[k].missed <= t[k].planned /\ t[k].fails <= t[k].observed
      <4>1. /\ points[k].reproduced + points[k].missed <= points[k].planned
            /\ points[k].fails <= points[k].observed
        BY <2>2, <2>6 DEF EntriesAgree
      <4>2. k \in 1 .. Len(points)
        BY <2>2
      <4>3. points[k].planned <= t[k].planned
        BY <2>4, <4>2
      <4> QED
        BY SMTT(30), <2>4, <4>1, <4>2, <4>3
    <3> QED
      BY <3>1, <3>2 DEF EntriesAgree
  <2>8. FailsIn(t) = failures' \/ (Len(t) = PointMax /\ FailsIn(t) < failures')
    BY <1>1, <2>2, <2>5 DEF PointsInv, PointsAgree
  <2>9. t[i].at = target' /\ t[i].reproduced + t[i].missed < t[i].planned
    BY SMTT(30), <2>1, <2>2, <2>4, <2>6 DEF EntriesAgree
  <2> QED
    BY <2>7, <2>8, <2>9 DEF EntriesAgree, PointsInv, PointsAgree, PendingInv, i, t
<1> QED
  BY <1>2, <1>3 DEF Pick

(* Every action keeps the table in agreement with the tally.                 *)
LEMMA PointsStep == PlaceInv /\ PointsInv /\ [Next]_vars => PointsInv'
<1> SUFFICES ASSUME PlaceInv, PointsInv, [Next]_vars PROVE PointsInv'
  OBVIOUS
<1>0. ASSUME UNCHANGED <<points, failures, asked, target>>,
             \/ pc' \notin {"enable", "confirm", "moving", "base", "off", "on", "compare"}
             \/ why' # "point"
             \/ why' = why /\ pc \in {"enable", "confirm", "moving", "base", "off", "on", "compare"}
      PROVE  PointsInv'
  BY <1>0 DEF PointsInv, PointsAgree, PendingInv
<1> USE DEF motor, setup, loop, score, retest, end, Abort
<1>1. CASE Start \/ Zero \/ Finish \/ Resume \/ Cut \/ Done
  BY <1>0, <1>1 DEF Start, Zero, Finish, Resume, Cut, Done, PowerOff
<1>2. CASE Power \/ On \/ OnZero
  BY <1>0, <1>2 DEF Power, On, OnZero, PowerOn
<1>3. CASE Round
  BY <1>0, <1>3 DEF Round
<1>4. CASE Pick
  BY <1>4, PickPlans
<1>5. CASE SendEnable \/ Confirm
  BY <1>0, <1>5 DEF SendEnable, Confirm, GiveUp
<1>6. CASE Move
  BY <1>0, <1>6 DEF Move, GiveUp
<1>7. CASE Base \/ BaseZero
  BY <1>0, <1>7 DEF Base, BaseZero
<1>8. CASE Off
  BY <1>0, <1>8 DEF Off, PowerOff, Disable
<1>9. CASE Compare
  BY <1>9, CompareFiles
<1>10. CASE RetestOff
  BY <1>0, <1>10 DEF RetestOff, PowerOff, Disable
<1>11. CASE RetestOn
  BY <1>0, <1>11 DEF RetestOn, PowerOn
<1>12. CASE Anchor
  BY <1>0, <1>12 DEF Anchor
<1>13. CASE Recheck
  BY <1>0, <1>13 DEF Recheck
<1>14. CASE Cancel
  BY <1>14 DEF Cancel, PointsInv, PointsAgree, PendingInv
<1>15. CASE UNCHANGED vars
  BY <1>15 DEF vars, PointsInv, PointsAgree, PendingInv
<1> QED
  BY <1>1, <1>2, <1>3, <1>4, <1>5, <1>6, <1>7, <1>8, <1>9, <1>10, <1>11, <1>12, <1>13,
     <1>14, <1>15 DEF Next, Host

(* After any number of rounds, revisits and retests every failure is filed at one  *)
(* place of the table (zero_cycle_find_anomaly and what console_zero_cycle_test   *)
(* does with its answer), unless the table is full; no place has two entries, and *)
(* no revisit counts twice.                                                 *)
THEOREM CyclePointsAgree == Spec => []PointsAgree
<1>1. Init => PointsInv
  <2>1. Init => points = <<>> /\ failures = 0 /\ asked = 0
    BY DEF Init
  <2> QED
    BY <2>1, FailsOfNone DEF PointsInv, PointsAgree, PendingInv
<1>2. PointsInv => PointsAgree
  BY DEF PointsInv
<1> QED
  BY <1>1, <1>2, PlaceAlways, PointsStep, PTL DEF Spec

=============================================================================
