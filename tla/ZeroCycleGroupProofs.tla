------------------------ MODULE ZeroCycleGroupProofs ------------------------
(***************************************************************************)
(* What holds of the group test for every map of motors, every scan, every *)
(* limit and every set of drifts: no cut finds a member whose DISABLE was   *)
(* not tried, ZERO finds the group verified, a frozen group is left alone, nobody moves on a wrong *)
(* coordinate, PASS is earned, and the scan never passes its end.           *)
(***************************************************************************)
EXTENDS ZeroCycleGroup, ScanProofs, FiniteSetTheorems

-----------------------------------------------------------------------------
(* The discovery ends where the test begins; ENABLE is owed a DISABLE only  *)
(* during a move and on the way out, and when the supply is to be cut at the *)
(* end only to members to whom it was tried and could not be sent.          *)
CutInv ==
  /\ auto => pc \in {"scan", "select", "unscan"}
  /\ pc \notin {"moving", "done", "cut", "ended"} => owed = {}
  /\ pc = "cut" => owed \subseteq lost

(* What the console has on record was said since the supply came on.        *)
VerifiedInv ==
  /\ detected \subseteq printed
  /\ members \cap Hands = {}
  /\ pc = "zero" => members \subseteq detected

(* A group is frozen only inside the loop, and then not on its way to zero.   *)
FrozenInv ==
  frozen => ~home /\ pc \in {"head", "sample", "off", "on", "compare", "done", "cut", "ended"}

ControlInv == CutInv /\ VerifiedInv /\ FrozenInv

-----------------------------------------------------------------------------
(* The group begins under control: nothing is enabled, named or frozen.      *)
LEMMA ControlInit == Init => ControlInv
BY DEF Init, ControlInv, CutInv, VerifiedInv, FrozenInv

(* Every step keeps it: Move and Done disable, PowerOn forgets the types,     *)
(* Compare and Recheck freeze where nothing is enabled any more.             *)
LEMMA ControlStep == ControlInv /\ [Next]_vars => ControlInv'
<1> SUFFICES ASSUME ControlInv, [Next]_vars PROVE ControlInv'
  OBVIOUS
<1> USE DEF ControlInv, CutInv, VerifiedInv, FrozenInv, rail, motor, setup, loop, score, past,
            Abort
<1>1. CASE Start
  BY <1>1 DEF Start
<1>2. CASE Scan
  BY <1>2 DEF Scan, PowerOn, Types
<1>3. CASE Select
  BY <1>3 DEF Select, Eligible
<1>4. CASE Unscan
  BY <1>4 DEF Unscan, PowerOff, Disable
<1>5. CASE Power
  BY <1>5 DEF Power, PowerOn, Types
<1>6. CASE Verify
  BY <1>6 DEF Verify
<1>7. CASE ZeroNext
  BY <1>7 DEF ZeroNext
<1>8. CASE Check
  BY <1>8 DEF Check
<1>9. CASE Finish
  BY <1>9 DEF Finish
<1>10. CASE Round
  BY <1>10 DEF Round
<1>11. CASE Pick
  BY <1>11 DEF Pick
<1>12. CASE Enable
  BY <1>12 DEF Enable
<1>13. CASE Move
  BY <1>13 DEF Move, DisableAll, Disable
<1>14. CASE Sample
  BY <1>14 DEF Sample
<1>15. CASE Off
  BY <1>15 DEF Off, PowerOff, Disable
<1>16. CASE On
  BY <1>16 DEF On, PowerOn
<1>17. CASE Compare
  BY <1>17 DEF Compare
<1>18. CASE Recheck
  <2>1. CutInv' /\ VerifiedInv'
    BY <1>18 DEF Recheck, AfterZero
  <2>2. FrozenInv'
    <3>1. home /\ ~frozen
      BY <1>18 DEF Recheck
    <3>2. CASE OffZero = {} /\ ~cancel
      BY <1>18, <3>1, <3>2 DEF Recheck, AfterZero
    <3>3. CASE OffZero # {} /\ ~cancel /\ pc' = "sample" /\ home' = FALSE
      BY <3>3
    <3>4. CASE UNCHANGED frozen
      BY <3>1, <3>4
    <3>5. QED
      BY <1>18, <3>2, <3>3, <3>4 DEF Recheck
  <2>3. QED
    BY <2>1, <2>2
<1>19. CASE Done
  BY <1>19 DEF Done, DisableAll, Disable
<1>20. CASE Cut
  BY <1>20 DEF Cut, PowerOff, Disable
<1>21. CASE Cancel
  BY <1>21 DEF Cancel
<1>22. CASE UNCHANGED vars
  BY <1>22 DEF vars
<1>23. QED
  BY <1>1, <1>2, <1>3, <1>4, <1>5, <1>6, <1>7, <1>8, <1>9, <1>10, <1>11, <1>12,
     <1>13, <1>14, <1>15, <1>16, <1>17, <1>18, <1>19, <1>20, <1>21, <1>22 DEF Next, Host

(* Every reachable state of the group test is under control.                 *)
THEOREM ControlHolds == Spec => []ControlInv
BY ControlInit, ControlStep, PTL DEF Spec

-----------------------------------------------------------------------------
(* The three cuts: in the discovery and before a comparison (Unscan, Off) no     *)
(* DISABLE is owed, and at the end (Cut) every one that is owed was tried.     *)
LEMMA CutStep ==
  ControlInv /\ [Next]_vars => (supply /\ ~supply' => owed' \subseteq lost')
<1> SUFFICES ASSUME ControlInv, [Next]_vars, supply, ~supply' PROVE owed' \subseteq lost'
  OBVIOUS
<1> USE DEF ControlInv, CutInv, rail, motor
<1>1. CASE Start
  BY <1>1 DEF Start
<1>2. CASE Scan
  BY <1>2 DEF Scan, PowerOn
<1>3. CASE Select
  BY <1>3 DEF Select, Eligible
<1>4. CASE Unscan
  BY <1>4 DEF Unscan, PowerOff, Disable
<1>5. CASE Power
  BY <1>5 DEF Power, PowerOn
<1>6. CASE Verify
  BY <1>6 DEF Verify
<1>7. CASE ZeroNext
  BY <1>7 DEF ZeroNext
<1>8. CASE Check
  BY <1>8 DEF Check
<1>9. CASE Finish
  BY <1>9 DEF Finish
<1>10. CASE Round
  BY <1>10 DEF Round
<1>11. CASE Pick
  BY <1>11 DEF Pick
<1>12. CASE Enable
  BY <1>12 DEF Enable
<1>13. CASE Move
  BY <1>13 DEF Move, DisableAll, Disable
<1>14. CASE Sample
  BY <1>14 DEF Sample
<1>15. CASE Off
  BY <1>15 DEF Off, PowerOff, Disable
<1>16. CASE On
  BY <1>16 DEF On, PowerOn
<1>17. CASE Compare
  BY <1>17 DEF Compare
<1>18. CASE Recheck
  BY <1>18 DEF Recheck, AfterZero
<1>19. CASE Done
  BY <1>19 DEF Done, DisableAll, Disable
<1>20. CASE Cut
  BY <1>20 DEF Cut, PowerOff, Disable
<1>21. CASE Cancel
  BY <1>21 DEF Cancel
<1>22. CASE UNCHANGED vars
  BY <1>22 DEF vars
<1>23. QED
  BY <1>1, <1>2, <1>3, <1>4, <1>5, <1>6, <1>7, <1>8, <1>9, <1>10, <1>11,
     <1>12, <1>13, <1>14, <1>15, <1>16, <1>17, <1>18, <1>19, <1>20, <1>21, <1>22 DEF Next, Host

(* ZERO is sent at one place, where all the members were verified.           *)
LEMMA VerifiedStep ==
  ControlInv /\ [Next]_vars => (zeroed' # zeroed => members \subseteq printed \ Hands)
<1> SUFFICES ASSUME ControlInv, [Next]_vars, zeroed' # zeroed
             PROVE  members \subseteq printed \ Hands
  OBVIOUS
<1> USE DEF ControlInv, VerifiedInv, past
<1>1. CASE Start
  BY <1>1 DEF Start
<1>2. CASE Scan
  BY <1>2 DEF Scan, PowerOn
<1>3. CASE Select
  BY <1>3 DEF Select, Eligible
<1>4. CASE Unscan
  BY <1>4 DEF Unscan, PowerOff, Disable
<1>5. CASE Power
  BY <1>5 DEF Power, PowerOn
<1>6. CASE Verify
  BY <1>6 DEF Verify
<1>7. CASE ZeroNext
  BY <1>7 DEF ZeroNext
<1>8. CASE Check
  BY <1>8 DEF Check
<1>9. CASE Finish
  BY <1>9 DEF Finish
<1>10. CASE Round
  BY <1>10 DEF Round
<1>11. CASE Pick
  BY <1>11 DEF Pick
<1>12. CASE Enable
  BY <1>12 DEF Enable
<1>13. CASE Move
  BY <1>13 DEF Move, DisableAll, Disable
<1>14. CASE Sample
  BY <1>14 DEF Sample
<1>15. CASE Off
  BY <1>15 DEF Off, PowerOff, Disable
<1>16. CASE On
  BY <1>16 DEF On, PowerOn
<1>17. CASE Compare
  BY <1>17 DEF Compare
<1>18. CASE Recheck
  BY <1>18 DEF Recheck, AfterZero
<1>19. CASE Done
  BY <1>19 DEF Done, DisableAll, Disable
<1>20. CASE Cut
  BY <1>20 DEF Cut, PowerOff, Disable
<1>21. CASE Cancel
  BY <1>21 DEF Cancel
<1>22. CASE UNCHANGED vars
  BY <1>22 DEF vars
<1>23. QED
  BY <1>1, <1>2, <1>3, <1>4, <1>5, <1>6, <1>7, <1>8, <1>9, <1>10, <1>11,
     <1>12, <1>13, <1>14, <1>15, <1>16, <1>17, <1>18, <1>19, <1>20, <1>21, <1>22 DEF Next, Host

(* No step that a frozen group can take moves it, enables it, zeroes it or    *)
(* sets its baselines.                                                      *)
LEMMA FrozenStep ==
  ControlInv /\ [Next]_vars =>
    (frozen => /\ frozen' /\ before' = before /\ at' = at
               /\ owed' \subseteq owed /\ zeroed' = zeroed)
<1> SUFFICES ASSUME ControlInv, [Next]_vars, frozen
             PROVE  /\ frozen' /\ before' = before /\ at' = at
                    /\ owed' \subseteq owed /\ zeroed' = zeroed
  OBVIOUS
<1> USE DEF ControlInv, FrozenInv, motor, score, past
<1>1. CASE Start
  BY <1>1 DEF Start
<1>2. CASE Scan
  BY <1>2 DEF Scan, PowerOn
<1>3. CASE Select
  BY <1>3 DEF Select, Eligible
<1>4. CASE Unscan
  BY <1>4 DEF Unscan, PowerOff, Disable
<1>5. CASE Power
  BY <1>5 DEF Power, PowerOn
<1>6. CASE Verify
  BY <1>6 DEF Verify
<1>7. CASE ZeroNext
  BY <1>7 DEF ZeroNext
<1>8. CASE Check
  BY <1>8 DEF Check
<1>9. CASE Finish
  BY <1>9 DEF Finish
<1>10. CASE Round
  BY <1>10 DEF Round
<1>11. CASE Pick
  BY <1>11 DEF Pick
<1>12. CASE Enable
  BY <1>12 DEF Enable
<1>13. CASE Move
  BY <1>13 DEF Move, DisableAll, Disable
<1>14. CASE Sample
  BY <1>14 DEF Sample, Rebased
<1>15. CASE Off
  BY <1>15 DEF Off, PowerOff, Disable
<1>16. CASE On
  BY <1>16 DEF On, PowerOn
<1>17. CASE Compare
  BY <1>17 DEF Compare
<1>18. CASE Recheck
  BY <1>18 DEF Recheck, AfterZero
<1>19. CASE Done
  BY <1>19 DEF Done, DisableAll, Disable
<1>20. CASE Cut
  BY <1>20 DEF Cut, PowerOff, Disable
<1>21. CASE Cancel
  BY <1>21 DEF Cancel
<1>22. CASE UNCHANGED vars
  BY <1>22 DEF vars
<1>23. QED
  BY <1>1, <1>2, <1>3, <1>4, <1>5, <1>6, <1>7, <1>8, <1>9, <1>10, <1>11,
     <1>12, <1>13, <1>14, <1>15, <1>16, <1>17, <1>18, <1>19, <1>20, <1>21, <1>22 DEF Next, Host

(* For every group and every fault, failing sends included: the supply is cut    *)
(* under a member that was sent ENABLE and no DISABLE only if a DISABLE was     *)
(* tried for it and could not be sent.                                      *)
THEOREM GroupCutDisabled == Spec => CutDisabled
BY ControlInit, ControlStep, CutStep, PTL DEF Spec, CutDisabled

(* ZERO is only sent to a group that named itself since the supply came on.   *)
THEOREM GroupZeroVerified == Spec => ZeroVerified
BY ControlInit, ControlStep, VerifiedStep, PTL DEF Spec, ZeroVerified

(* A frozen group is never moved, enabled, zeroed or given a new baseline.    *)
THEOREM GroupFrozenForGood == Spec => FrozenForGood
BY ControlInit, ControlStep, FrozenStep, PTL DEF Spec, FrozenForGood

-----------------------------------------------------------------------------
(* The types that the arithmetic below needs.                               *)
TypedInv ==
  /\ pc \in Places /\ index \in Nat /\ members \subseteq Motors /\ online \subseteq Motors
  /\ at \in [Motors -> Int] /\ drift \in [Motors -> Int] /\ target \in Int
  /\ home \in BOOLEAN /\ fresh \in BOOLEAN /\ frozen \in BOOLEAN

Early == {"idle", "scan", "select", "unscan", "power", "verify", "zero", "check"}
Reads == {"sample", "off", "on", "compare"}

(* Nobody has moved before the loop; on the way to zero the group heads for    *)
(* zero, and once it reads there it stands there; a move is to a new point.  *)
HomeInv ==
  /\ pc \in Early => at = AllZero /\ index = 0 /\ ~home
  /\ pc \in {"head", "pick"} => ~home
  /\ pc \in {"enable", "moving"} => fresh
  /\ home /\ pc \in {"enable", "moving"} \cup Reads => fresh /\ target = 0
  /\ home /\ pc \in Reads => \A m \in members : at[m] = 0

True       == \A m \in members : drift[m] = 0
AtBaseline == \A m \in members : before[m] = at[m]

(* A group that is not frozen reads true except between a power-on and the    *)
(* comparison, and its baseline is the place where it stands, except at a     *)
(* fresh angle before it is read there.                                      *)
TrueInv ==
  ~frozen =>
    /\ pc \in {"head", "pick", "enable", "moving", "sample", "off"} => True
    /\ pc = "head" => index = 0 \/ AtBaseline
    /\ pc \in {"pick", "enable", "moving", "sample"} => fresh \/ AtBaseline
    /\ pc \in {"off", "on", "compare"} /\ ~home => AtBaseline

GroupInv == ControlInv /\ TypedInv /\ HomeInv /\ TrueInv

-----------------------------------------------------------------------------
(* The angle of an index is a number.                                       *)
LEMMA ScanTargetTyped == ASSUME NEW k \in Nat PROVE ScanTarget(k) \in Int
<1>1. k \div Repeats \in Nat /\ 2 * Steps \in Nat \ {0}
  BY ZeroCycleGroupAssumption, SMTT(30)
<1>2. \A q \in Nat, p \in Nat \ {0} : q % p \in Int
  BY SMTT(30)
<1>3. (k \div Repeats) % (2 * Steps) \in Int
  BY <1>1, <1>2
<1>4. QED
  BY <1>3, ZeroCycleGroupAssumption DEF ScanTarget

(* A group that goes back to zero, or has not yet moved, is at a new point.   *)
LEMMA FirstIsFresh ==
  /\ 0 % Repeats = 0
  /\ \A i \in Nat : i % (Steps * Repeats) = 0 => i % Repeats = 0
<1>1. \A r \in Nat \ {0} : 0 % r = 0
  BY SMTT(30)
<1>2. Steps \in Nat \ {0} /\ Repeats \in Nat \ {0}
  BY ZeroCycleGroupAssumption
<1>3. QED
  BY <1>1, <1>2, SideEnds

(* Every step keeps the types.                                              *)
LEMMA TypedStep == TypedInv /\ [Next]_vars => TypedInv'
<1> SUFFICES ASSUME TypedInv, [Next]_vars PROVE TypedInv'
  OBVIOUS
<1> USE ZeroCycleGroupAssumption
    DEF TypedInv, Places, Abort, rail, motor, setup, loop, score, past
<1>1. CASE Start
  BY <1>1 DEF Start
<1>2. CASE Scan
  BY <1>2 DEF Scan, PowerOn
<1>3. CASE Select
  BY <1>3 DEF Select, Eligible
<1>4. CASE Unscan
  BY <1>4 DEF Unscan, PowerOff, Disable
<1>5. CASE Power
  BY <1>5 DEF Power, PowerOn
<1>6. CASE Verify
  BY <1>6 DEF Verify
<1>7. CASE ZeroNext
  BY <1>7 DEF ZeroNext
<1>8. CASE Check
  BY <1>8 DEF Check
<1>9. CASE Finish
  BY <1>9 DEF Finish
<1>10. CASE Round
  <2>1. fresh' \in BOOLEAN
    BY <1>10 DEF Round
  <2>2. home' \in BOOLEAN
    BY <1>10 DEF Round
  <2>3. target' \in Int /\ pc' \in Places
    BY <1>10 DEF Round
  <2>4. QED
    BY <1>10, <2>1, <2>2, <2>3 DEF Round
<1>11. CASE Pick
  <2>1. target' \in Int /\ index' \in Nat
    <3>1. CASE Scanning
      BY <1>11, <3>1, ScanTargetTyped DEF Pick
    <3>2. CASE ~Scanning
      BY <1>11, <3>2 DEF Pick
    <3>3. QED
      BY <3>1, <3>2
  <2>2. pc' \in Places
    BY <1>11 DEF Pick
  <2>3. QED
    BY <1>11, <2>1, <2>2 DEF Pick
<1>12. CASE Enable
  BY <1>12 DEF Enable
<1>13. CASE Move
  BY <1>13 DEF Move, DisableAll, Disable
<1>14. CASE Sample
  BY <1>14 DEF Sample
<1>15. CASE Off
  BY <1>15 DEF Off, PowerOff, Disable
<1>16. CASE On
  BY <1>16 DEF On, PowerOn
<1>17. CASE Compare
  BY <1>17 DEF Compare
<1>18. CASE Recheck
  BY <1>18 DEF Recheck, AfterZero
<1>19. CASE Done
  BY <1>19 DEF Done, DisableAll, Disable
<1>20. CASE Cut
  BY <1>20 DEF Cut, PowerOff, Disable
<1>21. CASE Cancel
  BY <1>21 DEF Cancel
<1>22. CASE UNCHANGED vars
  BY <1>22 DEF vars
<1>23. QED
  BY <1>1, <1>2, <1>3, <1>4, <1>5, <1>6, <1>7, <1>8, <1>9, <1>10, <1>11,
     <1>12, <1>13, <1>14, <1>15, <1>16, <1>17, <1>18, <1>19, <1>20, <1>21, <1>22 DEF Next, Host

(* Every step keeps HomeInv; Round needs that a boundary is a fresh point,    *)
(* Move that the drifts are null.                                           *)
LEMMA HomeStep == GroupInv /\ [Next]_vars => HomeInv'
<1> SUFFICES ASSUME GroupInv, [Next]_vars PROVE HomeInv'
  OBVIOUS
<1> USE DEF GroupInv, HomeInv, Early, Reads, Abort, rail, motor, setup, loop, score, past
<1>1. CASE Start
  BY <1>1 DEF Start
<1>2. CASE Scan
  BY <1>2 DEF Scan, PowerOn
<1>3. CASE Select
  BY <1>3 DEF Select, Eligible
<1>4. CASE Unscan
  BY <1>4 DEF Unscan, PowerOff, Disable
<1>5. CASE Power
  BY <1>5 DEF Power, PowerOn
<1>6. CASE Verify
  BY <1>6 DEF Verify
<1>7. CASE ZeroNext
  BY <1>7 DEF ZeroNext
<1>8. CASE Check
  BY <1>8 DEF Check
<1>9. CASE Finish
  BY <1>9 DEF Finish
<1>10. CASE Round
  <2>1. Boundary => index % Repeats = 0
    BY FirstIsFresh DEF Boundary, TypedInv
  <2>2. Boundary => fresh'
    BY <1>10, <2>1 DEF Round
  <2>3. QED
    BY <1>10, <2>2 DEF Round
<1>11. CASE Pick
  BY <1>11 DEF Pick
<1>12. CASE Enable
  BY <1>12 DEF Enable, ControlInv, CutInv
<1>13. CASE Move
  <2>1. ~frozen /\ ~auto /\ fresh /\ \A m \in members : drift[m] = 0
    BY <1>13 DEF Move, ControlInv, CutInv, FrozenInv, TrueInv, True
  <2>2. home => \A m \in members : m \in Motors /\ target - drift[m] = 0
    BY <1>13, <2>1 DEF Move, TypedInv
  <2>3. QED
    BY <1>13, <2>1, <2>2 DEF Move, DisableAll, Disable
<1>14. CASE Sample
  BY <1>14 DEF Sample, ControlInv, CutInv
<1>15. CASE Off
  BY <1>15 DEF Off, PowerOff, Disable
<1>16. CASE On
  BY <1>16 DEF On, PowerOn, ControlInv, CutInv
<1>17. CASE Compare
  BY <1>17 DEF Compare, ControlInv, CutInv
<1>18. CASE Recheck
  BY <1>18 DEF Recheck, AfterZero, ControlInv, CutInv
<1>19. CASE Done
  BY <1>19 DEF Done, DisableAll, Disable
<1>20. CASE Cut
  BY <1>20 DEF Cut, PowerOff, Disable
<1>21. CASE Cancel
  BY <1>21 DEF Cancel
<1>22. CASE UNCHANGED vars
  BY <1>22 DEF vars
<1>23. QED
  BY <1>1, <1>2, <1>3, <1>4, <1>5, <1>6, <1>7, <1>8, <1>9, <1>10, <1>11,
     <1>12, <1>13, <1>14, <1>15, <1>16, <1>17, <1>18, <1>19, <1>20, <1>21, <1>22 DEF Next, Host

(* Every step keeps TrueInv: a comparison that finds no difference, with the   *)
(* baseline where the group stands, has found every drift null.             *)
LEMMA TrueStep == GroupInv /\ [Next]_vars => TrueInv'
<1> SUFFICES ASSUME GroupInv, [Next]_vars, ~frozen' PROVE TrueInv'
  BY DEF TrueInv
<1> USE DEF GroupInv, TrueInv, True, AtBaseline, Abort, rail, motor, setup, loop, score, past
<1>1. CASE Start
  BY <1>1 DEF Start
<1>2. CASE Scan
  BY <1>2 DEF Scan, PowerOn
<1>3. CASE Select
  BY <1>3 DEF Select, Eligible
<1>4. CASE Unscan
  BY <1>4 DEF Unscan, PowerOff, Disable
<1>5. CASE Power
  BY <1>5 DEF Power, PowerOn
<1>6. CASE Verify
  BY <1>6 DEF Verify
<1>7. CASE ZeroNext
  BY <1>7 DEF ZeroNext
<1>8. CASE Check
  BY <1>8 DEF Check, HomeInv, Early, TypedInv, AllZero, Reading
<1>9. CASE Finish
  BY <1>9 DEF Finish
<1>10. CASE Round
  BY <1>10, FirstIsFresh DEF Round, TypedInv
<1>11. CASE Pick
  BY <1>11 DEF Pick, TypedInv
<1>12. CASE Enable
  BY <1>12 DEF Enable
<1>13. CASE Move
  BY <1>13 DEF Move, DisableAll, Disable, HomeInv
<1>14. CASE Sample
  BY <1>14 DEF Sample, Rebased, Reading, TypedInv
<1>15. CASE Off
  BY <1>15 DEF Off, PowerOff, Disable
<1>16. CASE On
  BY <1>16 DEF On, PowerOn
<1>17. CASE Compare
  <2>1. CASE UNCHANGED <<at, drift, members, before, home>> /\ Abort
    BY <1>17, <2>1 DEF Compare, ControlInv, CutInv
  <2>2. ASSUME pc' = "head", NEW m \in members
        PROVE  drift[m] = 0 /\ before[m] = at[m]
    <3>1. Reading(m) = before[m] /\ before[m] = at[m]
      BY <1>17, <2>2 DEF Compare
    <3>2. at[m] \in Int /\ drift[m] \in Int
      BY DEF TypedInv
    <3>3. QED
      BY <3>1, <3>2 DEF Reading
  <2>3. QED
    BY <1>17, <2>1, <2>2 DEF Compare
<1>18. CASE Recheck
  <2>1. CASE Abort
    BY <1>18, <2>1 DEF Recheck, ControlInv, CutInv
  <2>2. CASE OffZero = {} /\ pc' = "pick"
    <3>1. ASSUME NEW m \in members PROVE drift[m] = 0
      <4>1. Reading(m) = 0
        BY <2>2 DEF OffZero
      <4>2. at[m] = 0 /\ drift[m] \in Int
        BY <1>18 DEF Recheck, HomeInv, Reads, TypedInv
      <4>3. QED
        BY <4>1, <4>2 DEF Reading
    <3>2. fresh
      BY <1>18 DEF Recheck, HomeInv, Reads
    <3>3. QED
      BY <1>18, <2>2, <3>1, <3>2 DEF Recheck
  <2>3. QED
    BY <1>18, <2>1, <2>2 DEF Recheck, AfterZero
<1>19. CASE Done
  BY <1>19 DEF Done, DisableAll, Disable
<1>20. CASE Cut
  BY <1>20 DEF Cut, PowerOff, Disable
<1>21. CASE Cancel
  BY <1>21 DEF Cancel
<1>22. CASE UNCHANGED vars
  BY <1>22 DEF vars
<1>23. QED
  BY <1>1, <1>2, <1>3, <1>4, <1>5, <1>6, <1>7, <1>8, <1>9, <1>10, <1>11,
     <1>12, <1>13, <1>14, <1>15, <1>16, <1>17, <1>18, <1>19, <1>20, <1>21, <1>22 DEF Next, Host

(* The invariant holds at the start.                                        *)
LEMMA GroupInit == Init => GroupInv
<1> SUFFICES ASSUME Init PROVE GroupInv
  OBVIOUS
<1>1. AllZero \in [Motors -> Int]
  BY DEF AllZero
<1>2. TypedInv
  <2>1. /\ pc \in Places /\ index \in Nat /\ members \subseteq Motors
        /\ online \subseteq Motors /\ target \in Int
    BY DEF Init, Places
  <2>2. at \in [Motors -> Int] /\ drift \in [Motors -> Int]
    BY <1>1 DEF Init
  <2>3. home \in BOOLEAN /\ fresh \in BOOLEAN /\ frozen \in BOOLEAN
    BY DEF Init
  <2>4. QED
    BY <2>1, <2>2, <2>3 DEF TypedInv
<1>3. HomeInv /\ TrueInv
  BY DEF Init, HomeInv, TrueInv, Reads
<1>4. QED
  BY <1>2, <1>3, ControlInit DEF GroupInv

(* The group is moved only on true coordinates.                             *)
THEOREM GroupMovesTrue == Spec => []MovesTrue
<1>1. GroupInv /\ [Next]_vars => GroupInv'
  BY ControlStep, TypedStep, HomeStep, TrueStep DEF GroupInv
<1>2. GroupInv => MovesTrue
  BY DEF GroupInv, ControlInv, FrozenInv, TrueInv, True, MovesTrue
<1>3. QED
  BY GroupInit, <1>1, <1>2, PTL DEF Spec

-----------------------------------------------------------------------------
(* The tally: nothing is on it before the loop, and TallyAgrees carries itself. *)
MarksInv ==
  /\ pc \in {"idle", "scan", "select"} =>
       n = 0 /\ passed = 0 /\ failed = 0 /\ tally = [m \in Motors |-> <<0, 0>>]
  /\ n \in Nat /\ passed \in Nat /\ failed \in Nat /\ tally \in [Motors -> Nat \X Nat]
  /\ TallyAgrees

(* Everybody in the group is zeroed before the loop.                         *)
ZeroedInv ==
  /\ pc = "zero" => members \subseteq zeroed \cup todo
  /\ pc = "check" \/ pc \in {"head", "pick", "enable", "moving"} \cup Reads \/ result = "PASS" =>
       members \subseteq zeroed

(* A jump is about to be found, has frozen the group, or the result is not PASS. *)
JumpInv ==
  /\ result = "PASS" => pc \in {"done", "cut", "ended"} /\ ~frozen
  /\ result = "PASS" /\ pc = "ended" => ~supply
  /\ ~frozen /\ pc = "on" => True
  /\ ~frozen /\ slipped =>
       \/ pc = "compare" /\ \E m \in members : drift[m] # 0
       \/ pc \in {"done", "cut", "ended"} /\ result # "PASS"

(* How often an angle was compared: as often as the order of the scan makes it  *)
(* of n comparisons.                                                        *)
RankOf(a) == Rank(Steps, IF mode = "positive" THEN -a ELSE a)

TallyOf(k, o) == Tally(Steps, Repeats, k, o)

ScanInv ==
  /\ pc \in Early => n = 0 /\ compared = [a \in Angles |-> 0]
  /\ n \in Nat /\ compared \in [Angles -> Nat]
  /\ ~frozen /\ Scanning =>
       /\ pc \in {"head", "pick"} \/ (home /\ pc \in {"enable", "moving"} \cup Reads) => index = n
       /\ ~home /\ pc \in {"enable", "moving"} \cup Reads => index = n + 1 /\ target = ScanTarget(n)
       /\ \A a \in Angles : compared[a] = TallyOf(n, RankOf(a))

(* Every step keeps the tally: a round is one mark for each member.           *)
LEMMA MarksStep == ControlInv /\ TypedInv /\ MarksInv /\ [Next]_vars => MarksInv'
<1> SUFFICES ASSUME ControlInv /\ TypedInv /\ MarksInv, [Next]_vars PROVE MarksInv'
  OBVIOUS
<1> USE DEF ControlInv, CutInv, TypedInv, MarksInv, TallyAgrees, Abort, rail, motor,
        setup, loop, score, past
<1>1. CASE Start
  BY <1>1 DEF Start
<1>2. CASE Scan
  BY <1>2 DEF Scan, PowerOn
<1>3. CASE Select
  BY <1>3 DEF Select, Eligible
<1>4. CASE Unscan
  BY <1>4 DEF Unscan, PowerOff, Disable
<1>5. CASE Power
  BY <1>5 DEF Power, PowerOn
<1>6. CASE Verify
  BY <1>6 DEF Verify
<1>7. CASE ZeroNext
  BY <1>7 DEF ZeroNext
<1>8. CASE Check
  BY <1>8 DEF Check
<1>9. CASE Finish
  BY <1>9 DEF Finish
<1>10. CASE Round
  BY <1>10 DEF Round
<1>11. CASE Pick
  BY <1>11 DEF Pick
<1>12. CASE Enable
  BY <1>12 DEF Enable
<1>13. CASE Move
  BY <1>13 DEF Move, DisableAll, Disable
<1>14. CASE Sample
  BY <1>14 DEF Sample
<1>15. CASE Off
  BY <1>15 DEF Off, PowerOff, Disable
<1>16. CASE On
  BY <1>16 DEF On, PowerOn
<1>17. CASE Compare
  <2>1. pc = "compare" /\ UNCHANGED members /\ pc' \in {"head", "done"}
    BY <1>17 DEF Compare
  <2>2. CASE UNCHANGED <<n, tally, frozen, passed, failed>>
    BY <2>1, <2>2
  <2> DEFINE bad == {m \in members : Reading(m) # before[m]}
  <2>3. CASE /\ n' = n + 1
             /\ tally' = [m \in Motors |-> IF m \notin members THEN tally[m]
                           ELSE IF m \in bad THEN <<tally[m][1], tally[m][2] + 1>>
                           ELSE <<tally[m][1] + 1, tally[m][2]>>]
             /\ frozen' = (frozen \/ bad # {})
             /\ IF bad = {} THEN passed' = passed + 1 /\ UNCHANGED failed
                ELSE failed' = failed + 1 /\ UNCHANGED passed
    <3>1. ASSUME NEW m \in Motors
          PROVE  /\ tally[m] = <<tally[m][1], tally[m][2]>>
                 /\ tally[m][1] \in Nat /\ tally[m][2] \in Nat
      OBVIOUS
    <3>2. tally' \in [Motors -> Nat \X Nat]
      BY <2>3, <3>1
    <3>3. ASSUME NEW m \in members
          PROVE  /\ m \in bad => tally'[m] = <<tally[m][1], tally[m][2] + 1>>
                 /\ m \notin bad => tally'[m] = <<tally[m][1] + 1, tally[m][2]>>
      BY <2>3
    <3>4. ASSUME NEW m \in members
          PROVE  tally'[m][1] + tally'[m][2] = n' /\ passed' <= tally'[m][1]
      <4>1. /\ tally[m][1] \in Nat /\ tally[m][2] \in Nat /\ tally[m][1] + tally[m][2] = n
            /\ passed <= tally[m][1]
        BY <3>1
      <4>2. CASE m \in bad
        BY <2>3, <3>3, <4>1, <4>2
      <4>3. CASE m \notin bad
        BY <2>3, <3>3, <4>1, <4>3
      <4> QED
        BY <4>2, <4>3
    <3>5. failed' # 0 => \E m \in members : tally'[m][2] # 0
      <4>1. CASE bad # {}
        <5>1. PICK m \in members : m \in bad
          BY <4>1
        <5>2. tally'[m][2] = tally[m][2] + 1 /\ tally[m][2] \in Nat
          BY <3>1, <3>3, <5>1
        <5> QED
          BY <5>2
      <4>2. CASE bad = {} /\ failed # 0
        <5>1. PICK m \in members : tally[m][2] # 0
          BY <4>2
        <5>2. tally'[m][2] = tally[m][2]
          BY <3>3, <4>2, <5>1
        <5> QED
          BY <5>1, <5>2
      <4> QED
        BY <2>3, <4>1, <4>2
    <3>6. failed' # 0 => frozen'
      <4>1. bad = {} => failed' = failed
        BY <2>3
      <4>2. failed' # 0 => frozen \/ bad # {}
        BY <4>1
      <4> QED
        BY <2>3, <4>2
    <3>7. passed' + failed' = n' /\ n' \in Nat /\ passed' \in Nat /\ failed' \in Nat
      BY <2>3
    <3> QED
      BY <2>1, <3>2, <3>4, <3>5, <3>6, <3>7
  <2> QED
    BY <1>17, <2>2, <2>3 DEF Compare, Passes
<1>18. CASE Recheck
  <2>1. /\ pc = "compare" /\ home /\ UNCHANGED <<n, passed, failed, tally, members>>
        /\ pc' \in {"pick", "sample", "done"}
    BY <1>18 DEF Recheck, AfterZero
  <2>2. failed = 0
    BY <2>1 DEF FrozenInv
  <2> QED
    BY <2>1, <2>2
<1>19. CASE Done
  BY <1>19 DEF Done, DisableAll, Disable
<1>20. CASE Cut
  BY <1>20 DEF Cut, PowerOff, Disable
<1>21. CASE Cancel
  BY <1>21 DEF Cancel
<1>22. CASE UNCHANGED vars
  BY <1>22 DEF vars
<1> QED
  BY <1>1, <1>2, <1>3, <1>4, <1>5, <1>6, <1>7, <1>8, <1>9, <1>10, <1>11, <1>12, <1>13,
     <1>14, <1>15, <1>16, <1>17, <1>18, <1>19, <1>20, <1>21, <1>22 DEF Next, Host

(* Every step keeps ZeroedInv: members are struck off as they are zeroed.      *)
LEMMA ZeroedStep == ControlInv /\ ZeroedInv /\ JumpInv /\ [Next]_vars => ZeroedInv'
<1> SUFFICES ASSUME ControlInv /\ ZeroedInv /\ JumpInv, [Next]_vars PROVE ZeroedInv'
  OBVIOUS
<1> USE DEF ControlInv, CutInv, Reads, ZeroedInv, JumpInv, Abort, rail, motor, setup,
        loop, score, past
<1>1. CASE Start
  BY <1>1 DEF Start
<1>2. CASE Scan
  BY <1>2 DEF Scan, PowerOn
<1>3. CASE Select
  BY <1>3 DEF Select, Eligible
<1>4. CASE Unscan
  BY <1>4 DEF Unscan, PowerOff, Disable
<1>5. CASE Power
  BY <1>5 DEF Power, PowerOn
<1>6. CASE Verify
  BY <1>6 DEF Verify
<1>7. CASE ZeroNext
  BY <1>7 DEF ZeroNext
<1>8. CASE Check
  BY <1>8 DEF Check
<1>9. CASE Finish
  BY <1>9 DEF Finish
<1>10. CASE Round
  BY <1>10 DEF Round
<1>11. CASE Pick
  BY <1>11 DEF Pick
<1>12. CASE Enable
  BY <1>12 DEF Enable
<1>13. CASE Move
  BY <1>13 DEF Move, DisableAll, Disable
<1>14. CASE Sample
  BY <1>14 DEF Sample
<1>15. CASE Off
  BY <1>15 DEF Off, PowerOff, Disable
<1>16. CASE On
  BY <1>16 DEF On, PowerOn
<1>17. CASE Compare
  BY <1>17 DEF Compare
<1>18. CASE Recheck
  BY <1>18 DEF Recheck, AfterZero
<1>19. CASE Done
  BY <1>19 DEF Done, DisableAll, Disable
<1>20. CASE Cut
  BY <1>20 DEF Cut, PowerOff, Disable
<1>21. CASE Cancel
  BY <1>21 DEF Cancel
<1>22. CASE UNCHANGED vars
  BY <1>22 DEF vars
<1> QED
  BY <1>1, <1>2, <1>3, <1>4, <1>5, <1>6, <1>7, <1>8, <1>9, <1>10, <1>11, <1>12, <1>13,
     <1>14, <1>15, <1>16, <1>17, <1>18, <1>19, <1>20, <1>21, <1>22 DEF Next, Host

(* Every step keeps JumpInv: what a switch-on changed, the comparison finds.    *)
LEMMA JumpStep == GroupInv /\ JumpInv /\ [Next]_vars => JumpInv'
<1> SUFFICES ASSUME GroupInv /\ JumpInv, [Next]_vars PROVE JumpInv'
  OBVIOUS
<1> USE DEF GroupInv, ControlInv, CutInv, FrozenInv, JumpInv, True, Abort, rail, motor,
        setup, loop, score, past
<1>1. CASE Start
  BY <1>1 DEF Start
<1>2. CASE Scan
  <2>1. pc = "scan" /\ UNCHANGED <<result, frozen>>
    BY <1>2 DEF Scan, PowerOn
  <2>2. pc' \in {"select", "unscan", "done"}
    <3>1. pc = "scan" /\ PowerOn("select")
      BY <1>2 DEF Scan
    <3> QED
      BY <3>1 DEF PowerOn
  <2>3. UNCHANGED slipped \/ slipped' = (slipped \/ (pc = "on" /\ drift' # drift))
    BY <1>2 DEF Scan, PowerOn
  <2>4. result # "PASS" /\ ~frozen /\ ~slipped
    BY <2>1
  <2>5. ~slipped'
    BY <2>1, <2>3, <2>4
  <2>6. result' # "PASS"
    BY <2>1, <2>4
  <2> QED
    BY <2>2, <2>5, <2>6
<1>3. CASE Select
  BY <1>3 DEF Select, Eligible
<1>4. CASE Unscan
  <2>1. pc = "unscan" /\ UNCHANGED <<result, frozen, slipped>> /\ pc' \in {"power", "ended"}
    BY <1>4 DEF Unscan, PowerOff, Disable
  <2>2. result # "PASS" /\ ~frozen /\ ~slipped
    BY <2>1
  <2> QED
    BY <2>1, <2>2
<1>5. CASE Power
  BY <1>5 DEF Power, PowerOn
<1>6. CASE Verify
  BY <1>6 DEF Verify
<1>7. CASE ZeroNext
  BY <1>7 DEF ZeroNext
<1>8. CASE Check
  BY <1>8 DEF Check
<1>9. CASE Finish
  BY <1>9 DEF Finish, Outcome
<1>10. CASE Round
  BY <1>10 DEF Round
<1>11. CASE Pick
  BY <1>11 DEF Pick
<1>12. CASE Enable
  BY <1>12 DEF Enable
<1>13. CASE Move
  BY <1>13 DEF Move, DisableAll, Disable
<1>14. CASE Sample
  BY <1>14 DEF Sample
<1>15. CASE Off
  BY <1>15 DEF Off, PowerOff, Disable, TrueInv
<1>16. CASE On
  <2>1. /\ pc = "on" /\ UNCHANGED <<members, result, frozen>> /\ result # "PASS"
        /\ pc' \in {"compare", "done"}
    BY <1>16 DEF On, PowerOn
  <2>2. CASE UNCHANGED <<drift, slipped>>
    BY <2>1, <2>2
  <2>3. CASE /\ slipped' = (slipped \/ drift' # drift)
             /\ \E S \in SUBSET members, j \in Jumps :
                  drift' = [m \in Motors |-> IF m \in S THEN j ELSE drift[m]]
    <3>1. PICK S \in SUBSET members, j \in Jumps :
            drift' = [m \in Motors |-> IF m \in S THEN j ELSE drift[m]]
      BY <2>3
    <3>2. ASSUME ~frozen, drift' # drift PROVE \E m \in members : drift'[m] # 0
      <4>1. drift \in [Motors -> Int] /\ S \subseteq Motors
        BY <3>1 DEF TypedInv
      <4>2. PICK m \in Motors : drift'[m] # drift[m]
        BY <3>1, <3>2, <4>1
      <4>3. m \in S /\ drift[m] = 0
        BY <2>1, <3>1, <3>2, <4>2
      <4> QED
        BY <3>1, <4>2, <4>3
    <3>3. ASSUME ~frozen PROVE slipped' => \E m \in members : drift'[m] # 0
      BY <2>1, <2>3, <3>2, <3>3
    <3> QED
      BY <2>1, <3>3
  <2> QED
    BY <1>16, <2>1, <2>2, <2>3 DEF On, PowerOn
<1>17. CASE Compare
  <2>1. /\ pc = "compare" /\ UNCHANGED <<members, result, drift, slipped, home>> /\ result # "PASS"
        /\ ~home /\ pc' \in {"head", "done"}
    BY <1>17 DEF Compare
  <2>2. CASE pc' = "done"
    BY <2>1, <2>2
  <2>3. ASSUME pc' = "head", ~frozen' PROVE ~slipped
    <3>1. ~frozen /\ \A m \in members : Reading(m) = before[m]
      BY <1>17, <2>3 DEF Compare
    <3>2. ASSUME NEW m \in members PROVE drift[m] = 0
      <4>1. before[m] = at[m] /\ at[m] \in Int /\ drift[m] \in Int
        BY <2>1, <3>1 DEF TrueInv, AtBaseline, TypedInv
      <4> QED
        BY <3>1, <4>1 DEF Reading
    <3> QED
      BY <2>1, <3>1, <3>2
  <2>4. ~frozen' /\ pc' = "head" => ~slipped'
    BY <2>1, <2>3
  <2> QED
    BY <2>1, <2>2, <2>4
<1>18. CASE Recheck
  <2>1. /\ pc = "compare" /\ UNCHANGED <<members, result, drift, slipped>> /\ result # "PASS"
        /\ home /\ pc' \in {"pick", "sample", "done"}
    BY <1>18 DEF Recheck, AfterZero
  <2>2. ASSUME pc' # "done", ~frozen' PROVE ~slipped
    <3>1. ~frozen /\ OffZero = {}
      BY <2>1, <1>18, <2>2 DEF Recheck, AfterZero
    <3>2. ASSUME NEW m \in members PROVE drift[m] = 0
      <4>1. at[m] = 0 /\ drift[m] \in Int
        BY <2>1 DEF HomeInv, Reads, TypedInv
      <4>2. Reading(m) = 0
        BY <3>1 DEF OffZero
      <4> QED
        BY <4>1, <4>2 DEF Reading
    <3> QED
      BY <2>1, <3>1, <3>2
  <2>3. ~frozen' /\ pc' # "done" => ~slipped'
    BY <2>1, <2>2
  <2> QED
    BY <2>1, <2>3
<1>19. CASE Done
  BY <1>19 DEF Done, DisableAll, Disable
<1>20. CASE Cut
  BY <1>20 DEF Cut, PowerOff, Disable
<1>21. CASE Cancel
  BY <1>21 DEF Cancel
<1>22. CASE UNCHANGED vars
  BY <1>22 DEF vars
<1> QED
  BY <1>1, <1>2, <1>3, <1>4, <1>5, <1>6, <1>7, <1>8, <1>9, <1>10, <1>11, <1>12, <1>13,
     <1>14, <1>15, <1>16, <1>17, <1>18, <1>19, <1>20, <1>21, <1>22 DEF Next, Host

(* A comparison is at the angle whose rank is its place on the round.       *)
LEMMA GroupRankHit ==
  ASSUME NEW k \in Nat, NEW a \in Angles
  PROVE  /\ RankOf(a) \in 0 .. 2 * Steps - 1
         /\ (k \div Repeats) % (2 * Steps) = RankOf(a) <=> ScanTarget(k) = a
<1>0. Steps \in Nat \ {0} /\ Repeats \in Nat \ {0}
  BY ZeroCycleGroupAssumption
<1>1. PICK i \in 0 .. 2 * Steps - 1 : i = (k \div Repeats) % (2 * Steps)
  BY <1>0, RoundIndex
<1>2. ScanTarget(k) = IF mode = "positive" THEN -AngleAt(Steps, i) ELSE AngleAt(Steps, i)
  BY <1>1 DEF ScanTarget, AngleAt
<1>3. PICK b \in Angles : b = IF mode = "positive" THEN -a ELSE a
  BY <1>0 DEF Angles
<1>4. /\ Rank(Steps, b) \in 0 .. 2 * Steps - 1
      /\ i = Rank(Steps, b) <=> AngleAt(Steps, i) = b
  BY <1>0, <1>1, <1>3, RankHit DEF Angles
<1>5. ScanTarget(k) = a <=> AngleAt(Steps, i) = b
  BY <1>0, <1>1, <1>2, <1>3 DEF AngleAt, Angles
<1>6. RankOf(a) = Rank(Steps, b)
  BY <1>3 DEF RankOf
<1> QED
  BY <1>1, <1>4, <1>5, <1>6

(* The arithmetic of the scan, for the scan of the group.                   *)
LEMMA GroupTally ==
  ASSUME NEW o \in 0 .. 2 * Steps - 1
  PROVE  /\ TallyOf(0, o) = 0
         /\ TallyOf(Total, o) = Repeats * Rounds
         /\ \A k \in Nat : TallyOf(k + 1, o) =
              TallyOf(k, o) + (IF (k \div Repeats) % (2 * Steps) = o THEN 1 ELSE 0)
<1>1. Steps \in Nat \ {0} /\ Repeats \in Nat \ {0} /\ Rounds \in Nat
  BY ZeroCycleGroupAssumption
<1>2. Tally(Steps, Repeats, 0, o) = 0
  BY <1>1, TallyNone, Zenon
<1>3. Tally(Steps, Repeats, 2 * Steps * Repeats * Rounds, o) = Repeats * Rounds
  BY <1>1, TallyAll, Zenon
<1>4. ASSUME NEW k \in Nat
      PROVE  Tally(Steps, Repeats, k + 1, o) = Tally(Steps, Repeats, k, o)
               + (IF (k \div Repeats) % (2 * Steps) = o THEN 1 ELSE 0)
  BY <1>1, TallyNext, Zenon
<1> QED
  BY <1>2, <1>3, <1>4 DEF TallyOf, Total

(* Both orders of the scan rank every angle.                                *)
LEMMA Mirrored == \A b \in Angles : -b \in Angles /\ Rank(Steps, b) \in 0 .. 2 * Steps - 1
<1>1. Steps \in Nat \ {0}
  BY ZeroCycleGroupAssumption
<1> QED
  BY <1>1, RankHit, 0 \in 0 .. 2 * Steps - 1 DEF Angles

(* Every step keeps the place in the scan; only a comparison adds to compared.  *)
LEMMA ScanStep == GroupInv /\ ScanInv /\ [Next]_vars => ScanInv'
<1> SUFFICES ASSUME GroupInv /\ ScanInv, [Next]_vars PROVE ScanInv'
  OBVIOUS
<1> USE DEF GroupInv, ControlInv, CutInv, FrozenInv, TypedInv, HomeInv, Early, Reads,
        ScanInv, Scanning, Abort, rail, motor, setup, loop, score, past
<1>1. CASE Start
  <2>1. /\ pc = "idle" /\ pc' \in {"power", "scan"} /\ n = 0 /\ compared = [a \in Angles |-> 0]
        /\ UNCHANGED <<n, compared>>
    BY <1>1 DEF Start
  <2>2. (\A a \in Angles : compared[a] = TallyOf(n, RankOf(a)))'
    <3>1. ASSUME NEW a \in Angles PROVE RankOf(a)' \in 0 .. 2 * Steps - 1
      BY Mirrored DEF RankOf
    <3>2. ASSUME NEW a \in Angles PROVE TallyOf(0, RankOf(a)') = 0
      BY <3>1, GroupTally
    <3> QED
      BY <2>1, <3>2
  <2> QED
    BY <2>1, <2>2
<1>2. CASE Scan
  BY <1>2 DEF Scan, PowerOn, RankOf, ScanTarget
<1>3. CASE Select
  BY <1>3 DEF Select, Eligible, RankOf, ScanTarget
<1>4. CASE Unscan
  BY <1>4 DEF Unscan, PowerOff, Disable, RankOf, ScanTarget
<1>5. CASE Power
  BY <1>5 DEF Power, PowerOn, RankOf, ScanTarget
<1>6. CASE Verify
  BY <1>6 DEF Verify, RankOf, ScanTarget
<1>7. CASE ZeroNext
  BY <1>7 DEF ZeroNext, RankOf, ScanTarget
<1>8. CASE Check
  BY <1>8 DEF Check, RankOf, ScanTarget
<1>9. CASE Finish
  BY <1>9 DEF Finish, RankOf, ScanTarget
<1>10. CASE Round
  BY <1>10 DEF Round, RankOf, ScanTarget
<1>11. CASE Pick
  BY <1>11 DEF Pick, RankOf, ScanTarget
<1>12. CASE Enable
  BY <1>12 DEF Enable, RankOf, ScanTarget
<1>13. CASE Move
  BY <1>13 DEF Move, DisableAll, Disable, RankOf, ScanTarget
<1>14. CASE Sample
  BY <1>14 DEF Sample, RankOf, ScanTarget
<1>15. CASE Off
  BY <1>15 DEF Off, PowerOff, Disable, RankOf, ScanTarget
<1>16. CASE On
  BY <1>16 DEF On, PowerOn, RankOf, ScanTarget
<1>17. CASE Compare
  <2>1. /\ pc = "compare" /\ ~home /\ pc' \in {"head", "done"}
        /\ UNCHANGED <<index, target, home, mode>>
    BY <1>17 DEF Compare
  <2>2. CASE UNCHANGED <<n, frozen, compared>>
    <3>1. pc' = "done"
      BY <1>17, <2>1, <2>2 DEF Compare
    <3> QED
      BY <2>1, <2>2, <3>1 DEF RankOf
  <2>3. CASE /\ n' = n + 1 /\ pc' = "head"
             /\ compared' = IF frozen \/ ~Scanning THEN compared
                            ELSE [compared EXCEPT ![target] = @ + 1]
             /\ frozen => frozen'
    <3>1. n' \in Nat /\ compared' \in [Angles -> Nat]
      <4>1. CASE frozen \/ ~Scanning
        BY <2>3, <4>1
      <4>2. CASE ~frozen /\ Scanning
        <5>1. compared' = [compared EXCEPT ![target] = @ + 1] /\ n' \in Nat
          BY <2>3, <4>2
        <5>2. \A a \in Angles : compared[a] \in Nat /\ compared[a] + 1 \in Nat
          OBVIOUS
        <5> QED
          BY <5>1, <5>2
      <4> QED
        BY <2>3, <4>1, <4>2
    <3>2. CASE ~frozen /\ Scanning
      <4>1. index = n + 1 /\ target = ScanTarget(n)
        BY <2>1, <3>2
      <4>2. compared' = [compared EXCEPT ![target] = @ + 1]
        BY <2>3, <3>2
      <4>3. ASSUME NEW a \in Angles PROVE compared'[a] = TallyOf(n + 1, RankOf(a))
        <5>1. compared[a] = TallyOf(n, RankOf(a))
          BY <3>2
        <5>2. /\ RankOf(a) \in 0 .. 2 * Steps - 1
              /\ (n \div Repeats) % (2 * Steps) = RankOf(a) <=> target = a
          BY <4>1, GroupRankHit
        <5>3. TallyOf(n + 1, RankOf(a))
                = TallyOf(n, RankOf(a)) + (IF target = a THEN 1 ELSE 0)
          BY <5>2, GroupTally
        <5>4. compared'[a] = compared[a] + (IF target = a THEN 1 ELSE 0)
          BY <4>2
        <5> QED
          BY <5>1, <5>3, <5>4
      <4> QED
        BY <2>1, <2>3, <3>1, <4>1, <4>3 DEF RankOf
    <3>3. CASE frozen \/ ~Scanning
      <4>1. frozen' \/ ~Scanning'
        BY <2>1, <2>3, <3>3
      <4> QED
        BY <2>1, <2>3, <3>1, <4>1
    <3> QED
      BY <3>2, <3>3
  <2> QED
    BY <1>17, <2>1, <2>2, <2>3 DEF Compare
<1>18. CASE Recheck
  BY <1>18 DEF Recheck, AfterZero, RankOf, ScanTarget
<1>19. CASE Done
  BY <1>19 DEF Done, DisableAll, Disable, RankOf, ScanTarget
<1>20. CASE Cut
  BY <1>20 DEF Cut, PowerOff, Disable, RankOf, ScanTarget
<1>21. CASE Cancel
  BY <1>21 DEF Cancel, RankOf, ScanTarget
<1>22. CASE UNCHANGED vars
  BY <1>22 DEF vars, RankOf, ScanTarget
<1> QED
  BY <1>1, <1>2, <1>3, <1>4, <1>5, <1>6, <1>7, <1>8, <1>9, <1>10, <1>11, <1>12, <1>13,
     <1>14, <1>15, <1>16, <1>17, <1>18, <1>19, <1>20, <1>21, <1>22 DEF Next, Host

-----------------------------------------------------------------------------
(* At the start there is no mark, no jump and no comparison.                 *)
LEMMA ScoreInit == Init => MarksInv /\ ZeroedInv /\ JumpInv /\ ScanInv
<1> SUFFICES ASSUME Init PROVE MarksInv /\ ZeroedInv /\ JumpInv /\ ScanInv
  OBVIOUS
<1>1. MarksInv
  <2>1. tally \in [Motors -> Nat \X Nat]
    BY DEF Init
  <2> QED
    BY <2>1 DEF Init, MarksInv, TallyAgrees
<1>2. ZeroedInv /\ JumpInv
  BY DEF Init, ZeroedInv, JumpInv, Reads
<1>3. ScanInv
  <2>1. compared \in [Angles -> Nat]
    BY DEF Init
  <2> QED
    BY <2>1 DEF Init, ScanInv, Scanning, Reads
<1> QED
  BY <1>1, <1>2, <1>3

(* All of it holds in every reachable state.                                *)
LEMMA ScoreAlways == Spec => [](MarksInv /\ ZeroedInv /\ JumpInv /\ ScanInv)
<1>1. GroupInv => ControlInv /\ TypedInv
  BY DEF GroupInv
<1>2. GroupInv /\ [Next]_vars => GroupInv'
  BY ControlStep, TypedStep, HomeStep, TrueStep DEF GroupInv
<1> QED
  BY GroupInit, ScoreInit, <1>1, <1>2, MarksStep, ZeroedStep, JumpStep, ScanStep,
     PTL DEF Spec

(* The tallies agree after any number of rounds: a mark for each member in each  *)
(* round, and no failed round without a frozen group and the member to blame.  *)
THEOREM GroupTallyAgrees == Spec => []TallyAgrees
<1>1. MarksInv => TallyAgrees
  BY DEF MarksInv
<1> QED
  BY <1>1, ScoreAlways, PTL

(* PASS means that no zero slipped in any power cycle since it was set, that all *)
(* members were zeroed, that the supply is off, and that a scan that ran to its  *)
(* end compared every angle as often as asked.                              *)
THEOREM GroupPassEarned == Spec => []PassEarned
<1>1. ASSUME ZeroedInv, JumpInv, ScanInv PROVE PassEarned
  <2> SUFFICES ASSUME pc = "ended", result = "PASS" PROVE PassEarned
    BY DEF PassEarned
  <2>1. ~supply /\ ~frozen /\ ~slipped /\ members \subseteq zeroed
    BY <1>1 DEF JumpInv, ZeroedInv
  <2>2. ASSUME Scanning, n = Total, NEW a \in Angles
        PROVE  compared[a] = Repeats * Rounds
    <3>1. compared[a] = TallyOf(Total, RankOf(a))
      BY <1>1, <2>1, <2>2 DEF ScanInv
    <3>2. RankOf(a) \in 0 .. 2 * Steps - 1
      BY <2>2, GroupRankHit, 0 \in Nat
    <3> QED
      BY <3>1, <3>2, GroupTally
  <2> QED
    BY <2>1, <2>2 DEF PassEarned
<1> QED
  BY <1>1, ScoreAlways, PTL

-----------------------------------------------------------------------------
(* The types.                                                              *)

(* What was sent ENABLE is of the group, only what was is marked enabled, and    *)
(* nobody is when the end cuts the supply.                                  *)
OwedInv ==
  /\ owed \subseteq members /\ lost \subseteq owed /\ flags \subseteq owed
  /\ pc = "cut" => flags = {}

(* The group fits, and a loop over it visits no one else.                     *)
GroupOfInv ==
  /\ Cardinality(members) <= Most
  /\ pc \in {"idle", "scan", "select"} => todo = {}
  /\ todo \subseteq members
  /\ mode \in {"random", "negative", "positive"} /\ count \in Counts

(* What the records and the readings hold.                                  *)
RecordInv ==
  /\ detected \subseteq Motors /\ printed \subseteq Motors /\ zeroed \subseteq Motors
  /\ before \in [Motors -> Int] /\ previous \in [Motors -> Int]
  /\ result \in {"FAILED_OR_STOPPED", "PASS"}

SwitchInv == supply \in BOOLEAN /\ auto \in BOOLEAN /\ cancel \in BOOLEAN /\ slipped \in BOOLEAN

(* The scan has a number of comparisons.                                    *)
LEMMA TotalTyped == Total \in Nat
<1>1. \A x, y \in Nat : x * y \in Nat
  BY SMT
<1> QED
  BY <1>1, ZeroCycleGroupAssumption DEF Total

(* A round that is under way is not one too many.                             *)
IndexInv ==
  /\ index \in 0 .. Total
  /\ Scanning /\ ~frozen /\ (pc = "pick" \/ (home /\ pc \in {"enable", "moving"} \cup Reads)) => n < Total

(* A move that succeeds, and the end, disable all; the supply is cut only then. *)
LEMMA OwedStep == ControlInv /\ OwedInv /\ [Next]_vars => OwedInv'
<1> SUFFICES ASSUME ControlInv, OwedInv, [Next]_vars PROVE OwedInv'
  OBVIOUS
<1> USE DEF rail, motor, setup, loop, score, past, Abort, OwedInv, ControlInv, CutInv
<1>1. CASE Start
  BY <1>1 DEF Start
<1>2. CASE Scan
  BY <1>2 DEF Scan, PowerOn, Types
<1>3. CASE Select
  BY <1>3 DEF Select, Eligible, Fits
<1>4. CASE Unscan
  BY <1>4 DEF Unscan, PowerOff, Disable
<1>5. CASE Power
  BY <1>5 DEF Power, PowerOn, Types
<1>6. CASE Verify
  BY <1>6 DEF Verify
<1>7. CASE ZeroNext
  BY <1>7 DEF ZeroNext
<1>8. CASE Check
  BY <1>8 DEF Check
<1>9. CASE Finish
  BY <1>9 DEF Finish, Outcome
<1>10. CASE Round
  BY <1>10 DEF Round
<1>11. CASE Pick
  BY <1>11 DEF Pick
<1>12. CASE Enable
  BY <1>12 DEF Enable
<1>13. CASE Move
  BY <1>13 DEF Move, DisableAll, Disable
<1>14. CASE Sample
  BY <1>14 DEF Sample
<1>15. CASE Off
  BY <1>15 DEF Off, PowerOff, Disable
<1>16. CASE On
  BY <1>16 DEF On, PowerOn, Types
<1>17. CASE Compare
  BY <1>17 DEF Compare
<1>18. CASE Recheck
  BY <1>18 DEF Recheck, AfterZero
<1>19. CASE Done
  BY <1>19 DEF Done, DisableAll, Disable
<1>20. CASE Cut
  BY <1>20 DEF Cut, PowerOff, Disable
<1>21. CASE Cancel
  BY <1>21 DEF Cancel
<1>22. CASE UNCHANGED vars
  BY <1>22 DEF vars
<1> QED
  BY <1>1, <1>2, <1>3, <1>4, <1>5, <1>6, <1>7, <1>8, <1>9, <1>10, <1>11, <1>12, <1>13,
     <1>14, <1>15, <1>16, <1>17, <1>18, <1>19, <1>20, <1>21, <1>22 DEF Next, Host

(* Start and Select choose the group before anything loops over it.           *)
LEMMA GroupOfStep == TypedInv /\ GroupOfInv /\ [Next]_vars => GroupOfInv'
<1> SUFFICES ASSUME TypedInv, GroupOfInv, [Next]_vars PROVE GroupOfInv'
  OBVIOUS
<1> USE DEF rail, motor, setup, loop, score, past, Abort, GroupOfInv
<1>1. CASE Start
  <2>1. /\ todo = {} /\ todo' = todo /\ pc' \in {"power", "scan"} /\ count' = count
        /\ mode' \in {"random", "negative", "positive"}
    BY <1>1 DEF Start
  <2>2. Fits(members') \/ members' = {}
    BY <1>1 DEF Start
  <2>3. Cardinality(members') <= Most
    BY <2>2, FS_EmptySet, ZeroCycleGroupAssumption DEF Fits
  <2> QED
    BY <2>1, <2>3
<1>2. CASE Scan
  BY <1>2 DEF Scan, PowerOn, Types
<1>3. CASE Select
  <2>1. /\ todo = {} /\ todo' = todo /\ pc' = "unscan" /\ UNCHANGED <<mode, count>>
        /\ Fits(members') \/ members' = {}
    BY <1>3 DEF Select
  <2>2. Cardinality(members') <= Most
    BY <2>1, FS_EmptySet, ZeroCycleGroupAssumption DEF Fits
  <2> QED
    BY <2>1, <2>2
<1>4. CASE Unscan
  BY <1>4 DEF Unscan, PowerOff, Disable
<1>5. CASE Power
  BY <1>5 DEF Power, PowerOn, Types
<1>6. CASE Verify
  BY <1>6 DEF Verify
<1>7. CASE ZeroNext
  BY <1>7 DEF ZeroNext
<1>8. CASE Check
  BY <1>8 DEF Check
<1>9. CASE Finish
  BY <1>9 DEF Finish, Outcome
<1>10. CASE Round
  BY <1>10 DEF Round
<1>11. CASE Pick
  BY <1>11 DEF Pick
<1>12. CASE Enable
  BY <1>12 DEF Enable
<1>13. CASE Move
  BY <1>13 DEF Move, DisableAll, Disable
<1>14. CASE Sample
  BY <1>14 DEF Sample
<1>15. CASE Off
  BY <1>15 DEF Off, PowerOff, Disable
<1>16. CASE On
  BY <1>16 DEF On, PowerOn, Types
<1>17. CASE Compare
  BY <1>17 DEF Compare
<1>18. CASE Recheck
  BY <1>18 DEF Recheck, AfterZero
<1>19. CASE Done
  BY <1>19 DEF Done, DisableAll, Disable
<1>20. CASE Cut
  BY <1>20 DEF Cut, PowerOff, Disable
<1>21. CASE Cancel
  BY <1>21 DEF Cancel
<1>22. CASE UNCHANGED vars
  BY <1>22 DEF vars
<1> QED
  BY <1>1, <1>2, <1>3, <1>4, <1>5, <1>6, <1>7, <1>8, <1>9, <1>10, <1>11, <1>12, <1>13,
     <1>14, <1>15, <1>16, <1>17, <1>18, <1>19, <1>20, <1>21, <1>22 DEF Next, Host

(* Only members of the map are detected and zeroed; readings are numbers.      *)
LEMMA RecordStep == TypedInv /\ GroupOfInv /\ RecordInv /\ [Next]_vars => RecordInv'
<1> SUFFICES ASSUME TypedInv, GroupOfInv, RecordInv, [Next]_vars PROVE RecordInv'
  OBVIOUS
<1> USE DEF rail, motor, setup, loop, score, past, Abort, RecordInv, TypedInv, GroupOfInv, Reading
<1>1. CASE Start
  BY <1>1 DEF Start
<1>2. CASE Scan
  BY <1>2 DEF Scan, PowerOn, Types
<1>3. CASE Select
  BY <1>3 DEF Select, Eligible, Fits
<1>4. CASE Unscan
  BY <1>4 DEF Unscan, PowerOff, Disable
<1>5. CASE Power
  BY <1>5 DEF Power, PowerOn, Types
<1>6. CASE Verify
  BY <1>6 DEF Verify
<1>7. CASE ZeroNext
  BY <1>7 DEF ZeroNext
<1>8. CASE Check
  BY <1>8 DEF Check
<1>9. CASE Finish
  BY <1>9 DEF Finish, Outcome
<1>10. CASE Round
  BY <1>10 DEF Round
<1>11. CASE Pick
  BY <1>11 DEF Pick
<1>12. CASE Enable
  BY <1>12 DEF Enable
<1>13. CASE Move
  BY <1>13 DEF Move, DisableAll, Disable
<1>14. CASE Sample
  BY <1>14 DEF Sample
<1>15. CASE Off
  BY <1>15 DEF Off, PowerOff, Disable
<1>16. CASE On
  BY <1>16 DEF On, PowerOn, Types
<1>17. CASE Compare
  BY <1>17 DEF Compare
<1>18. CASE Recheck
  BY <1>18 DEF Recheck, AfterZero
<1>19. CASE Done
  BY <1>19 DEF Done, DisableAll, Disable
<1>20. CASE Cut
  BY <1>20 DEF Cut, PowerOff, Disable
<1>21. CASE Cancel
  BY <1>21 DEF Cancel
<1>22. CASE UNCHANGED vars
  BY <1>22 DEF vars
<1> QED
  BY <1>1, <1>2, <1>3, <1>4, <1>5, <1>6, <1>7, <1>8, <1>9, <1>10, <1>11, <1>12, <1>13,
     <1>14, <1>15, <1>16, <1>17, <1>18, <1>19, <1>20, <1>21, <1>22 DEF Next, Host

(* The switches stay switches.                                             *)
LEMMA SwitchStep == SwitchInv /\ [Next]_vars => SwitchInv'
<1> SUFFICES ASSUME SwitchInv, [Next]_vars PROVE SwitchInv'
  OBVIOUS
<1> USE DEF rail, motor, setup, loop, score, past, Abort, SwitchInv
<1>1. CASE Start
  BY <1>1 DEF Start
<1>2. CASE Scan
  BY <1>2 DEF Scan, PowerOn, Types
<1>3. CASE Select
  BY <1>3 DEF Select, Eligible, Fits
<1>4. CASE Unscan
  BY <1>4 DEF Unscan, PowerOff, Disable
<1>5. CASE Power
  BY <1>5 DEF Power, PowerOn, Types
<1>6. CASE Verify
  BY <1>6 DEF Verify
<1>7. CASE ZeroNext
  BY <1>7 DEF ZeroNext
<1>8. CASE Check
  BY <1>8 DEF Check
<1>9. CASE Finish
  BY <1>9 DEF Finish, Outcome
<1>10. CASE Round
  BY <1>10 DEF Round
<1>11. CASE Pick
  BY <1>11 DEF Pick
<1>12. CASE Enable
  BY <1>12 DEF Enable
<1>13. CASE Move
  BY <1>13 DEF Move, DisableAll, Disable
<1>14. CASE Sample
  BY <1>14 DEF Sample
<1>15. CASE Off
  BY <1>15 DEF Off, PowerOff, Disable
<1>16. CASE On
  BY <1>16 DEF On, PowerOn, Types
<1>17. CASE Compare
  BY <1>17 DEF Compare
<1>18. CASE Recheck
  BY <1>18 DEF Recheck, AfterZero
<1>19. CASE Done
  BY <1>19 DEF Done, DisableAll, Disable
<1>20. CASE Cut
  BY <1>20 DEF Cut, PowerOff, Disable
<1>21. CASE Cancel
  BY <1>21 DEF Cancel
<1>22. CASE UNCHANGED vars
  BY <1>22 DEF vars
<1> QED
  BY <1>1, <1>2, <1>3, <1>4, <1>5, <1>6, <1>7, <1>8, <1>9, <1>10, <1>11, <1>12, <1>13,
     <1>14, <1>15, <1>16, <1>17, <1>18, <1>19, <1>20, <1>21, <1>22 DEF Next, Host

(* Pick is reached once in a round, and rounds are counted by n.              *)
LEMMA IndexStep == GroupInv /\ ScanInv /\ IndexInv /\ [Next]_vars => IndexInv'
<1> SUFFICES ASSUME GroupInv, ScanInv, IndexInv, [Next]_vars PROVE IndexInv'
  OBVIOUS
<1> USE TotalTyped DEF rail, motor, setup, loop, score, past, Abort, GroupInv, ControlInv, FrozenInv, HomeInv, ScanInv, IndexInv, Scanning, Reads, Early
<1>1. CASE Start
  BY <1>1 DEF Start
<1>2. CASE Scan
  BY <1>2 DEF Scan, PowerOn, Types
<1>3. CASE Select
  BY <1>3 DEF Select, Eligible, Fits
<1>4. CASE Unscan
  BY <1>4 DEF Unscan, PowerOff, Disable
<1>5. CASE Power
  BY <1>5 DEF Power, PowerOn, Types
<1>6. CASE Verify
  BY <1>6 DEF Verify
<1>7. CASE ZeroNext
  BY <1>7 DEF ZeroNext
<1>8. CASE Check
  BY <1>8 DEF Check
<1>9. CASE Finish
  BY <1>9 DEF Finish, Outcome
<1>10. CASE Round
  BY <1>10 DEF Round
<1>11. CASE Pick
  BY <1>11 DEF Pick
<1>12. CASE Enable
  BY <1>12 DEF Enable
<1>13. CASE Move
  BY <1>13 DEF Move, DisableAll, Disable
<1>14. CASE Sample
  BY <1>14 DEF Sample
<1>15. CASE Off
  BY <1>15 DEF Off, PowerOff, Disable
<1>16. CASE On
  BY <1>16 DEF On, PowerOn, Types
<1>17. CASE Compare
  BY <1>17 DEF Compare
<1>18. CASE Recheck
  BY <1>18 DEF Recheck, AfterZero
<1>19. CASE Done
  BY <1>19 DEF Done, DisableAll, Disable
<1>20. CASE Cut
  BY <1>20 DEF Cut, PowerOff, Disable
<1>21. CASE Cancel
  BY <1>21 DEF Cancel
<1>22. CASE UNCHANGED vars
  BY <1>22 DEF vars
<1> QED
  BY <1>1, <1>2, <1>3, <1>4, <1>5, <1>6, <1>7, <1>8, <1>9, <1>10, <1>11, <1>12, <1>13,
     <1>14, <1>15, <1>16, <1>17, <1>18, <1>19, <1>20, <1>21, <1>22 DEF Next, Host

TypesInv == OwedInv /\ GroupOfInv /\ RecordInv /\ SwitchInv /\ IndexInv

LEMMA TypesInit == Init => TypesInv
<1> SUFFICES ASSUME Init PROVE TypesInv
  OBVIOUS
<1>1. Cardinality(members) <= Most
  BY FS_EmptySet, ZeroCycleGroupAssumption DEF Init
<1>2. RecordInv
  <2>1. AllZero \in [Motors -> Int]
    BY DEF AllZero
  <2> QED
    BY <2>1 DEF Init, RecordInv
<1>3. SwitchInv
  BY DEF Init, SwitchInv
<1>4. 0 \in 0 .. Total
  BY TotalTyped
<1> QED
  BY <1>1, <1>2, <1>3, <1>4 DEF Init, TypesInv, OwedInv, GroupOfInv, IndexInv, Scanning

(* Every variable keeps its type, the group never has more members than it may   *)
(* (zero_cycle_group_parse, zero_group_discover), and the scan never passes its end. *)
THEOREM GroupTyped == Spec => []TypeOK
<1>1. GroupInv /\ MarksInv /\ ScanInv /\ TypesInv => TypeOK
  <2> SUFFICES ASSUME GroupInv, MarksInv, ScanInv, TypesInv PROVE TypeOK
    OBVIOUS
  <2> USE DEF GroupInv, TypesInv
  <2>1. SwitchInv /\ home \in BOOLEAN /\ fresh \in BOOLEAN /\ frozen \in BOOLEAN
    BY DEF TypedInv
  <2>2. /\ online \subseteq Motors /\ at \in [Motors -> Int] /\ drift \in [Motors -> Int]
        /\ target \in Int /\ pc \in Places /\ members \subseteq Motors \ Hands
    BY DEF TypedInv, ControlInv, VerifiedInv
  <2>3. n \in Nat /\ passed \in Nat /\ failed \in Nat /\ tally \in [Motors -> Nat \X Nat]
    BY DEF MarksInv
  <2>4. compared \in [Angles -> Nat] /\ index \in 0 .. Total
    BY DEF ScanInv, IndexInv
  <2> QED
    BY <2>1, <2>2, <2>3, <2>4 DEF TypeOK, SwitchInv, OwedInv, GroupOfInv, RecordInv
<1>2. GroupInv => ControlInv /\ TypedInv
  BY DEF GroupInv
<1>3. GroupInv /\ [Next]_vars => GroupInv'
  BY ControlStep, TypedStep, HomeStep, TrueStep DEF GroupInv
<1>4. GroupInv /\ ScanInv /\ TypesInv /\ [Next]_vars => TypesInv'
  BY <1>2, OwedStep, GroupOfStep, RecordStep, SwitchStep, IndexStep DEF TypesInv
<1> QED
  BY GroupInit, TypesInit, ScoreAlways, <1>1, <1>3, <1>4, PTL DEF Spec

=============================================================================
