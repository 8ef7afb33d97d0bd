----------------------------- MODULE ZeroCycle -----------------------------
(***************************************************************************)
(* zero_cycle_test: one motor is zeroed, moved from place to place, and    *)
(* its readings compared before and after the supply is cycled.  After a   *)
(* difference the supply is cycled some more where the motor stands; then  *)
(* the coordinates are anchored anew in software, the motor returns to its *)
(* original zero, and only a power cycle there that reads zero lets the    *)
(* test go on.                                                             *)
(*                                                                         *)
(* Places are counted in steps of the scan from where the motor stood when *)
(* it was zeroed.  A reading is at + drift, what the host takes it for is  *)
(* the reading less its offset; a difference within the tolerance counts   *)
(* as none.  The motor does not move while the supply is off.              *)
(***************************************************************************)
EXTENDS Integers, Sequences

CONSTANTS
  Steps, Repeats, Rounds, (* the scan: angles on each side, comparisons at *)
                          (* each, and rounds                              *)
  Counts,                 (* the values of count; 0 is no limit            *)
  Revisit,                (* revisit_after_random_cycles                   *)
  Retests,                (* power cycles after a failure: 10 in the code  *)
  PointMax,               (* ZERO_ANOMALY_MAX: 128 in the code             *)
  Continue,               (* the values of continue_after_position_failure *)
  Spots,                  (* the targets of a random test, and where a     *)
                          (* motor may stop that does not arrive           *)
  Bound,                  (* p_max, which is -p_min                        *)
  Jumps                   (* what a power-on may make of the drift         *)

ASSUME ZeroCycleAssumption ==
  /\ {Steps, Repeats, Rounds, Revisit, Retests, PointMax, Bound} \subseteq Nat \ {0}
  /\ Counts \subseteq Nat /\ Continue \subseteq BOOLEAN
  /\ Spots \subseteq -Bound .. Bound /\ Jumps \subseteq Int

VARIABLES
  supply,        (* motor_power_on: the supply, which nobody else switches *)
  enabled,       (* the motor's flag                                       *)
  at, drift,     (* the motor: see above                                   *)
  offset,        (* software offset of the coordinates                     *)
  mode, count, continue,  (* test_mode with scan_start_direction, and the  *)
                 (* limits                                                 *)
  n,             (* rounds so far                                          *)
  index,         (* scan_index                                             *)
  target,        (* where the motor is to go                               *)
  force,         (* force_scan_move                                        *)
  moved,         (* move_point                                             *)
  arrived,       (* point_motion_result is 0                               *)
  before,        (* the reading before the cut                             *)
  points,        (* the anomalies                                          *)
  point,         (* the anomaly of this round, 0 if none                   *)
  asked,         (* requested_anomaly                                      *)
  since, cursor, (* random_since_revisit, revisit_cursor                   *)
  tries, unread, (* retests so far, and whether one could not be read      *)
  why,           (* where the motor goes: to its "point", or back to zero  *)
                 (* in "mid" scan or to "recover"                          *)
  passed, failures,
  completed, paused,
  result,        (* the value returned                                     *)
  cancel,        (* Ctrl+X and stop_requested                              *)
  pc,
  owed,          (* history: ENABLE was sent and no DISABLE since          *)
  lost,          (* history: and the last DISABLE tried could not be sent  *)
  slipped,       (* history: the drift has changed since the zero          *)
  compared       (* history: comparisons made at each angle                *)

motor  == <<enabled, at, drift, owed, lost, slipped>>
setup  == <<mode, count, continue>>
loop   == <<n, index, target, force, moved, arrived, before, asked, since, cursor>>
score  == <<points, point, passed, failures, compared>>
retest == <<tries, unread>>
end    == <<completed, paused, result>>
vars   == <<supply, motor, offset, setup, loop, score, retest, why, end, cancel, pc>>

Reach   == -Bound .. Bound
Reading == at + drift
Total   == 2 * Steps * Repeats * Rounds
Angles  == (-Steps .. Steps) \ {0}
Point   == [at : Int, observed : Nat, fails : Nat, planned : Nat,
            reproduced : Nat, missed : Nat]

Places == {"idle", "power", "zero", "head", "mid", "pick", "enable", "confirm",
           "moving", "base", "off", "on", "compare", "retest", "retestOn",
           "retested", "recheck", "done", "cut", "ended"}

TypeOK ==
  /\ {supply, enabled, owed, lost, slipped, continue, force, moved, arrived, unread,
      completed, paused} \subseteq BOOLEAN
  /\ at \in Reach /\ {drift, offset, target, before} \subseteq Int
  /\ mode \in {"random", "negative", "positive"} /\ count \in Counts
  /\ n \in Nat /\ index \in 0 .. Total
  /\ points \in Seq(Point) /\ Len(points) <= PointMax
  /\ point \in 0 .. Len(points) /\ asked \in 0 .. Len(points)
  /\ since \in 0 .. Revisit /\ cursor \in Nat /\ tries \in 0 .. Retests
  /\ why \in {"point", "mid", "recover"} /\ passed \in Nat /\ failures \in Nat
  /\ result \in {0, -1} /\ cancel \subseteq {"x", "stop"} /\ pc \in Places
  /\ compared \in [Angles -> Nat]

Init ==
  /\ supply = FALSE /\ enabled = FALSE /\ at = 0 /\ drift = 0 /\ offset = 0
  /\ mode = "random" /\ count \in Counts /\ continue \in Continue
  /\ n = 0 /\ index = 0 /\ target = 0 /\ force = TRUE /\ moved = FALSE
  /\ arrived = TRUE /\ before = 0 /\ points = <<>> /\ point = 0 /\ asked = 0
  /\ since = 0 /\ cursor = 0 /\ tries = 0 /\ unread = FALSE /\ why = "point"
  /\ passed = 0 /\ failures = 0 /\ completed = FALSE /\ paused = FALSE
  /\ result = -1 /\ cancel = {} /\ pc = "idle"
  /\ owed = FALSE /\ lost = FALSE /\ slipped = FALSE /\ compared = [a \in Angles |-> 0]

-----------------------------------------------------------------------------
(* Operations on the motor.                                                *)

Cancelled == cancel # {}
Abort     == pc' = "done"

(* The frame DISABLE goes out, or the send fails.                           *)
Disable(sent) == owed' = (owed /\ ~sent) /\ lost' = owed'

(* DISABLE as an operation: the flag goes if a reply comes, which may be a late   *)
(* one to an earlier frame.  It fails if nothing could be sent, or if the      *)
(* routine output could not be silenced before.                             *)
SendDisable(sent) == Disable(sent) /\ enabled' \in {enabled, FALSE}

(* Mutant: the failure path forgets to disable.                             *)
GiveUpEnabled == Abort /\ UNCHANGED <<owed, lost, enabled>>

(* A failure on the way to a point ends with DISABLE, unless it was cancelled,  *)
(* and whether it could be sent is not asked; on the way back to zero it just *)
(* ends.                                                                    *)
GiveUp ==
  /\ Abort
  /\ \/ (Cancelled \/ why # "point") /\ UNCHANGED <<owed, lost, enabled>>
     \/ why = "point" /\ \E sent \in BOOLEAN : SendDisable(sent)

(* console_power_on: the drift may become another.  It fails if the supply    *)
(* does, or if the motor is not found or cannot be read, or if it is cancelled. *)
PowerOn(good, bad) ==
  /\ \/ UNCHANGED <<supply, drift, slipped>> /\ bad
     \/ /\ supply' = TRUE /\ drift' \in {drift} \cup Jumps
        /\ slipped' = (slipped \/ (pc # "power" /\ drift' # drift))
        /\ (~Cancelled /\ good) \/ bad
  /\ UNCHANGED <<at, enabled, owed, lost>>

(* console_power_off: DISABLE comes first if the flag is set, and the supply is  *)
(* cut whether it could be sent or not.  Nothing happens if the supply is off, *)
(* or if the routine output cannot be silenced.                             *)
PowerOff(good, bad) ==
  /\ \/ (IF supply THEN bad ELSE good) /\ UNCHANGED <<supply, enabled, owed, lost>>
     \/ /\ supply
        /\ IF enabled THEN \E sent \in BOOLEAN : Disable(sent) ELSE UNCHANGED <<owed, lost>>
        /\ \/ supply' = FALSE /\ enabled' = FALSE /\ good
           \/ UNCHANGED supply /\ enabled' \in {enabled, FALSE} /\ bad
  /\ UNCHANGED <<at, drift, slipped>>

(* zero_cycle_compensated_target                                            *)
Command(t) == t + offset

-----------------------------------------------------------------------------
(* The initial zero.                                                       *)

Start ==
  /\ pc = "idle" /\ pc' = "power"
  /\ mode' \in {"random", "negative", "positive"} /\ (mode' = "random" => count # 0)
  /\ UNCHANGED <<supply, motor, offset, count, continue, loop, score, retest, why, end, cancel>>

(* Power, DISABLE and a first reading.                                      *)
Power ==
  /\ pc = "power" /\ PowerOn(pc' = "zero", Abort)
  /\ UNCHANGED <<offset, setup, loop, score, retest, why, end, cancel>>

(* ZERO, once.  The motor may not take it, or report that it is not saved.   *)
Zero ==
  /\ pc = "zero"
  /\ drift' \in {drift, -at}
  /\ \/ ~Cancelled /\ at + drift' = 0 /\ pc' = "head"
     \/ Abort
  /\ UNCHANGED <<supply, at, enabled, owed, lost, slipped, offset, setup, loop, score,
                 retest, why, end, cancel>>

-----------------------------------------------------------------------------
(* The loop.                                                               *)

Scanning == mode # "random"
Boundary == Scanning /\ index # 0 /\ index % (Steps * Repeats) = 0

ScanTarget(k) ==
  LET i == (k \div Repeats) % (2 * Steps)
      a == IF i < Steps THEN -(i + 1) ELSE i - Steps + 1
  IN  IF mode = "positive" THEN -a ELSE a

(* The end of the loop; duration_s may be over at any of its heads, and after   *)
(* the return between two sides.                                           *)
Finish ==
  /\ pc \in {"head", "mid"} /\ pc' = "done"
  /\ completed' = ~Cancelled /\ result' = IF Cancelled \/ failures # 0 THEN -1 ELSE 0
  /\ UNCHANGED <<supply, motor, offset, setup, loop, score, retest, why, paused, cancel>>

Round ==
  /\ pc = "head" /\ ~Cancelled
  /\ count # 0 => n < count
  /\ Scanning => index < Total
  /\ IF Boundary THEN why' = "mid" /\ pc' = "enable" ELSE why' = "point" /\ pc' = "pick"
  /\ UNCHANGED <<supply, motor, offset, setup, loop, score, retest, end, cancel>>

Resume ==
  /\ pc = "mid" /\ ~Cancelled /\ pc' = "pick" /\ why' = "point"
  /\ UNCHANGED <<supply, motor, offset, setup, loop, score, retest, end, cancel>>

(* The next target: an angle of the scan, an anomaly that is due, or a spot.  *)
Pick ==
  /\ pc = "pick"
  /\ \/ /\ Scanning /\ target' = ScanTarget(index) /\ index' = index + 1
        /\ moved' = (index % Repeats = 0 \/ force)
        /\ asked' = 0 /\ UNCHANGED <<since, cursor, points>>
     \/ /\ ~Scanning /\ points # <<>> /\ since >= Revisit
        /\ asked' = (cursor % Len(points)) + 1 /\ cursor' = cursor + 1 /\ since' = 0
        /\ target' = points[asked'].at /\ moved' = TRUE
        /\ points' = [points EXCEPT ![asked'].planned = @ + 1] /\ UNCHANGED index
     \/ /\ ~Scanning /\ (points = <<>> \/ since < Revisit)
        /\ target' \in Spots /\ asked' = 0 /\ moved' = TRUE
        /\ since' = IF points = <<>> THEN since ELSE since + 1
        /\ UNCHANGED <<index, cursor, points>>
  /\ pc' = IF Command(target') \notin Reach THEN "done"
           ELSE IF moved' THEN "enable" ELSE "base"
  /\ UNCHANGED <<supply, motor, offset, setup, n, force, arrived, before, point, passed,
                 failures, compared, retest, why, end, cancel>>

-----------------------------------------------------------------------------
(* A move to the point of the round or back to the original zero.          *)

Goal == IF why = "point" THEN target ELSE 0

(* zero_cycle_enable_confirmed: nothing is sent after a cancellation, and a   *)
(* return to zero must be within reach.                                    *)
SendEnable ==
  /\ pc = "enable"
  /\ \/ /\ ~Cancelled /\ Command(Goal) \in Reach /\ pc' = "confirm"
        /\ owed' = TRUE /\ lost' = FALSE /\ UNCHANGED enabled
     \/ GiveUp
  /\ UNCHANGED <<supply, at, drift, slipped, offset, setup, loop, score, retest, why, end, cancel>>

(* The motor may not say in time that it is in state MOTOR.                 *)
Confirm ==
  /\ pc = "confirm"
  /\ \/ ~Cancelled /\ pc' = "moving" /\ enabled' = TRUE /\ UNCHANGED <<owed, lost>>
     \/ GiveUp
  /\ UNCHANGED <<supply, at, drift, slipped, offset, setup, loop, score, retest, why, end, cancel>>

(* zero_cycle_move: the motor arrives; or it settles elsewhere, which is good   *)
(* enough for a point but not for zero; or the move fails.                  *)
Move ==
  /\ pc = "moving"
  /\ force' = (force /\ why # "point")
  /\ \/ /\ ~Cancelled /\ at' = Command(Goal) - drift /\ pc' = "base"
        /\ arrived' = (why = "point" \/ arrived) /\ UNCHANGED <<owed, lost, enabled>>
     \/ /\ ~Cancelled /\ why = "point" /\ at' \in Spots /\ pc' = "base"
        /\ arrived' = FALSE /\ UNCHANGED <<owed, lost, enabled>>
     \/ at' \in Spots /\ GiveUp /\ UNCHANGED arrived
  /\ UNCHANGED <<supply, drift, slipped, offset, setup, n, index, target, moved, before,
                 asked, since, cursor, score, retest, why, end, cancel>>

(* DISABLE, if the motor was moved, which must go out, and then a reading: the  *)
(* baseline.  A cancellation may come before the DISABLE or after it.        *)
Base ==
  /\ pc = "base" /\ why = "point"
  /\ \/ Cancelled /\ Abort /\ UNCHANGED <<before, owed, lost, enabled>>
     \/ \E sent \in BOOLEAN :
          /\ IF moved THEN SendDisable(sent) ELSE UNCHANGED <<owed, lost, enabled>>
          /\ \/ ~Cancelled /\ sent /\ before' = Reading /\ pc' = "off"
             \/ Abort /\ UNCHANGED before
  /\ UNCHANGED <<supply, at, drift, slipped, offset, setup, n, index, target, force, moved,
                 arrived, asked, since, cursor, score, retest, why, end, cancel>>

(* DISABLE and a reading: the motor must have stayed at zero, and its encoders   *)
(* agree.                                                                   *)
BaseZero ==
  /\ pc = "base" /\ why # "point"
  /\ \/ Cancelled /\ Abort /\ UNCHANGED <<owed, lost, enabled>>
     \/ \E sent \in BOOLEAN :
          /\ SendDisable(sent)
          /\ Abort \/ (~Cancelled /\ sent /\ Reading = offset /\ pc' = "off")
  /\ UNCHANGED <<supply, at, drift, slipped, offset, setup, loop, score, retest, why, end, cancel>>

Off ==
  /\ pc = "off" /\ PowerOff(pc' = "on", Abort)
  /\ UNCHANGED <<offset, setup, loop, score, retest, why, end, cancel>>

On ==
  /\ pc = "on" /\ why = "point" /\ PowerOn(pc' = "compare", Abort)
  /\ UNCHANGED <<offset, setup, loop, score, retest, why, end, cancel>>

(* A motor that cannot be read after the power cycle at zero pauses the test.  *)
OnZero ==
  /\ pc = "on" /\ why # "point" /\ PowerOn(pc' = "recheck", Abort)
  /\ paused' = (pc' = "done" /\ ~Cancelled)
  /\ UNCHANGED <<offset, setup, loop, score, retest, why, completed, result, cancel>>

-----------------------------------------------------------------------------
(* The comparison, and what follows a failure.                             *)

(* Mutant: looked up by where the motor was to go.                          *)
FoundByTarget(p) == {i \in 1 .. Len(points) : points[i].at = target}

(* zero_cycle_find_anomaly                                                 *)
Found(p) == {i \in 1 .. Len(points) : points[i].at = p}

(* Mutant: the limit is off by one.                                         *)
RoomForOneMore == Len(points) <= PointMax

Room == Len(points) < PointMax

(* The round is filed under the anomaly that was asked for, if it was reached, *)
(* or the one found here; a failure makes a new one if there is room.       *)
Compare ==
  /\ pc = "compare"
  /\ LET here == before - offset
         ok   == Reading = before
         hit  == asked # 0 /\ here = target
         old  == IF hit THEN asked ELSE IF Found(here) = {} THEN 0
                 ELSE CHOOSE i \in Found(here) : TRUE
         new  == ~ok /\ old = 0 /\ Room
         miss == IF asked # 0 /\ ~hit THEN [points EXCEPT ![asked].missed = @ + 1] ELSE points
         all  == IF new THEN Append(miss, [at |-> here, observed |-> 0, fails |-> 0,
                                  planned |-> 0, reproduced |-> 0, missed |-> 0])
                 ELSE miss
         one(b) == IF b THEN 1 ELSE 0
     IN  /\ point' = IF new THEN Len(all) ELSE old
         /\ points' = IF point' = 0 THEN all
                      ELSE [all EXCEPT ![point'].observed = @ + 1,
                                       ![point'].fails = @ + one(~ok),
                                       ![point'].reproduced = @ + one(~ok /\ hit)]
         /\ passed' = passed + one(ok) /\ failures' = failures + one(~ok)
         /\ IF ok THEN pc' = "head" /\ n' = n + 1 ELSE pc' = "retest" /\ UNCHANGED n
  /\ compared' = IF Scanning THEN [compared EXCEPT ![target] = @ + 1] ELSE compared
  /\ tries' = 0 /\ unread' = FALSE
  /\ UNCHANGED <<supply, motor, offset, setup, index, target, force, moved, arrived, before,
                 asked, since, cursor, why, end, cancel>>

(* Mutant: what could not be read is done over.                             *)
TriedRead(read) == IF read THEN tries + 1 ELSE tries

Tried(read) == tries + 1

(* zero_cycle_retest: the supply is cycled some more; what cannot be read is   *)
(* noted, and only a cut that fails or a cancellation ends it early.        *)
RetestOff ==
  /\ pc = "retest" /\ tries < Retests
  /\ IF Cancelled THEN Abort /\ UNCHANGED <<supply, motor>>
     ELSE PowerOff(pc' = "retestOn", Abort)
  /\ UNCHANGED <<offset, setup, loop, score, retest, why, end, cancel>>

RetestOn ==
  /\ pc = "retestOn" /\ pc' = "retest"
  /\ \E read \in BOOLEAN :
       PowerOn(read, ~read) /\ unread' = (unread \/ ~read) /\ tries' = Tried(read)
  /\ UNCHANGED <<offset, setup, loop, score, why, end, cancel>>

(* The motor has not moved since the failure: its reading now is where it was   *)
(* then.  Otherwise the test ends here: a retest could not be read, the test  *)
(* is not to go on, or the table is full.                                   *)
Anchor ==
  /\ pc = "retest" /\ tries = Retests
  /\ \/ /\ ~Cancelled /\ ~unread /\ continue /\ point # 0
        /\ offset' = Reading - (before - offset)
        /\ why' = "recover" /\ pc' = "enable"
     \/ UNCHANGED <<offset, why>> /\ Abort
  /\ UNCHANGED <<supply, motor, setup, loop, score, retest, end, cancel>>

(* Mutants: any reading will do; the old offset still counts; the scan goes on  *)
(* without a move.                                                          *)
RebootAny == TRUE
RebootShifted == Reading = offset
KeepPlace == force

(* zero_cycle_zero_recheck_limits                                          *)
RebootZero == Reading = 0

(* force_scan_move after a recovery                                        *)
MoveAgain == TRUE

(* The offset goes only if the motor reads zero at zero by itself after the      *)
(* power cycle, and its encoders agree.  A cancellation ends the test, any    *)
(* other reading pauses it.                                                 *)
Recheck ==
  /\ pc = "recheck"
  /\ \/ /\ ~Cancelled /\ RebootZero /\ offset' = 0 /\ UNCHANGED paused
        /\ IF why = "mid" THEN pc' = "mid" /\ UNCHANGED <<n, force, since>>
           ELSE /\ pc' = "head" /\ n' = n + 1 /\ force' = MoveAgain
                (* the first anomaly, and this round is all that was seen of it *)
                /\ since' = IF Len(points) = 1 /\ points[1].observed = 1 THEN 0 ELSE since
     \/ /\ Abort /\ paused' = ~Cancelled /\ UNCHANGED <<offset, n, force, since>>
  /\ UNCHANGED <<supply, motor, setup, index, target, moved, arrived, before, asked, cursor,
                 score, retest, why, completed, result, cancel>>

-----------------------------------------------------------------------------
(* The end.                                                                *)

(* Ctrl+X, but not a signal, sends DISABLE, if it can.                      *)
Done ==
  /\ pc = "done" /\ pc' = "cut"
  /\ IF "x" \in cancel THEN completed' = FALSE /\ result' = -1 ELSE UNCHANGED <<completed, result>>
  /\ IF "x" \in cancel /\ supply THEN \E sent \in BOOLEAN : Disable(sent)
     ELSE UNCHANGED <<owed, lost>>
  /\ UNCHANGED <<supply, enabled, at, drift, slipped, offset, setup, loop, score, retest, why,
                 paused, cancel>>

Cut ==
  /\ pc = "cut"
  /\ PowerOff(pc' = "ended" /\ UNCHANGED <<completed, result>>,
              pc' = "ended" /\ completed' = FALSE /\ result' = -1)
  /\ UNCHANGED <<offset, setup, loop, score, retest, why, paused, cancel>>

(* outcome, as the console reports it.                                      *)
Outcome ==
  IF result # 0 /\ failures = 0 THEN "STOPPED"
  ELSE IF paused THEN "PAUSED_ZERO_RECHECK_FAILED"
  ELSE IF ~completed THEN "STOPPED"
  ELSE IF failures # 0 THEN "COMPLETED_WITH_POSITION_FAILURES" ELSE "PASS"

Cancel ==
  /\ pc \notin {"idle", "done", "cut", "ended"}
  /\ cancel' \in {cancel \cup {"x"}, cancel \cup {"stop"}} \ {cancel}
  /\ UNCHANGED <<supply, motor, offset, setup, loop, score, retest, why, end, pc>>

Host == \/ Start \/ Power \/ Zero \/ Finish \/ Round \/ Resume \/ Pick \/ SendEnable
        \/ Confirm \/ Move \/ Base \/ BaseZero \/ Off \/ On \/ OnZero
        \/ Compare \/ RetestOff \/ RetestOn \/ Anchor \/ Recheck \/ Done \/ Cut

Next == Host \/ Cancel

Spec == Init /\ [][Next]_vars

(* Every wait of the test has a deadline.                                   *)
FairSpec == Spec /\ WF_vars(Host)

-----------------------------------------------------------------------------
(* Properties.                                                             *)

(* Whenever the motor is driven, the software offset is the true shift of its *)
(* coordinates since the zero: however often the reading jumped, targets are  *)
(* places.                                                                  *)
CoordinatesTrue == pc = "moving" => offset = drift

(* A round that is recorded as having reached its target is compared there,   *)
(* also after a detour to zero between two comparisons at one angle.        *)
ReachedMeansThere == pc = "compare" /\ arrived => at = target

(* PASS means: the reading never slipped, and the supply is off; and whatever   *)
(* way a full scan is completed, every angle was compared as often as asked. *)
PassEarned ==
  pc = "ended" =>
    /\ Outcome = "PASS" => ~supply /\ ~slipped /\ failures = 0 /\ cancel \cap {"x"} = {}
    /\ completed /\ Scanning /\ index = Total =>
         \A a \in Angles : compared[a] = Repeats * Rounds

(* The failures filed in a table.                                          *)
FailsIn(s) ==
  LET sum[k \in 0 .. Len(s)] == IF k = 0 THEN 0 ELSE sum[k - 1] + s[k].fails
  IN  sum[Len(s)]

(* The table of anomalies agrees with the tally: every failure is filed at      *)
(* one place unless the table is full, no place has two entries, and a        *)
(* revisit counts at most once as reproduced or missed.                     *)
PointsAgree ==
  /\ FailsIn(points) = failures \/ (Len(points) = PointMax /\ FailsIn(points) < failures)
  /\ \A i, j \in 1 .. Len(points) : points[i].at = points[j].at => i = j
  /\ \A i \in 1 .. Len(points) :
       /\ points[i].reproduced + points[i].missed <= points[i].planned
       /\ points[i].fails <= points[i].observed

(* The supply is cut under a motor that was sent ENABLE and no DISABLE after it  *)
(* only if the DISABLE was tried and could not be sent; or, with the flag      *)
(* clear, after a signal, or when the motor did not confirm the ENABLE that    *)
(* was to take it back to zero.                                             *)
NoLiveCut ==
  [][supply /\ ~supply' /\ owed' =>
       lost' \/ (~enabled /\ ("stop" \in cancel \/ why # "point"))]_vars

(* README.md:892: if MOTOR is not confirmed within two seconds, the test stops   *)
(* and disables, unless the DISABLE cannot be sent.                         *)
UnconfirmedDisabled == [][supply /\ ~supply' /\ cancel = {} /\ ~lost' => ~owed']_vars

(* The test ends, whatever fails.                                           *)
TestEnds == pc # "idle" ~> pc = "ended"

=============================================================================
