--------------------------- MODULE ZeroCycleGroup ---------------------------
(***************************************************************************)
(* zero_cycle_group_test: several motors on one supply are zeroed, moved   *)
(* together from angle to angle, and their readings compared before and    *)
(* after the supply is cycled.  The first difference freezes the group:    *)
(* from then on only the supply is cycled.                                 *)
(*                                                                         *)
(* Angles are steps of the scan from the place where the motors stood at   *)
(* the start.  A reading is at[m] + drift[m]; a difference within the      *)
(* tolerance counts as none.                                               *)
(***************************************************************************)
EXTENDS Integers, FiniteSets

CONSTANTS
  Motors,     (* the motors of the robot's map                             *)
  Hands,      (* those that are hands                                      *)
  Most,       (* how many a group may have: 32 in the code                 *)
  Steps,      (* angles on each side: scan_limit / scan_step               *)
  Repeats,    (* scan_repeats_per_angle                                    *)
  Rounds,     (* scan_rounds                                               *)
  Counts,     (* the values of count; 0 is no limit                        *)
  Spots,      (* the targets of a random test                              *)
  Jumps       (* what a power-on may make of a motor's drift               *)

ASSUME ZeroCycleGroupAssumption ==
  /\ Hands \subseteq Motors
  /\ {Most, Steps, Repeats, Rounds} \subseteq Nat \ {0}
  /\ Counts \subseteq Nat /\ Spots \subseteq Int /\ Jumps \subseteq Int

VARIABLES
  supply,     (* motor_power_on: the supply, which nobody else switches    *)
  online,     (* the motors the last scan found                            *)
  detected,   (* the motors whose record has the detected type of the map  *)
  flags,      (* the motors whose record says enabled                      *)
  at, drift,  (* the motors: see above                                     *)
  members,    (* the group                                                 *)
  mode,       (* test_mode, and scan_start_direction                       *)
  count,      (* the limit of comparisons                                  *)
  auto,       (* the group is being discovered                             *)
  todo,       (* members that the loop over the group has yet to visit     *)
  n,          (* comparisons so far                                        *)
  index,      (* scan_index                                                *)
  target,     (* where the group goes                                      *)
  home,       (* it goes back to zero between two sides                    *)
  fresh,      (* new_point                                                 *)
  frozen,
  before,     (* each member's baseline                                    *)
  previous,   (* its reading before the last cut                           *)
  tally,      (* each member's passed and failed                           *)
  passed, failed,
  cancel,     (* Ctrl+X or stop_requested                                  *)
  result,     (* what the run reports                                      *)
  pc,
  owed,       (* history: who was sent ENABLE and no DISABLE since         *)
  lost,       (* history: to whom of them the last DISABLE could not be    *)
              (* sent                                                      *)
  printed,    (* history: who named it since the supply came on            *)
  zeroed,     (* history: who was sent ZERO                                *)
  slipped,    (* history: a drift changed after the zero                   *)
  compared    (* history: comparisons made at each angle                   *)

rail  == <<supply, online, detected, printed>>
motor == <<at, drift, owed, lost, flags>>
setup == <<members, mode, count, auto>>
loop  == <<n, index, target, home, fresh>>
score == <<frozen, before, previous, tally, passed, failed, compared>>
past  == <<zeroed, slipped>>
vars  == <<rail, motor, setup, loop, score, past, todo, cancel, result, pc>>

Reading(m) == at[m] + drift[m]
Total      == 2 * Steps * Repeats * Rounds
Angles     == (-Steps .. Steps) \ {0}
AllZero    == [m \in Motors |-> 0]

Places == {"idle", "scan", "select", "unscan", "power", "verify", "zero",
           "check", "head", "pick", "enable", "moving", "sample", "off", "on",
           "compare", "done", "cut", "ended"}

TypeOK ==
  /\ supply \in BOOLEAN /\ online \subseteq Motors
  /\ detected \subseteq Motors /\ printed \subseteq Motors /\ zeroed \subseteq Motors
  /\ owed \subseteq members /\ lost \subseteq owed /\ flags \subseteq owed
  /\ at \in [Motors -> Int] /\ drift \in [Motors -> Int]
  /\ members \subseteq Motors \ Hands /\ Cardinality(members) <= Most
  /\ mode \in {"random", "negative", "positive"} /\ count \in Counts /\ auto \in BOOLEAN
  /\ todo \subseteq members
  /\ n \in Nat /\ index \in 0 .. Total /\ target \in Int
  /\ home \in BOOLEAN /\ fresh \in BOOLEAN /\ frozen \in BOOLEAN
  /\ before \in [Motors -> Int] /\ previous \in [Motors -> Int]
  /\ tally \in [Motors -> Nat \X Nat] /\ passed \in Nat /\ failed \in Nat
  /\ cancel \in BOOLEAN /\ slipped \in BOOLEAN
  /\ compared \in [Angles -> Nat]
  /\ result \in {"FAILED_OR_STOPPED", "PASS"} /\ pc \in Places

Init ==
  /\ supply = FALSE /\ online = {} /\ detected = {} /\ printed = {}
  /\ at = AllZero /\ drift = AllZero /\ owed = {} /\ lost = {} /\ flags = {}
  /\ members = {} /\ mode = "random" /\ count \in Counts /\ auto = FALSE
  /\ n = 0 /\ index = 0 /\ target = 0 /\ home = FALSE /\ fresh = FALSE
  /\ frozen = FALSE /\ before = AllZero /\ previous = AllZero
  /\ tally = [m \in Motors |-> <<0, 0>>] /\ passed = 0 /\ failed = 0
  /\ compared = [a \in Angles |-> 0]
  /\ zeroed = {} /\ slipped = FALSE
  /\ todo = {} /\ cancel = FALSE /\ result = "FAILED_OR_STOPPED" /\ pc = "idle"

-----------------------------------------------------------------------------
(* Operations of the group.                                                *)

(* goto done; the discovery cuts the supply.                               *)
Abort == pc' = IF auto THEN "unscan" ELSE "done"

(* DISABLE is tried for every member, and cannot be sent to some.            *)
Disable(unsent) == owed' = owed \cap unsent /\ lost' = owed'

(* zero_group_special with DISABLE: all lose their flag, even if a send fails. *)
DisableAll(unsent) == Disable(unsent) /\ flags' = flags \ members

(* Mutant: the types of an earlier power-on are kept.                       *)
TypesKept(named) == detected \cup named

(* detected_type_valid is reset before the supply comes on.                 *)
Types(named) == named

(* console_power_on: the types of an earlier power-on are forgotten; then the *)
(* supply comes on, or not.  A user may cancel meanwhile.  Inside the test  *)
(* loop nobody looks at online and detected again.                         *)
PowerOn(next) ==
  \/ /\ UNCHANGED <<rail, motor, slipped>>              (* refused          *)
     /\ cancel /\ Abort /\ UNCHANGED cancel
  \/ /\ ~cancel /\ detected' = {}                       (* the supply fails *)
     /\ UNCHANGED <<supply, online, printed, motor, slipped, cancel>> /\ Abort
  \/ /\ ~cancel /\ supply' = TRUE /\ cancel' \in BOOLEAN
     /\ IF pc = "on" THEN UNCHANGED <<online, detected, printed>>
        ELSE /\ online' \in SUBSET Motors /\ printed' \in SUBSET Motors
             /\ detected' = Types(printed')
     /\ \E S \in SUBSET members, j \in Jumps :
          /\ drift' = [m \in Motors |-> IF m \in S THEN j ELSE drift[m]]
          /\ slipped' = (slipped \/ (pc = "on" /\ drift' # drift))
     /\ UNCHANGED <<at, owed, lost, flags>>
     /\ IF cancel' THEN Abort
        ELSE pc' = next \/ ((online' = {} \/ pc = "on") /\ Abort)

(* console_power_off: DISABLE goes to all if a flag says so, and the supply is  *)
(* cut whether it could be sent or not.  Nothing happens if the routine output *)
(* cannot be silenced.                                                     *)
PowerOff(next, failing) ==
  /\ \/ UNCHANGED <<supply, online, flags, owed, lost>> /\ pc' = failing
     \/ /\ IF flags = {} THEN UNCHANGED <<owed, lost>>
           ELSE \E unsent \in SUBSET members : Disable(unsent)
        /\ \/ supply' = FALSE /\ online' = {} /\ flags' = {} /\ pc' = next
           \/ UNCHANGED <<supply, online>> /\ flags' \in SUBSET flags /\ pc' = failing
  /\ UNCHANGED <<detected, printed, at, drift>>

-----------------------------------------------------------------------------
(* Choosing the group.                                                     *)

Fits(S) == S # {} /\ Cardinality(S) <= Most

(* zero_cycle_group_test bus:id,... and zero_cycle_group_test auto.          *)
Start ==
  /\ pc = "idle" /\ mode' \in {"random", "negative", "positive"}
  /\ mode' = "random" => count # 0
  /\ \/ /\ members' \in {S \in SUBSET (Motors \ Hands) : Fits(S)}
        /\ auto' = FALSE /\ pc' = "power"
     \/ members' = {} /\ auto' = TRUE /\ pc' = "scan"
  /\ UNCHANGED <<rail, motor, loop, score, past, count, todo, cancel, result>>

Scan ==
  /\ pc = "scan" /\ PowerOn("select")
  /\ UNCHANGED <<setup, loop, score, zeroed, todo, result>>

(* Mutant: the hands are not left out.                                      *)
EligibleHands == online

(* The motors online but for the hands.                                     *)
Eligible == online \ Hands

(* zero_group_discover: all that are eligible, if all models match.           *)
Select ==
  /\ pc = "select" /\ pc' = "unscan"
  /\ members' = IF Fits(Eligible) /\ ~cancel /\ Eligible \subseteq detected
                THEN Eligible ELSE {}
  /\ UNCHANGED <<rail, motor, mode, count, auto, loop, score, past, todo, cancel, result>>

(* The supply is cut, and the test starts anew with the group, if there is one. *)
Unscan ==
  /\ pc = "unscan" /\ auto' = FALSE
  /\ LET next == IF cancel \/ members = {} THEN "ended" ELSE "power"
     IN  IF supply THEN PowerOff(next, "ended")
         ELSE pc' = next /\ UNCHANGED <<rail, motor>>
  /\ UNCHANGED <<members, mode, count, loop, score, past, todo, cancel, result>>

-----------------------------------------------------------------------------
(* The initial zero.                                                       *)

Power ==
  /\ pc = "power" /\ PowerOn("verify")
  /\ UNCHANGED <<setup, loop, score, zeroed, todo, result>>

Verify ==
  /\ pc = "verify"
  /\ IF members \subseteq detected THEN pc' = "zero" /\ todo' = members
     ELSE Abort /\ UNCHANGED todo
  /\ UNCHANGED <<rail, motor, setup, loop, score, past, cancel, result>>

(* DISABLE and ZERO to the members one by one: each must be online, and both   *)
(* be sent.  A motor may fail to take its zero.                            *)
ZeroNext ==
  /\ pc = "zero"
  /\ \E m \in todo :
       \/ /\ ~cancel /\ m \in online
          /\ todo' = todo \ {m} /\ zeroed' = zeroed \cup {m}
          /\ drift' \in {drift, [drift EXCEPT ![m] = -at[m]]}
          /\ pc' = IF todo' = {} THEN "check" ELSE "zero"
       \/ UNCHANGED <<todo, zeroed, drift>> /\ Abort
  /\ UNCHANGED <<rail, at, owed, lost, flags, setup, loop, score, slipped, cancel, result>>

Check ==
  /\ pc = "check"
  /\ \/ ~cancel /\ (\A m \in members : Reading(m) = 0) /\ pc' = "head"
     \/ Abort
  /\ UNCHANGED <<rail, motor, setup, loop, score, past, todo, cancel, result>>

-----------------------------------------------------------------------------
(* The loop.                                                               *)

Scanning == mode # "random"
Boundary == Scanning /\ index # 0 /\ index % (Steps * Repeats) = 0

(* zero_cycle_scan_cycle_target                                             *)
ScanTarget(k) ==
  LET i == (k \div Repeats) % (2 * Steps)
      a == IF i < Steps THEN -(i + 1) ELSE i - Steps + 1
  IN  IF mode = "positive" THEN -a ELSE a

(* Mutant: a group frozen at zero still passes.                             *)
OutcomeUnfrozen == IF cancel \/ failed # 0 THEN "FAILED_OR_STOPPED" ELSE "PASS"

Outcome == IF cancel \/ failed # 0 \/ frozen THEN "FAILED_OR_STOPPED" ELSE "PASS"

(* The end of the loop; duration_s may be over at any of its heads.          *)
Finish ==
  /\ pc = "head" /\ pc' = "done" /\ result' = Outcome
  /\ UNCHANGED <<rail, motor, setup, loop, score, past, todo, cancel>>

(* A round: first to zero when a side is finished, unless the group is frozen. *)
Round ==
  /\ pc = "head" /\ ~cancel
  /\ count # 0 => n < count
  /\ Scanning => n < Total
  /\ fresh' = (Scanning => index % Repeats = 0)
  /\ \/ frozen /\ pc' = "sample" /\ UNCHANGED <<home, target>>
     \/ ~frozen /\ Boundary /\ pc' = "enable" /\ home' = TRUE /\ target' = 0
     \/ ~frozen /\ ~Boundary /\ pc' = "pick" /\ UNCHANGED <<home, target>>
  /\ UNCHANGED <<rail, motor, setup, n, index, score, past, todo, cancel, result>>

(* The next angle, to which the group moves once for all its repeats.        *)
Pick ==
  /\ pc = "pick" /\ pc' = IF fresh THEN "enable" ELSE "sample"
  /\ IF Scanning THEN target' = ScanTarget(index) /\ index' = index + 1
     ELSE target' \in Spots /\ UNCHANGED index
  /\ UNCHANGED <<rail, motor, setup, n, home, fresh, score, past, todo, cancel, result>>

(* zero_group_enable: all are sent ENABLE, whoever cancels, unless a send fails, *)
(* and all must say MOTOR in time.                                         *)
Enable ==
  /\ pc = "enable"
  /\ \E reached \in SUBSET members :
       /\ owed' = owed \cup reached /\ lost' = lost \ reached
       /\ \/ reached = members /\ ~cancel /\ flags' = flags \cup members /\ pc' = "moving"
          \/ UNCHANGED flags /\ Abort
  /\ UNCHANGED <<rail, at, drift, setup, loop, score, past, todo, cancel, result>>

(* zero_group_move: all arrive, or some of them do not in time.  It succeeds if   *)
(* the DISABLE that ends it could be sent to all.                           *)
Move ==
  /\ pc = "moving"
  /\ LET arrived(S) == [m \in Motors |-> IF m \in S THEN target - drift[m] ELSE at[m]]
     IN  \/ \E unsent \in SUBSET members :
              /\ ~cancel /\ at' = arrived(members) /\ DisableAll(unsent)
              /\ (unsent = {} /\ pc' = "sample") \/ Abort
         \/ /\ \E S \in SUBSET members : at' = arrived(S)
            /\ UNCHANGED <<owed, lost, flags>> /\ Abort
  /\ UNCHANGED <<rail, drift, setup, loop, score, past, todo, cancel, result>>

(* Mutant: the baseline follows a frozen group.                             *)
RebasedAlways == fresh /\ ~home

(* Whether the readings become the baseline.                                *)
Rebased == fresh /\ ~home /\ ~frozen

(* The readings after the release are the baseline of a fresh angle.        *)
Sample ==
  /\ pc = "sample"
  /\ \/ /\ ~cancel /\ pc' = "off"
        /\ previous' = [m \in Motors |-> IF m \in members THEN Reading(m) ELSE 0]
        /\ before' = IF Rebased THEN previous' ELSE before
     \/ UNCHANGED <<before, previous>> /\ Abort
  /\ UNCHANGED <<rail, motor, setup, loop, frozen, tally, passed, failed,
                 compared, past, todo, cancel, result>>

Off ==
  /\ pc = "off" /\ PowerOff("on", "done")
  /\ UNCHANGED <<setup, loop, score, past, todo, cancel, result>>

On ==
  /\ pc = "on" /\ PowerOn("compare")
  /\ UNCHANGED <<setup, loop, score, zeroed, todo, result>>

(* Mutant: a round passes if one member does.                               *)
PassesAny(bad) == bad # members

Passes(bad) == bad = {}

(* zero_group_compare, for every member, and the round's tally.              *)
Compare ==
  /\ pc = "compare" /\ ~home
  /\ LET bad == {m \in members : Reading(m) # before[m]}
     IN  \/ /\ ~cancel /\ pc' = "head" /\ n' = n + 1
            /\ tally' = [m \in Motors |-> IF m \notin members THEN tally[m]
                           ELSE IF m \in bad THEN <<tally[m][1], tally[m][2] + 1>>
                           ELSE <<tally[m][1] + 1, tally[m][2]>>]
            /\ frozen' = (frozen \/ bad # {})
            /\ IF Passes(bad) THEN passed' = passed + 1 /\ UNCHANGED failed
               ELSE failed' = failed + 1 /\ UNCHANGED passed
            /\ compared' = IF frozen \/ ~Scanning THEN compared
                           ELSE [compared EXCEPT ![target] = @ + 1]
         \/ UNCHANGED <<n, tally, frozen, passed, failed, compared>> /\ Abort
  /\ UNCHANGED <<rail, motor, setup, index, target, home, fresh, before, previous,
                 past, todo, cancel, result>>

(* Mutant: the reading after the power-on is not looked at.                 *)
OffZeroBefore == {m \in members : previous[m] # 0}

(* zero_cycle_zero_recheck_limits                                           *)
OffZero == {m \in members : previous[m] # 0 \/ Reading(m) # 0}

(* Mutant: after the recheck the loop starts over.                           *)
AfterZeroAgain == "head"

AfterZero == "pick"

(* Back at zero between two sides: the group goes on only if all read zero as   *)
(* they did before the cut; otherwise it is frozen here.                   *)
Recheck ==
  /\ pc = "compare" /\ home
  /\ \/ /\ ~cancel /\ home' = FALSE
        /\ IF OffZero = {} THEN pc' = AfterZero /\ UNCHANGED <<frozen, before>>
           ELSE pc' = "sample" /\ frozen' = TRUE /\ before' = previous
     \/ UNCHANGED <<home, frozen, before>> /\ Abort
  /\ UNCHANGED <<rail, motor, setup, n, index, target, fresh, previous, tally, passed,
                 failed, compared, past, todo, cancel, result>>

-----------------------------------------------------------------------------
(* The end.                                                                *)

(* Mutant: the supply is cut at once.                                       *)
DoneAtOnce ==
  /\ pc = "done" /\ pc' = IF supply THEN "cut" ELSE "ended"
  /\ UNCHANGED <<rail, motor, setup, loop, score, past, todo, cancel, result>>

(* DISABLE to all, and whether it could be sent is not asked.                *)
Done ==
  /\ pc = "done"
  /\ IF supply THEN pc' = "cut" /\ \E unsent \in SUBSET members : DisableAll(unsent)
     ELSE pc' = "ended" /\ UNCHANGED <<owed, lost, flags>>
  /\ UNCHANGED <<rail, at, drift, setup, loop, score, past, todo, cancel, result>>

Cut ==
  /\ pc = "cut" /\ PowerOff("ended", "ended")
  /\ result' = IF supply' THEN "FAILED_OR_STOPPED" ELSE result
  /\ UNCHANGED <<setup, loop, score, past, todo, cancel>>

Cancel ==
  /\ pc \notin {"idle", "done", "cut", "ended"} /\ ~cancel /\ cancel' = TRUE
  /\ UNCHANGED <<rail, motor, setup, loop, score, past, todo, result, pc>>

Host == \/ Start \/ Scan \/ Select \/ Unscan \/ Power \/ Verify \/ ZeroNext
        \/ Check \/ Finish \/ Round \/ Pick \/ Enable \/ Move \/ Sample
        \/ Off \/ On \/ Compare \/ Recheck \/ Done \/ Cut

Next == Host \/ Cancel

Spec == Init /\ [][Next]_vars

(* Every wait of the test has a deadline.                                   *)
FairSpec == Spec /\ WF_vars(Host)

-----------------------------------------------------------------------------
(* Properties.                                                             *)

(* The supply is cut under a member that was sent ENABLE and no DISABLE after it *)
(* only if a DISABLE was tried and could not be sent: done tries to disable all *)
(* before it cuts, whatever went wrong, and a move only succeeds if its DISABLE *)
(* went out to all (zero_group_move, zero_group_run).                       *)
CutDisabled == [][supply /\ ~supply' => owed' \subseteq lost']_vars

(* No member is sent ZERO unless every member has named its own model since    *)
(* the supply came on, also if the group was discovered in an earlier one.  *)
ZeroVerified ==
  [][zeroed' # zeroed => members \subseteq printed \ Hands]_vars

(* A frozen group stays where it is and keeps its baselines until the end:    *)
(* nobody is enabled, moved or zeroed, and no stable error becomes right.    *)
FrozenForGood ==
  [][frozen => /\ frozen' /\ before' = before /\ at' = at
               /\ owed' \subseteq owed /\ zeroed' = zeroed]_vars

(* The group is only ever moved while every reading is true to the initial    *)
(* zero, whatever the power-ons between made of them.                       *)
MovesTrue == pc = "moving" => \A m \in members : drift[m] = 0

(* PASS means: no member's zero slipped in any power cycle since it was set,   *)
(* the angles were compared as often as was asked unless a limit ended the    *)
(* test, and the supply is off.                                             *)
PassEarned ==
  pc = "ended" /\ result = "PASS" =>
    /\ ~supply /\ ~slipped /\ members \subseteq zeroed
    /\ Scanning /\ n = Total => \A a \in Angles : compared[a] = Repeats * Rounds

(* The tallies agree: each member has one mark per round, a round passed if   *)
(* all its marks did, and a failed round has frozen the group.               *)
TallyAgrees ==
  /\ passed + failed = n
  /\ \A m \in members : tally[m][1] + tally[m][2] = n /\ passed <= tally[m][1]
  /\ failed # 0 => frozen /\ \E m \in members : tally[m][2] # 0

(* The test ends, whatever fails.                                           *)
TestEnds == pc # "idle" ~> pc = "ended"

=============================================================================
