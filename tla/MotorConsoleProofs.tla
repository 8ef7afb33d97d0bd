------------------------- MODULE MotorConsoleProofs -------------------------
(***************************************************************************)
(* What holds of the console for every set of motors, every queue depth,   *)
(* every choice of faults and every choice of timely waits.                *)
(***************************************************************************)
EXTENDS MotorConsole, TLAPS

(* The strengthening of LiveRailKnown: the places the main thread can be at   *)
(* while motor_power_on is clear, the cut that has worked at off_wait, and     *)
(* what main() knows when it closes the driver.                               *)
Unpowered == {"prompt", "reading", "on_reset", "off_wait", "closing", "exited"}

RailInv ==
  /\ rail \in BOOLEAN /\ powerOn \in BOOLEAN
  /\ pc \in Places
  /\ ~powerOn => pc \in Unpowered
  /\ ~powerOn /\ rail => pc = "on_reset"
  /\ pc \in {"off_wait", "cycle_gap"} => ~rail
  /\ pc \in {"closing", "exited"} => (rail => cutFailed)

THEOREM RailInit == Init => RailInv
BY DEF Init, RailInv, Places, Waits, Unpowered

LEMMA RailUser == RailInv /\ UserCommand => RailInv'
<1> SUFFICES ASSUME RailInv, UserCommand PROVE RailInv'
  OBVIOUS
<1> USE DEF RailInv, Places, Waits, Unpowered, supply, belief, loop
<1>1. CASE OtherCommand
  BY <1>1 DEF OtherCommand, Return, Leave
<1>2. CASE PowerOnCommand
  BY <1>2 DEF PowerOnCommand, StartProbe, SupplyOn
<1>3. CASE ScanCommand
  BY <1>3 DEF ScanCommand, StartProbe
<1>4. CASE SpecialCommand
  BY <1>4 DEF SpecialCommand, StartSpecial
<1>5. CASE PowerOffCommand
  BY <1>5 DEF PowerOffCommand, EnterPowerOff, StartSpecial, Leave
<1>6. CASE MitSetCommand
  BY <1>6 DEF MitSetCommand, Return, Leave
<1>7. CASE StandCommand
  BY <1>7 DEF StandCommand
<1>8. CASE FlashCommand
  BY <1>8 DEF FlashCommand
<1>9. QED
  BY <1>1, <1>2, <1>3, <1>4, <1>5, <1>6, <1>7, <1>8 DEF UserCommand

LEMMA RailMain == RailInv /\ MainThread => RailInv'
<1> SUFFICES ASSUME RailInv, MainThread PROVE RailInv'
  OBVIOUS
<1> USE DEF RailInv, Places, Waits, Unpowered, supply, belief, loop
<1>1. CASE ReadLine
  BY <1>1 DEF ReadLine, Goto
<1>2. CASE LoopEnds
  BY <1>2 DEF LoopEnds, EnterPowerOff, StartSpecial, Leave
<1>3. CASE CloseDriver
  BY <1>3 DEF CloseDriver, Goto
<1>4. CASE OnReset
  BY <1>4 DEF OnReset, Goto
<1>5. CASE OnWait
  BY <1>5 DEF OnWait, StartWarmup, StartProbe
<1>6. CASE WarmupSend
  BY <1>6 DEF WarmupSend
<1>7. CASE WarmupEnd
  BY <1>7 DEF WarmupEnd, FinishPowerOn, EnterPowerOff, StartSpecial, Return, Leave
<1>8. CASE ProbeSend
  BY <1>8 DEF ProbeSend
<1>9. CASE ProbeWait
  BY <1>9 DEF ProbeWait, StartWarmup, FinishPowerOn, EnterPowerOff, StartSpecial,
              Return, Leave
<1>10. CASE SpecialSend
  BY <1>10 DEF SpecialSend
<1>11. CASE SpecialWait
  BY <1>11 DEF SpecialWait, Return, Leave
<1>12. CASE OffCut
  BY <1>12 DEF OffCut, SupplyOff, SupplyOffFails, Goto, Return, Leave
<1>13. CASE OffWait
  BY <1>13 DEF OffWait, Return, Leave
<1>14. CASE MitWait
  BY <1>14 DEF MitWait, Return, Leave
<1>15. CASE StandVisit \/ StandPeriod \/ StandDone
  BY <1>15 DEF StandVisit, StandPeriod, StandDone, Return, Leave
<1>16. CASE FlashNext
  BY <1>16 DEF FlashNext, Return, Leave
<1>17. CASE CycleCut
  BY <1>17 DEF CycleCut, SupplyOff, SupplyOffFails, Goto
<1>18. CASE CycleRestore
  BY <1>18 DEF CycleRestore, SupplyOn, Goto
<1>19. CASE FlashedTarget
  BY <1>19 DEF FlashedTarget, Goto
<1>20. QED
  BY <1>1, <1>2, <1>3, <1>4, <1>5, <1>6, <1>7, <1>8, <1>9, <1>10, <1>11, <1>12,
     <1>13, <1>14, <1>15, <1>16, <1>17, <1>18, <1>19 DEF MainThread

(* The receive thread and the environment leave the supply, the belief and the *)
(* main thread's place alone.                                                  *)
LEMMA OthersLeaveRail ==
  Receive \/ Environment => UNCHANGED <<rail, powerOn, pc, cutFailed>>
BY DEF Receive, RxFrame, RxCount, Environment, Signal, MotorReceives, FrameLost,
       MotorBoots, supply, belief, Console

(* Every step of the console keeps the strengthening.                         *)
THEOREM RailStep == RailInv /\ [Next]_vars => RailInv'
<1>1. RailInv /\ (Receive \/ Environment) => RailInv'
  BY OthersLeaveRail DEF RailInv
<1>2. RailInv /\ UNCHANGED vars => RailInv'
  BY DEF RailInv, vars
<1>3. QED
  BY <1>1, <1>2, RailUser, RailMain DEF Next

(* The console never forgets a live supply.                                   *)
THEOREM ConsoleKnowsRail == Spec => []LiveRailKnown
<1>1. RailInv => LiveRailKnown
  BY DEF RailInv, LiveRailKnown
<1>2. QED
  BY RailInit, RailStep, <1>1, PTL DEF Spec

-----------------------------------------------------------------------------
(* Refinement: what each step of the console is to the power session.         *)

LEMMA SwitchingOn ==
  ASSUME PowerOnCommand, ~powerOn PROVE Session!Energise
BY DEF PowerOnCommand, SupplyOn, Session!Energise

LEMMA CycleSteps ==
  ASSUME RailInv, CycleCut \/ CycleRestore PROVE [Session!Next]_(Session!vars)
<1>1. CASE CycleCut /\ SupplyOff
  <2>1. Session!Cut
    BY <1>1 DEF CycleCut, SupplyOff, SupplyOffFails, Goto, Session!Cut
  <2>2. QED BY <2>1 DEF Session!Next
<1>2. CASE CycleCut /\ SupplyOffFails
  <2>1. Session!CutFails
    BY <1>2 DEF CycleCut, SupplyOff, SupplyOffFails, Goto, Session!CutFails
  <2>2. QED BY <2>1 DEF Session!Next
<1>3. CASE CycleRestore /\ SupplyOn
  <2>1. Session!Energise
    BY <1>3 DEF CycleRestore, SupplyOn, Goto, Session!Energise
  <2>2. QED BY <2>1 DEF Session!Next
<1>4. CASE CycleRestore /\ UNCHANGED supply
  BY <1>4 DEF CycleRestore, supply, Goto, Session!vars
<1>5. QED
  BY <1>1, <1>2, <1>3, <1>4 DEF CycleCut, CycleRestore

LEMMA CutSteps ==
  ASSUME OffCut PROVE Session!Cut \/ Session!CutFails
<1>1. CASE SupplyOff
  BY <1>1 DEF OffCut, SupplyOff, SupplyOffFails, Goto, Return, Leave, Session!Cut
<1>2. CASE SupplyOffFails
  BY <1>2 DEF OffCut, SupplyOff, SupplyOffFails, Goto, Return, Leave,
              Session!Cut, Session!CutFails
<1>3. QED
  BY <1>1, <1>2 DEF OffCut

LEMMA Closing ==
  ASSUME RailInv, CloseDriver PROVE Session!Close
BY DEF RailInv, CloseDriver, Goto, supply, Session!Close

(* Every other command leaves the supply alone and the program running.        *)
LEMMA CommandsStutter ==
  ASSUME UserCommand, ~PowerOnCommand \/ powerOn PROVE UNCHANGED Session!vars
<1> USE DEF supply, belief, loop, Session!vars
<1>1. CASE OtherCommand \/ ScanCommand \/ SpecialCommand \/ StandCommand \/ FlashCommand
  BY <1>1 DEF OtherCommand, ScanCommand, SpecialCommand, StandCommand, FlashCommand,
              StartProbe, StartSpecial, Return, Leave
<1>2. CASE PowerOnCommand /\ powerOn
  BY <1>2 DEF PowerOnCommand, StartProbe
<1>3. CASE PowerOffCommand
  BY <1>3 DEF PowerOffCommand, EnterPowerOff, StartSpecial, Leave
<1>4. CASE MitSetCommand
  BY <1>4 DEF MitSetCommand, Return, Leave
<1>5. QED
  BY <1>1, <1>2, <1>3, <1>4 DEF UserCommand

LEMMA LoopsStutter ==
  ASSUME RailInv, MainThread, ~OffCut, ~CloseDriver, ~CycleCut, ~CycleRestore
  PROVE  UNCHANGED Session!vars
<1> USE DEF supply, belief, loop, Session!vars
<1>1. CASE ReadLine \/ LoopEnds \/ OnReset \/ FlashedTarget
  BY <1>1 DEF ReadLine, LoopEnds, OnReset, FlashedTarget, EnterPowerOff, StartSpecial,
              Goto, Leave
<1>2. CASE OnWait \/ WarmupSend \/ WarmupEnd \/ ProbeSend \/ ProbeWait
  BY <1>2 DEF OnWait, WarmupSend, WarmupEnd, ProbeSend, ProbeWait, StartWarmup,
              StartProbe, FinishPowerOn, EnterPowerOff, StartSpecial, Return, Leave
<1>3. CASE SpecialSend \/ SpecialWait \/ OffWait \/ MitWait
  BY <1>3 DEF SpecialSend, SpecialWait, OffWait, MitWait, Return, Leave
<1>4. CASE StandVisit \/ StandPeriod \/ StandDone \/ FlashNext
  BY <1>4 DEF StandVisit, StandPeriod, StandDone, FlashNext, Return, Leave
<1>5. QED
  BY <1>1, <1>2, <1>3, <1>4 DEF MainThread

THEOREM SessionStep == RailInv /\ [Next]_vars => [Session!Next]_(Session!vars)
<1> SUFFICES ASSUME RailInv, [Next]_vars PROVE [Session!Next]_(Session!vars)
  OBVIOUS
<1>1. CASE UserCommand
  BY <1>1, SwitchingOn, CommandsStutter DEF Session!Next
<1>2. CASE MainThread
  BY <1>2, LoopsStutter, CutSteps, CycleSteps, Closing DEF Session!Next
<1>3. CASE Receive \/ Environment
  BY <1>3, OthersLeaveRail DEF Session!vars
<1>4. CASE UNCHANGED vars
  BY <1>4 DEF vars, Session!vars
<1>5. QED
  BY <1>1, <1>2, <1>3, <1>4 DEF Next

(* The console implements the power session.                                   *)
THEOREM ConsoleIsPowerSession == Spec => SessionSpec
<1>1. Init => Session!Init
  BY DEF Init, Session!Init
<1>2. QED
  BY <1>1, RailInit, RailStep, SessionStep, PTL DEF Spec, SessionSpec, Session!Spec

-----------------------------------------------------------------------------
(* Type correctness.                                                          *)

LEMMA QueueHead ==
  ASSUME NEW S, NEW q \in [Motors -> Seq(S)], NEW m \in Motors, q[m] # <<>>
  PROVE  Head(q[m]) \in S
OBVIOUS

LEMMA PutType ==
  ASSUME cmds \in [Motors -> Seq(Frames)], NEW m \in Motors, NEW f \in Frames, Transmit(m, f)
  PROVE  cmds' \in [Motors -> Seq(Frames)]
<1>1. Append(cmds[m], f) \in Seq(Frames)
  OBVIOUS
<1>2. QED
  BY <1>1 DEF Transmit, Put, PutFails

LEMMA SupplyType ==
  ASSUME TypeOK, SupplyOff \/ SupplyOffFails
  PROVE  /\ cmds' \in [Motors -> Seq(Frames)]
         /\ rail' \in BOOLEAN /\ cutFailed' \in BOOLEAN
         /\ driving' \subseteq Motors /\ booting' \subseteq Motors
<1>1. <<>> \in Seq(Frames)
  OBVIOUS
<1>2. QED
  BY <1>1 DEF TypeOK, SupplyOff, SupplyOffFails

LEMMA AnswerType ==
  ASSUME replies \in [Motors -> Seq(ReplyKinds)], NEW m \in Motors, NEW k \in ReplyKinds,
         replies' = [replies EXCEPT ![m] = Append(@, k)]
  PROVE  replies' \in [Motors -> Seq(ReplyKinds)]
<1>1. Append(replies[m], k) \in Seq(ReplyKinds)
  OBVIOUS
<1>2. QED
  BY <1>1

LEMMA CmdsTail ==
  ASSUME cmds \in [Motors -> Seq(Frames)], NEW m \in Motors, cmds[m] # <<>>,
         cmds' = [cmds EXCEPT ![m] = Tail(@)]
  PROVE  cmds' \in [Motors -> Seq(Frames)]
<1>1. Tail(cmds[m]) \in Seq(Frames)
  OBVIOUS
<1>2. QED
  BY <1>1

LEMMA RepliesTail ==
  ASSUME replies \in [Motors -> Seq(ReplyKinds)], NEW m \in Motors, replies[m] # <<>>,
         replies' = [replies EXCEPT ![m] = Tail(@)]
  PROVE  replies' \in [Motors -> Seq(ReplyKinds)]
<1>1. Tail(replies[m]) \in Seq(ReplyKinds)
  OBVIOUS
<1>2. QED
  BY <1>1

THEOREM TypeInit == Init => TypeOK
<1>1. <<>> \in Seq(Frames) /\ <<>> \in Seq(ReplyKinds)
  OBVIOUS
<1>2. QED
  BY <1>1 DEF Init, TypeOK, Places, Waits, Jobs, Specials

LEMMA TypeUser == TypeOK /\ UserCommand => TypeOK'
<1> SUFFICES ASSUME TypeOK, UserCommand PROVE TypeOK'
  OBVIOUS
<1> USE DEF TypeOK, Places, Waits, Jobs, Specials, supply, belief, loop, Outside
<1>1. CASE OtherCommand
  BY <1>1 DEF OtherCommand, Return, Leave
<1>2. CASE PowerOnCommand
  BY <1>2 DEF PowerOnCommand, StartProbe, SupplyOn
<1>3. CASE ScanCommand
  BY <1>3 DEF ScanCommand, StartProbe
<1>4. CASE SpecialCommand
  BY <1>4 DEF SpecialCommand, StartSpecial
<1>5. CASE PowerOffCommand
  BY <1>5 DEF PowerOffCommand, EnterPowerOff, StartSpecial, Leave
<1>6. CASE MitSetCommand
  <2>1. PICK m \in Motors :
          \/ Put(m, "motion") /\ pc' = "mit_wait" /\ sel' = {m} /\ job' = "mit_set"
             /\ UNCHANGED <<heard, cmd, todo>>
          \/ PutFails /\ Return
    BY <1>6 DEF MitSetCommand
  <2>2. cmds' \in [Motors -> Seq(Frames)]
    BY <2>1, PutType DEF Frames, Transmit
  <2>3. QED
    BY <1>6, <2>1, <2>2 DEF MitSetCommand, Return, Leave
<1>7. CASE StandCommand
  BY <1>7 DEF StandCommand
<1>8. CASE FlashCommand
  BY <1>8 DEF FlashCommand
<1>9. QED
  BY <1>1, <1>2, <1>3, <1>4, <1>5, <1>6, <1>7, <1>8 DEF UserCommand

LEMMA EnabledAfterType ==
  ASSUME TypeOK PROVE EnabledAfter \subseteq Motors
BY DEF TypeOK, EnabledAfter, Specials

LEMMA TypeMain == TypeOK /\ MainThread => TypeOK'
<1> SUFFICES ASSUME TypeOK, MainThread PROVE TypeOK'
  OBVIOUS
<1> USE DEF TypeOK, Places, Waits, Jobs, Specials, supply, belief, loop, Outside
<1>1. CASE ReadLine \/ CloseDriver \/ OnReset
  BY ZenonT(30), <1>1 DEF ReadLine, CloseDriver, OnReset, Goto
<1>2. CASE LoopEnds
  BY <1>2 DEF LoopEnds, EnterPowerOff, StartSpecial, Leave
<1>3. CASE OnWait
  BY <1>3 DEF OnWait, StartWarmup, StartProbe
<1>4. CASE WarmupSend
  <2>1. cmds' \in [Motors -> Seq(Frames)]
    BY <1>4, PutType DEF WarmupSend, Frames, Transmit
  <2>2. QED
    BY <1>4, <2>1 DEF WarmupSend
<1>5. CASE WarmupEnd
  BY <1>5 DEF WarmupEnd, FinishPowerOn, EnterPowerOff, StartSpecial, Return, Leave
<1>6. CASE ProbeSend
  <2>1. cmds' \in [Motors -> Seq(Frames)]
    BY <1>6, PutType DEF ProbeSend, Frames
  <2>2. QED
    BY <1>6, <2>1 DEF ProbeSend
<1>7. CASE ProbeWait
  BY <1>7 DEF ProbeWait, StartWarmup, FinishPowerOn, EnterPowerOff, StartSpecial,
              Return, Leave
<1>8. CASE SpecialSend
  <2>1. cmds' \in [Motors -> Seq(Frames)]
    BY <1>8, PutType DEF SpecialSend, Frames
  <2>2. QED
    BY <1>8, <2>1 DEF SpecialSend
<1>9. CASE SpecialWait
  BY <1>9, EnabledAfterType DEF SpecialWait, Return, Leave
<1>10. CASE OffCut
  BY <1>10, SupplyType DEF OffCut, Goto, Return, Leave
<1>11. CASE OffWait \/ MitWait \/ StandPeriod \/ StandDone
  BY <1>11 DEF OffWait, MitWait, StandPeriod, StandDone, Return, Leave
<1>12. CASE StandVisit
  <2>1. cmds' \in [Motors -> Seq(Frames)]
    BY <1>12, PutType DEF StandVisit, Frames
  <2>2. QED
    BY <1>12, <2>1 DEF StandVisit
<1>13. CASE FlashNext
  <2>1. cmds' \in [Motors -> Seq(Frames)]
    BY <1>13, PutType DEF FlashNext, Frames, Transmit
  <2>2. QED
    BY <1>13, <2>1 DEF FlashNext, Return, Leave
<1>14. CASE CycleCut
  BY <1>14, SupplyType DEF CycleCut, Goto
<1>15. CASE CycleRestore
  BY ZenonT(30), <1>15 DEF CycleRestore, SupplyOn, Goto
<1>16. CASE FlashedTarget
  BY <1>16 DEF FlashedTarget, Goto
<1>17. QED
  BY <1>1, <1>2, <1>3, <1>4, <1>5, <1>6, <1>7, <1>8, <1>9, <1>10, <1>11, <1>12,
     <1>13, <1>14, <1>15, <1>16 DEF MainThread

LEMMA TypeReceive == TypeOK /\ Receive => TypeOK'
<1> SUFFICES ASSUME TypeOK, Receive PROVE TypeOK'
  OBVIOUS
<1> USE DEF TypeOK, supply, belief, loop
<1>1. CASE RxCount
  BY <1>1 DEF RxCount
<1>2. ASSUME NEW m \in Motors, RxFrame(m) PROVE TypeOK'
  <2>1. replies' \in [Motors -> Seq(ReplyKinds)]
    BY <1>2, RepliesTail DEF RxFrame
  <2>2. enabled' \subseteq Motors
    BY <1>2 DEF RxFrame, EnabledOnReply
  <2>3. QED
    BY <1>2, <2>1, <2>2 DEF RxFrame
<1>3. QED
  BY <1>1, <1>2 DEF Receive

LEMMA TypeEnvironment == TypeOK /\ Environment => TypeOK'
<1> SUFFICES ASSUME TypeOK, Environment PROVE TypeOK'
  OBVIOUS
<1> USE DEF TypeOK, supply, belief, loop, Console
<1>1. CASE Signal
  BY <1>1 DEF Signal
<1>2. ASSUME NEW m \in Motors, MotorReceives(m) PROVE TypeOK'
  <2>1. cmds' \in [Motors -> Seq(Frames)]
    BY <1>2, CmdsTail DEF MotorReceives
  <2>2. Head(cmds[m]) \in Frames
    BY <1>2, QueueHead DEF MotorReceives
  <2>3. driving' \subseteq Motors /\ booting' \subseteq Motors
    BY <1>2, <2>2 DEF MotorReceives, Frames, Specials
  <2>4. Answers(m) \subseteq ReplyKinds
    BY DEF Answers, ReplyKinds
  <2>5. replies' \in [Motors -> Seq(ReplyKinds)]
    BY <1>2, <2>4, AnswerType DEF MotorReceives
  <2>6. QED
    BY <1>2, <2>1, <2>3, <2>5 DEF MotorReceives
<1>3. ASSUME NEW m \in Motors, FrameLost(m) PROVE TypeOK'
  <2>1. /\ cmds' \in [Motors -> Seq(Frames)]
        /\ replies' \in [Motors -> Seq(ReplyKinds)]
    BY <1>3, CmdsTail, RepliesTail DEF FrameLost
  <2>2. QED
    BY <1>3, <2>1 DEF FrameLost
<1>4. ASSUME NEW m \in Motors, MotorBoots(m) PROVE TypeOK'
  <2>1. replies' \in [Motors -> Seq(ReplyKinds)]
    BY <1>4, AnswerType DEF MotorBoots, ReplyKinds
  <2>2. QED
    BY <1>4, <2>1 DEF MotorBoots
<1>5. QED
  BY <1>1, <1>2, <1>3, <1>4 DEF Environment

(* Every state the console can reach is well typed.                           *)
THEOREM ConsoleTyped == Spec => []TypeOK
<1>1. TypeOK /\ UNCHANGED vars => TypeOK'
  BY DEF TypeOK, vars
<1>2. TypeOK /\ [Next]_vars => TypeOK'
  BY <1>1, TypeUser, TypeMain, TypeReceive, TypeEnvironment DEF Next
<1>3. QED
  BY TypeInit, <1>2, PTL DEF Spec

-----------------------------------------------------------------------------
(* What the enabled flags are worth: when no frame is lost, no send fails,  *)
(* and the wait after special frames and the one after the cut outlast what *)
(* is in flight, a motor that drives is recorded as enabled, ZERO and the   *)
(* cut find motors at rest, and nothing is believed of motors without power. *)

Orderly ==
  /\ "loss" \notin Faults /\ "tx" \notin Faults
  /\ {"special_wait", "off_wait"} \subseteq Timely

Has(q, f) == \E i \in 1 .. Len(q) : q[i] = f

Sending == pc \in {"special_send", "special_wait"}

(* A stop request cuts waits short; what was known at read() stays known.   *)
Trusted == ~stop \/ pc = "reading"

(* Places that the thread reaches only with all motors at rest.             *)
Rest == {"off_cut", "off_wait", "flash_next", "cycle_cut", "cycle_gap", "flashing"}

DriveInv ==
  /\ driving \cap booting = {}
  /\ ~rail => driving = {} /\ booting = {}

LocalInv ==
  /\ pc = "special_wait" => todo = {}
  /\ Sending /\ job # "special" => cmd = "disable" /\ sel = Motors

(* Special frames are in flight only while their command is under way, or   *)
(* after a stop request; a zero frame never together with a drive.          *)
FrameInv ==
  /\ Trusted /\ ~Sending => \A m \in Motors, f \in Specials : ~Has(cmds[m], f)
  /\ Sending => \A m \in Motors, f \in Specials :
       Has(cmds[m], f) => (f = cmd /\ m \in sel) \/ (stop /\ cmd = "disable")
  /\ Sending /\ cmd = "zero" => sel \cap driving = {}
  /\ \A m \in Motors : Has(cmds[m], "zero") => m \notin driving /\ ~Has(cmds[m], "enable")

(* A motor that drives is recorded as enabled, and nothing it has said will *)
(* change that.                                                             *)
Covered(m) == m \in driving => m \in enabled /\ ~Has(replies[m], "off")

(* What makes a driving motor count as heard by the end of the wait.         *)
Speaks(m) ==
  \/ m \in todo \/ Has(cmds[m], "enable")
  \/ replies[m] # <<>> \/ m \in counting \/ m \in heard

BeliefInv ==
  Trusted =>
    /\ \A m \in Motors : ~Sending \/ cmd = "zero" \/ m \notin sel => Covered(m)
    /\ Sending /\ cmd = "enable" => \A m \in sel \cap driving : Speaks(m)
    /\ Sending /\ cmd = "disable" =>
         \A m \in sel \cap driving : m \in todo \/ Has(cmds[m], "disable")
    /\ pc \in Rest => driving = {}

QuietInv ==
  ~powerOn /\ ~stop /\ AtTerminal => online = {} /\ enabled = {} /\ Quiet /\ ~rail

TimelyInv == DriveInv /\ LocalInv /\ FrameInv /\ BeliefInv /\ QuietInv

-----------------------------------------------------------------------------
(* Queues.                                                                  *)
LEMMA HasAppend ==
  ASSUME NEW S, NEW q \in Seq(S), NEW x \in S, NEW f
  PROVE  Has(Append(q, x), f) <=> Has(q, f) \/ x = f
<1>1. Len(Append(q, x)) = Len(q) + 1 /\ Append(q, x)[Len(q) + 1] = x
        /\ \A i \in 1 .. Len(q) : Append(q, x)[i] = q[i]
  OBVIOUS
<1>2. Len(q) \in Nat /\ Len(q) + 1 \in 1 .. Len(Append(q, x))
  BY <1>1
<1>3. \A i \in 1 .. Len(Append(q, x)) : i \in 1 .. Len(q) \/ i = Len(q) + 1
  BY <1>1, <1>2
<1>4. \A i \in 1 .. Len(q) : i \in 1 .. Len(Append(q, x))
  BY <1>1, <1>2
<1> QED
  BY <1>1, <1>2, <1>3, <1>4 DEF Has

LEMMA HasTail ==
  ASSUME NEW S, NEW q \in Seq(S), q # <<>>, NEW f
  PROVE  Has(q, f) <=> Head(q) = f \/ Has(Tail(q), f)
<1>1. Len(q) \in Nat \ {0} /\ Len(Tail(q)) = Len(q) - 1 /\ Head(q) = q[1]
        /\ \A i \in 1 .. Len(q) - 1 : Tail(q)[i] = q[i + 1]
  OBVIOUS
<1>2. ASSUME Has(q, f), Head(q) # f PROVE Has(Tail(q), f)
  <2>1. PICK i \in 1 .. Len(q) : q[i] = f
    BY <1>2 DEF Has
  <2>2. i # 1 /\ i - 1 \in 1 .. Len(q) - 1 /\ (i - 1) + 1 = i
    BY <1>1, <1>2, <2>1
  <2>3. Tail(q)[i - 1] = f
    BY <1>1, <2>1, <2>2
  <2> QED
    BY <1>1, <2>2, <2>3 DEF Has
<1>3. ASSUME Has(Tail(q), f) PROVE Has(q, f)
  <2>1. PICK i \in 1 .. Len(q) - 1 : Tail(q)[i] = f
    BY <1>1, <1>3 DEF Has
  <2>2. i + 1 \in 1 .. Len(q) /\ q[i + 1] = f
    BY <1>1, <2>1
  <2> QED
    BY <2>2 DEF Has
<1>4. Head(q) = f => Has(q, f)
  BY <1>1 DEF Has
<1> QED
  BY <1>2, <1>3, <1>4

LEMMA HasNone == \A f : ~Has(<<>>, f)
BY DEF Has

(* A frame that is put in a queue, and no other, is found there.             *)
LEMMA PutHas ==
  ASSUME TypeOK, NEW m \in Motors, NEW f \in Frames, Put(m, f)
  PROVE  \A n \in Motors, g \in Specials :
           Has(cmds'[n], g) <=> Has(cmds[n], g) \/ (n = m /\ g = f)
<1>1. cmds[m] \in Seq(Frames) /\ cmds'[m] = Append(cmds[m], f)
        /\ \A n \in Motors \ {m} : cmds'[n] = cmds[n]
  BY DEF TypeOK, Put
<1>2. \A g : Has(cmds'[m], g) <=> Has(cmds[m], g) \/ f = g
  BY <1>1, HasAppend
<1> QED
  BY <1>1, <1>2

-----------------------------------------------------------------------------
(* The main thread outside the send and wait of special frames.              *)

(* A command begins to send special frames.                                  *)
Enters ==
  /\ UNCHANGED <<cmds, driving, enabled>>
  /\ pc' = "special_send" /\ todo' = sel'
  /\ cmd' = "disable" \/ pc = "reading"
  /\ cmd' = "zero" => sel' \cap enabled = {}
  /\ job' # "special" => cmd' = "disable" /\ sel' = Motors

(* Or it does not: flags change only where all motors are at rest, and there  *)
(* the thread comes only with no flag set.                                    *)
Stays ==
  /\ ~Sending'
  /\ UNCHANGED enabled \/ pc \in Rest
  /\ pc' \in Rest => pc \in Rest \/ enabled = {}
  /\ UNCHANGED driving \/ (pc \in Rest /\ driving' = {})
  /\ \A m \in Motors, f \in Specials : Has(cmds'[m], f) => Has(cmds[m], f)

Calm ==
  /\ UNCHANGED <<stop, replies, counting>>
  /\ Trusted' => Trusted
  /\ Enters \/ Stays

LEMMA EnterOff ==
  ASSUME NEW j, j # "special", EnterPowerOff(j), UNCHANGED <<cmds, driving>>
  PROVE  Enters \/ Stays
<1>1. CASE enabled # {}
  BY <1>1 DEF EnterPowerOff, StartSpecial, Enters
<1>2. CASE enabled = {}
  BY <1>2 DEF EnterPowerOff, Leave, Stays, Rest, Sending
<1> QED
  BY <1>1, <1>2

LEMMA UserCalm ==
  ASSUME TypeOK, Orderly, UserCommand
  PROVE  Calm
<1> USE DEF Calm, Stays, Trusted, Sending, Rest, Outside, belief, supply, loop
<1>1. CASE OtherCommand
  BY <1>1 DEF OtherCommand, Return, Leave
<1>2. CASE PowerOnCommand
  BY <1>2 DEF PowerOnCommand, StartProbe, SupplyOn
<1>3. CASE ScanCommand
  BY <1>3 DEF ScanCommand, StartProbe
<1>4. CASE SpecialCommand
  BY <1>4 DEF SpecialCommand, StartSpecial, Enters, ZeroRefused
<1>5. CASE PowerOffCommand
  BY <1>5, EnterOff DEF PowerOffCommand, Leave
<1>6. CASE MitSetCommand
  <2>1. \A m \in Motors, f \in Specials : Has(cmds'[m], f) => Has(cmds[m], f)
    <3>1. "motion" \in Frames \ Specials
      BY DEF Frames, Specials
    <3> QED
      BY <1>6, <3>1, PutHas DEF MitSetCommand, PutFails
  <2> QED
    BY <1>6, <2>1 DEF MitSetCommand, Return, Leave
<1>7. CASE StandCommand
  BY <1>7 DEF StandCommand
<1>8. CASE FlashCommand
  BY <1>8 DEF FlashCommand
<1> QED
  BY <1>1, <1>2, <1>3, <1>4, <1>5, <1>6, <1>7, <1>8 DEF UserCommand

(* Frames other than the special ones leave the special ones as they are.    *)
LEMMA PutCalm ==
  ASSUME TypeOK, Orderly, NEW m \in Motors, NEW f \in {"mit", "motion", "reset"}, Transmit(m, f)
  PROVE  \A n \in Motors, g \in Specials : Has(cmds'[n], g) => Has(cmds[n], g)
<1>1. f \in Frames \ Specials
  BY DEF Frames, Specials
<1> QED
  BY <1>1, PutHas DEF Transmit, PutFails

LEMMA CutCalm ==
  SupplyOff => /\ driving' = {}
               /\ \A m \in Motors, f \in Specials : Has(cmds'[m], f) => Has(cmds[m], f)
BY HasNone DEF SupplyOff

LEMMA MainCalm ==
  ASSUME TypeOK, Orderly, MainThread, ~Sending
  PROVE  Calm
<1> USE DEF Calm, Stays, Trusted, Sending, Rest, Outside, belief, supply, loop
<1>1. CASE ReadLine
  BY <1>1 DEF ReadLine, Goto
<1>2. CASE LoopEnds
  <2>1. CASE EnterPowerOff("exit")
    <3>1. Enters \/ Stays
      BY <1>2, <2>1, EnterOff DEF LoopEnds
    <3>2. pc' # "reading"
      BY <2>1 DEF EnterPowerOff, StartSpecial, Leave
    <3> QED
      BY <1>2, <3>1, <3>2 DEF LoopEnds
  <2>2. CASE Leave("closing", "none") /\ UNCHANGED enabled
    BY <1>2, <2>2 DEF LoopEnds, Leave
  <2> QED
    BY <1>2, <2>1, <2>2 DEF LoopEnds
<1>3. CASE CloseDriver
  BY <1>3 DEF CloseDriver, Goto
<1>4. CASE OnReset
  BY <1>4 DEF OnReset, Goto
<1>5. CASE OnWait
  BY <1>5 DEF OnWait, StartWarmup, StartProbe
<1>6. CASE WarmupSend
  <2>1. \A m \in Motors, f \in Specials : Has(cmds'[m], f) => Has(cmds[m], f)
    BY <1>6, PutCalm DEF WarmupSend, Transmit, TypeOK
  <2> QED
    BY <1>6, <2>1 DEF WarmupSend
<1>7. CASE WarmupEnd
  <2>1. \/ Return /\ UNCHANGED enabled
        \/ EnterPowerOff("motor_probe")
    BY <1>7 DEF WarmupEnd, FinishPowerOn
  <2>2. CASE Return /\ UNCHANGED enabled
    BY <1>7, <2>2 DEF WarmupEnd, Return, Leave
  <2>3. CASE EnterPowerOff("motor_probe")
    <3>1. Enters \/ Stays
      BY <1>7, <2>3, EnterOff DEF WarmupEnd
    <3>2. pc' # "reading"
      BY <2>3 DEF EnterPowerOff, StartSpecial, Leave
    <3> QED
      BY <1>7, <3>1, <3>2 DEF WarmupEnd
  <2> QED
    BY <2>1, <2>2, <2>3
<1>8. CASE ProbeSend
  <2>1. \A m \in Motors, f \in Specials : Has(cmds'[m], f) => Has(cmds[m], f)
    BY <1>8, PutCalm DEF ProbeSend, TypeOK
  <2> QED
    BY <1>8, <2>1 DEF ProbeSend
<1>9. CASE ProbeWait
  <2>1. \/ Return /\ UNCHANGED enabled
        \/ StartWarmup
        \/ EnterPowerOff("motor_probe")
    BY <1>9 DEF ProbeWait, FinishPowerOn
  <2>2. CASE Return /\ UNCHANGED enabled
    BY <1>9, <2>2 DEF ProbeWait, Return, Leave
  <2>3. CASE StartWarmup
    BY <1>9, <2>3 DEF ProbeWait, StartWarmup
  <2>4. CASE EnterPowerOff("motor_probe")
    <3>1. Enters \/ Stays
      BY <1>9, <2>4, EnterOff DEF ProbeWait
    <3>2. pc' # "reading"
      BY <2>4 DEF EnterPowerOff, StartSpecial, Leave
    <3> QED
      BY <1>9, <3>1, <3>2 DEF ProbeWait
  <2> QED
    BY <2>1, <2>2, <2>3, <2>4
<1>10. CASE OffCut
  BY <1>10, CutCalm DEF OffCut, SupplyOffFails, Goto, Leave, Return
<1>11. CASE OffWait
  BY <1>11 DEF OffWait, Leave, Return
<1>12. CASE MitWait
  BY <1>12 DEF MitWait, Return, Leave
<1>13. CASE StandVisit
  <2>1. \A m \in Motors, f \in Specials : Has(cmds'[m], f) => Has(cmds[m], f)
    BY <1>13, PutCalm DEF StandVisit, TypeOK
  <2> QED
    BY <1>13, <2>1 DEF StandVisit
<1>14. CASE StandPeriod \/ StandDone
  BY <1>14 DEF StandPeriod, StandDone, Return, Leave
<1>15. CASE FlashNext
  <2>1. \A m \in Motors, f \in Specials : Has(cmds'[m], f) => Has(cmds[m], f)
    <3>1. CASE UNCHANGED cmds
      BY <3>1
    <3>2. CASE \E m \in todo : Put(m, "reset")
      BY <3>2, PutCalm DEF Transmit, TypeOK
    <3> QED
      BY <1>15, <3>1, <3>2 DEF FlashNext, PutFails, Return, Leave
  <2> QED
    BY <1>15, <2>1 DEF FlashNext, Return, Leave
<1>16. CASE CycleCut
  BY <1>16, CutCalm DEF CycleCut, SupplyOffFails, Goto
<1>17. CASE CycleRestore
  BY <1>17 DEF CycleRestore, SupplyOn, Goto
<1>18. CASE FlashedTarget
  BY <1>18 DEF FlashedTarget, Goto
<1>19. CASE SpecialSend \/ SpecialWait
  BY <1>19 DEF SpecialSend, SpecialWait
<1> QED
  BY <1>1, <1>2, <1>3, <1>4, <1>5, <1>6, <1>7, <1>8, <1>9, <1>10, <1>11, <1>12, <1>13,
     <1>14, <1>15, <1>16, <1>17, <1>18, <1>19 DEF MainThread

LEMMA CalmFrames ==
  ASSUME TypeOK, FrameInv, BeliefInv, Calm, ~Sending
  PROVE  FrameInv'
<1>1. CASE Enters
  <2>1. Sending' /\ stop' = stop /\ cmds' = cmds /\ driving' = driving
    BY <1>1 DEF Calm, Enters, Sending
  <2>2. CASE Trusted
    <3>1. \A m \in Motors, f \in Specials : ~Has(cmds[m], f)
      BY <2>2 DEF FrameInv
    <3>2. \A m \in Motors : m \in driving => m \in enabled
      BY <2>2 DEF BeliefInv, Covered
    <3>3. cmd' = "zero" => sel' \cap driving' = {}
      BY <1>1, <2>1, <3>2 DEF Enters, TypeOK
    <3>4. {"zero", "enable"} \subseteq Specials
      BY DEF Specials
    <3> QED
      BY <2>1, <3>1, <3>3, <3>4 DEF FrameInv
  <2>3. CASE ~Trusted
    BY <1>1, <2>1, <2>3 DEF FrameInv, Enters, Trusted
  <2> QED
    BY <2>2, <2>3
<1>2. CASE Stays
  <2>1. ~Sending' /\ (Trusted' => Trusted)
    BY <1>2 DEF Stays, Calm
  <2>2. \A m \in Motors : Has(cmds'[m], "zero") => m \notin driving' /\ ~Has(cmds'[m], "enable")
    BY <1>2 DEF FrameInv, Stays, Specials
  <2> QED
    BY <1>2, <2>1, <2>2 DEF FrameInv, Stays
<1> QED
  BY <1>1, <1>2 DEF Calm

LEMMA CalmBelief ==
  ASSUME TypeOK, FrameInv, BeliefInv, Calm, ~Sending
  PROVE  BeliefInv'
<1> SUFFICES ASSUME Trusted' PROVE BeliefInv'
  BY DEF BeliefInv
<1>1. Trusted /\ UNCHANGED <<stop, replies, counting>>
  BY DEF Calm
<1>2. \A m \in Motors : Covered(m)
  BY <1>1 DEF BeliefInv
<1>3. CASE Enters
  <2>1. \A m \in Motors : Covered(m)'
    BY <1>1, <1>2, <1>3 DEF Enters, Covered
  <2>2. pc' \notin Rest
    BY <1>3 DEF Enters, Rest
  <2> QED
    BY <1>3, <2>1, <2>2 DEF Enters, BeliefInv, Speaks
<1>4. CASE Stays
  <2>1. pc \in Rest => driving' = {}
    BY <1>1, <1>4 DEF Stays, BeliefInv
  <2>2. \A m \in Motors : Covered(m)'
    BY <1>1, <1>2, <1>4, <2>1 DEF Stays, Covered
  <2>3. pc' \in Rest => driving' = {}
    BY <1>2, <1>4, <2>1 DEF Stays, Covered, TypeOK
  <2>4. ~Sending'
    BY <1>4 DEF Stays
  <2> QED
    BY <2>2, <2>3, <2>4 DEF BeliefInv
<1> QED
  BY <1>3, <1>4 DEF Calm

-----------------------------------------------------------------------------
(* The send and the wait of special frames.                                 *)
LEMMA SendStep ==
  ASSUME TypeOK, Orderly, FrameInv, BeliefInv, SpecialSend
  PROVE  FrameInv' /\ BeliefInv'
<1>1. PICK m \in todo : Put(m, cmd) /\ todo' = todo \ {m}
  BY DEF SpecialSend, Transmit, PutFails, Orderly
<1>2. /\ m \in Motors /\ m \in sel /\ cmd \in Specials /\ cmd \in Frames
      /\ Sending /\ Sending' /\ pc' \notin Rest /\ pc # "reading" /\ pc' # "reading"
      /\ UNCHANGED <<replies, counting, stop, rail, driving, booting, enabled, heard, cmd, sel>>
  BY <1>1 DEF TypeOK, SpecialSend, Sending, Rest, Frames, Outside, supply, belief
<1>3. \A n \in Motors, g \in Specials :
        Has(cmds'[n], g) <=> Has(cmds[n], g) \/ (n = m /\ g = cmd)
  BY <1>1, <1>2, PutHas
<1>4. {"zero", "enable", "disable"} \subseteq Specials
  BY DEF Specials
<1>5. FrameInv'
  <2>1. \A n \in Motors, f \in Specials :
          Has(cmds'[n], f) => (f = cmd /\ n \in sel) \/ (stop /\ cmd = "disable")
    BY <1>2, <1>3 DEF FrameInv
  <2>2. ASSUME NEW n \in Motors, Has(cmds'[n], "zero")
        PROVE  n \notin driving /\ ~Has(cmds'[n], "enable")
    BY <1>2, <1>3, <1>4, <2>2 DEF FrameInv
  <2> QED
    BY <1>2, <2>1, <2>2 DEF FrameInv
<1>6. BeliefInv'
  <2> SUFFICES ASSUME Trusted PROVE BeliefInv'
    BY <1>2 DEF BeliefInv, Trusted
  <2>1. \A n \in Motors : Covered(n)' = Covered(n)
    BY <1>2 DEF Covered
  <2>2. cmd = "enable" => \A n \in sel \cap driving : Speaks(n)'
    BY <1>1, <1>2, <1>3, <1>4 DEF BeliefInv, Speaks, TypeOK
  <2>3. cmd = "disable" => \A n \in sel \cap driving : n \in todo' \/ Has(cmds'[n], "disable")
    BY <1>1, <1>2, <1>3, <1>4 DEF BeliefInv, TypeOK
  <2> QED
    BY <1>2, <2>1, <2>2, <2>3 DEF BeliefInv
<1> QED
  BY <1>5, <1>6

LEMMA WaitStep ==
  ASSUME TypeOK, Orderly, LocalInv, FrameInv, BeliefInv, SpecialWait
  PROVE  FrameInv' /\ BeliefInv'
<1>1. /\ Sending /\ ~Sending' /\ todo = {} /\ pc = "special_wait" /\ pc' # "reading"
      /\ UNCHANGED <<stop, cmds, replies, driving>> /\ enabled' = EnabledAfter
      /\ job # "special" \/ pc' = "prompt"
  BY DEF SpecialWait, Sending, LocalInv, Return, Leave, Outside, supply
<1>2. ~stop => Quiet
  BY DEF SpecialWait, Elapsed, Orderly
<1>3. FrameInv'
  <2>1. ~stop => \A m \in Motors, f \in Specials : ~Has(cmds[m], f)
    BY <1>2, HasNone DEF Quiet
  <2> QED
    BY <1>1, <2>1 DEF FrameInv, Trusted
<1>4. BeliefInv'
  <2> SUFFICES ASSUME ~stop PROVE BeliefInv'
    BY <1>1 DEF BeliefInv, Trusted
  <2>1. /\ \A m \in Motors : cmds[m] = <<>> /\ replies[m] = <<>>
        /\ counting = {}
    BY <1>2 DEF Quiet
  <2>2. \A m \in Motors : \A f : ~Has(cmds[m], f) /\ ~Has(replies[m], f)
    BY <2>1, HasNone
  <2>3. \A m \in Motors \ sel : m \in driving => m \in enabled
    BY DEF BeliefInv, Trusted, Covered
  <2>4. cmd = "zero" => \A m \in Motors : m \in driving => m \in enabled
    BY DEF BeliefInv, Trusted, Covered
  <2>5. cmd = "enable" => sel \cap driving \subseteq heard
    BY <1>1, <2>1, <2>2 DEF BeliefInv, Trusted, Speaks, TypeOK
  <2>6. cmd = "disable" => sel \cap driving = {}
    BY <1>1, <2>2 DEF BeliefInv, Trusted, TypeOK
  <2>7. driving \subseteq EnabledAfter
    BY <2>3, <2>4, <2>5, <2>6 DEF EnabledAfter, TypeOK, Specials
  <2>8. pc' \in Rest => driving = {}
    <3>1. pc' \in Rest => job # "special"
      BY <1>1 DEF Rest
    <3>2. job # "special" => cmd = "disable" /\ sel = Motors
      BY <1>1 DEF LocalInv
    <3> QED
      BY <2>6, <3>1, <3>2 DEF TypeOK
  <2> QED
    BY <1>1, <2>2, <2>7, <2>8 DEF BeliefInv, Covered
<1> QED
  BY <1>3, <1>4

-----------------------------------------------------------------------------
(* The receive thread.                                                      *)
LEMMA RxFrameStep ==
  ASSUME TypeOK, FrameInv, BeliefInv, NEW m \in Motors, RxFrame(m)
  PROVE  FrameInv' /\ BeliefInv'
<1>1. /\ UNCHANGED <<cmds, driving, heard, stop, pc, job, cmd, sel, todo>>
      /\ (Sending' <=> Sending) /\ (Trusted' <=> Trusted)
  BY DEF RxFrame, supply, loop, Sending, Trusted
<1>2. FrameInv'
  BY <1>1 DEF FrameInv
<1>3. replies[m] \in Seq(ReplyKinds) /\ replies[m] # <<>> /\ counting' = {m} /\ counting = {}
  BY DEF TypeOK, RxFrame
<1>4. /\ replies'[m] = Tail(replies[m])
      /\ \A n \in Motors \ {m} : replies'[n] = replies[n]
  BY DEF TypeOK, RxFrame
<1>5. \A n \in Motors : Covered(n) => Covered(n)'
  <2>1. Has(replies[m], "off") <=> Head(replies[m]) = "off" \/ Has(Tail(replies[m]), "off")
    BY <1>3, HasTail
  <2>2. enabled' = EnabledOnReply(m, Head(replies[m]))
    BY DEF RxFrame
  <2>3. Covered(m) => Covered(m)'
    BY <1>1, <1>4, <2>1, <2>2 DEF Covered, EnabledOnReply
  <2>4. \A n \in Motors \ {m} : Covered(n) => Covered(n)'
    BY <1>1, <1>4, <2>2 DEF Covered, EnabledOnReply
  <2> QED
    BY <2>3, <2>4
<1>6. \A n \in Motors : Speaks(n) => Speaks(n)'
  BY <1>1, <1>3, <1>4 DEF Speaks
<1>7. BeliefInv'
  BY <1>1, <1>5, <1>6 DEF BeliefInv, TypeOK
<1> QED
  BY <1>2, <1>7

LEMMA RxCountStep ==
  ASSUME TypeOK, FrameInv, BeliefInv, RxCount
  PROVE  FrameInv' /\ BeliefInv'
<1>1. /\ UNCHANGED <<cmds, replies, driving, enabled, stop, pc, job, cmd, sel, todo>>
      /\ (Sending' <=> Sending) /\ (Trusted' <=> Trusted)
  BY DEF RxCount, supply, belief, loop, Sending, Trusted
<1>2. Sending => heard' = heard \cup counting
  BY DEF RxCount, Sending, Listening
<1>3. \A n \in Motors : Sending /\ Speaks(n) => Speaks(n)'
  BY <1>1, <1>2 DEF Speaks
<1>4. FrameInv'
  BY <1>1 DEF FrameInv
<1>5. BeliefInv'
  BY <1>1, <1>3 DEF BeliefInv, Covered, TypeOK
<1> QED
  BY <1>4, <1>5

-----------------------------------------------------------------------------
(* The motors and the signal.                                               *)

(* What a motor does with the frame at the head of its queue.                *)
LEMMA MotorObeys ==
  ASSUME TypeOK, DriveInv, NEW m \in Motors, MotorReceives(m)
  PROVE  /\ Head(cmds[m]) = "enable" => Has(cmds[m], "enable")
         /\ driving' # driving /\ ~(driving' \subseteq driving) => Head(cmds[m]) = "enable"
         /\ driving' \ {m} = driving \ {m}
         /\ Head(cmds[m]) = "disable" => m \notin driving'
         /\ m \in driving' => /\ replies'[m] # <<>>
                              /\ Has(replies'[m], "off") => Has(replies[m], "off")
         /\ \A n \in Motors \ {m} : replies'[n] = replies[n] /\ cmds'[n] = cmds[n]
         /\ \A f : Has(cmds[m], f) <=> Head(cmds[m]) = f \/ Has(cmds'[m], f)
<1>1. cmds[m] \in Seq(Frames) /\ cmds[m] # <<>> /\ cmds'[m] = Tail(cmds[m])
        /\ \A n \in Motors \ {m} : cmds'[n] = cmds[n]
  BY DEF TypeOK, MotorReceives
<1>2. \A f : Has(cmds[m], f) <=> Head(cmds[m]) = f \/ Has(cmds'[m], f)
  BY <1>1, HasTail
<1>3. replies[m] \in Seq(ReplyKinds) /\ replies \in [Motors -> Seq(ReplyKinds)]
  BY DEF TypeOK
<1>4. CASE /\ rail /\ m \notin booting /\ Head(cmds[m]) # "reset"
           /\ driving' = CASE Head(cmds[m]) = "enable"  -> driving \cup {m}
                           [] Head(cmds[m]) = "disable" -> driving \ {m}
                           [] OTHER                     -> driving
           /\ \E k \in Answers(m) : replies' = [replies EXCEPT ![m] = Append(@, k)]
  <2>1. PICK k \in Answers(m) : replies' = [replies EXCEPT ![m] = Append(@, k)]
    BY <1>4
  <2>2. k \in ReplyKinds /\ (m \in driving' => k # "off")
    BY DEF Answers, ReplyKinds
  <2>3. replies'[m] = Append(replies[m], k) /\ \A n \in Motors \ {m} : replies'[n] = replies[n]
    BY <1>3, <2>1
  <2>4. replies'[m] # <<>> /\ (Has(replies'[m], "off") <=> Has(replies[m], "off") \/ k = "off")
    BY <1>3, <2>2, <2>3, HasAppend
  <2>5. /\ ~(driving' \subseteq driving) => Head(cmds[m]) = "enable"
        /\ driving' \ {m} = driving \ {m}
        /\ Head(cmds[m]) = "disable" => m \notin driving'
    BY <1>4
  <2> QED
    BY <1>1, <1>2, <2>2, <2>3, <2>4, <2>5
<1>5. CASE driving' = driving \ {m} /\ UNCHANGED replies
  BY <1>1, <1>2, <1>5
<1>6. CASE (~rail \/ m \in booting) /\ UNCHANGED <<driving, replies>>
  BY <1>1, <1>2, <1>6 DEF DriveInv
<1> QED
  BY <1>4, <1>5, <1>6 DEF MotorReceives

LEMMA MotorStep ==
  ASSUME TypeOK, DriveInv, FrameInv, BeliefInv, NEW m \in Motors, MotorReceives(m)
  PROVE  FrameInv' /\ BeliefInv'
<1>1. /\ UNCHANGED <<enabled, heard, counting, stop, pc, cmd, sel, todo>>
      /\ (Sending' <=> Sending) /\ (Trusted' <=> Trusted)
  BY DEF MotorReceives, Console, loop, Sending, Trusted
<1>2. \A n \in Motors, f \in Specials : Has(cmds'[n], f) => Has(cmds[n], f)
  BY MotorObeys
<1>3. {"zero", "enable", "disable"} \subseteq Specials
  BY DEF Specials
<1>4. ~(driving' \subseteq driving) => Has(cmds[m], "enable")
  BY MotorObeys
<1>5. driving' \ {m} = driving \ {m} /\ driving' \subseteq Motors
  BY MotorObeys DEF TypeOK
<1>6. FrameInv'
  <2>1. Sending /\ cmd = "zero" => sel \cap driving' = {}
    BY <1>3, <1>4 DEF FrameInv
  <2>2. ASSUME NEW n \in Motors, Has(cmds'[n], "zero")
        PROVE  n \notin driving' /\ ~Has(cmds'[n], "enable")
    BY <1>2, <1>3, <1>4, <1>5, <2>2 DEF FrameInv
  <2> QED
    BY <1>1, <1>2, <2>1, <2>2 DEF FrameInv
<1>7. BeliefInv'
  <2> SUFFICES ASSUME Trusted PROVE BeliefInv'
    BY <1>1 DEF BeliefInv
  <2>1. Sending => ~stop
    BY DEF Sending, Trusted
  <2>2. Has(cmds[m], "enable") => Sending /\ cmd = "enable" /\ m \in sel
    BY <1>3, <2>1 DEF FrameInv
  <2>3. \A n \in Motors \ {m} : replies'[n] = replies[n] /\ cmds'[n] = cmds[n]
                                  /\ (n \in driving' <=> n \in driving)
    BY <1>5, MotorObeys
  <2>4. \A n \in Motors : ~Sending \/ cmd = "zero" \/ n \notin sel => Covered(n)'
    <3>1. ~Sending \/ cmd = "zero" \/ m \notin sel => Covered(m)'
      <4> SUFFICES ASSUME ~Sending \/ cmd = "zero" \/ m \notin sel, m \in driving'
                   PROVE  m \in enabled /\ ~Has(replies'[m], "off")
        BY <1>1 DEF Covered
      <4>1. m \in driving
        BY <1>4, <2>2
      <4>2. m \in enabled /\ ~Has(replies[m], "off")
        BY <4>1 DEF BeliefInv, Covered
      <4> QED
        BY <4>2, MotorObeys
    <3>2. ASSUME NEW n \in Motors \ {m}, ~Sending \/ cmd = "zero" \/ n \notin sel
          PROVE  Covered(n)'
      BY <1>1, <2>3, <3>2 DEF BeliefInv, Covered
    <3> QED
      BY <3>1, <3>2
  <2>5. Sending /\ cmd = "enable" => \A n \in sel \cap driving' : Speaks(n)'
    <3>1. m \in driving' => Speaks(m)'
      BY MotorObeys DEF Speaks
    <3>2. ASSUME Sending, cmd = "enable", NEW n \in sel \cap driving', n # m
          PROVE  Speaks(n)'
      BY <1>1, <1>5, <2>3, <3>2 DEF BeliefInv, Speaks
    <3> QED
      BY <3>1, <3>2
  <2>6. Sending /\ cmd = "disable" =>
          \A n \in sel \cap driving' : n \in todo \/ Has(cmds'[n], "disable")
    <3> SUFFICES ASSUME Sending, cmd = "disable", NEW n \in sel \cap driving'
                 PROVE  n \in todo \/ Has(cmds'[n], "disable")
      OBVIOUS
    <3>1. n \in driving /\ n \in Motors
      BY <1>4, <1>5, <2>2
    <3>2. n \in todo \/ Has(cmds[n], "disable")
      BY <3>1 DEF BeliefInv
    <3>3. CASE n = m
      BY <3>2, <3>3, MotorObeys
    <3>4. CASE n # m
      BY <2>3, <3>1, <3>2, <3>4
    <3> QED
      BY <3>3, <3>4
  <2>7. pc \in Rest => driving' = {}
    <3>1. pc \in Rest => ~Sending /\ driving = {}
      BY DEF BeliefInv, Rest, Sending
    <3> QED
      BY <1>4, <2>2, <3>1
  <2> QED
    BY <1>1, <2>4, <2>5, <2>6, <2>7 DEF BeliefInv
<1> QED
  BY <1>6, <1>7

LEMMA BootStep ==
  ASSUME TypeOK, FrameInv, BeliefInv, NEW m \in Motors, MotorBoots(m)
  PROVE  FrameInv' /\ BeliefInv'
<1>1. /\ UNCHANGED <<cmds, driving, enabled, heard, counting, stop, pc, cmd, sel, todo>>
      /\ (Sending' <=> Sending) /\ (Trusted' <=> Trusted)
  BY DEF MotorBoots, Console, loop, Sending, Trusted
<1>2. \A n \in Motors : /\ Has(replies'[n], "off") <=> Has(replies[n], "off")
                        /\ replies[n] # <<>> => replies'[n] # <<>>
  <2>1. CASE UNCHANGED replies
    BY <2>1
  <2>2. CASE replies' = [replies EXCEPT ![m] = Append(@, "plain")]
    <3>1. replies[m] \in Seq(ReplyKinds) /\ "plain" \in ReplyKinds
      BY DEF TypeOK, ReplyKinds
    <3>2. replies'[m] = Append(replies[m], "plain") /\ \A n \in Motors \ {m} : replies'[n] = replies[n]
      BY <2>2 DEF TypeOK
    <3>3. Has(replies'[m], "off") <=> Has(replies[m], "off")
      BY <3>1, <3>2, HasAppend
    <3>4. replies'[m] # <<>>
      BY <3>1, <3>2
    <3> QED
      BY <3>2, <3>3, <3>4
  <2> QED
    BY <2>1, <2>2 DEF MotorBoots
<1>3. \A n \in Motors : (Covered(n) <=> Covered(n)') /\ (Speaks(n) => Speaks(n)')
  BY <1>1, <1>2 DEF Covered, Speaks
<1>4. FrameInv'
  BY <1>1 DEF FrameInv
<1>5. BeliefInv'
  BY <1>1, <1>3 DEF BeliefInv, TypeOK
<1> QED
  BY <1>4, <1>5

LEMMA SignalStep ==
  ASSUME TypeOK, FrameInv, BeliefInv, Signal
  PROVE  FrameInv' /\ BeliefInv'
<1>1. /\ UNCHANGED <<cmds, replies, driving, enabled, heard, counting, pc, cmd, sel, todo>>
      /\ (Sending' <=> Sending) /\ (Trusted' => Trusted) /\ stop'
  BY DEF Signal, supply, belief, loop, Sending, Trusted
<1>2. FrameInv'
  BY <1>1 DEF FrameInv
<1>3. BeliefInv'
  BY <1>1 DEF BeliefInv, Covered, Speaks
<1> QED
  BY <1>2, <1>3

-----------------------------------------------------------------------------
(* The supply, the locals of a command, and the quiet after the cut.         *)
(* Which commands and loops touch the supply.                                *)
LEMMA CommandsKeepSupply ==
  ASSUME UserCommand
  PROVE  UNCHANGED <<rail, driving, booting>> \/ (PowerOnCommand /\ ~powerOn /\ SupplyOn)
BY DEF UserCommand, OtherCommand, PowerOnCommand, ScanCommand, SpecialCommand,
       PowerOffCommand, MitSetCommand, StandCommand, FlashCommand, supply

LEMMA LoopsKeepSupply ==
  ASSUME MainThread
  PROVE  \/ UNCHANGED <<rail, driving, booting>>
         \/ (OffCut \/ CycleCut) /\ SupplyOff
         \/ CycleRestore /\ SupplyOn /\ pc = "cycle_gap"
<1> USE DEF supply, SupplyOffFails
<1>1. CASE ReadLine \/ LoopEnds \/ CloseDriver \/ OnReset \/ OnWait \/ WarmupSend \/ WarmupEnd
  BY <1>1 DEF ReadLine, LoopEnds, CloseDriver, OnReset, OnWait, WarmupSend, WarmupEnd
<1>2. CASE ProbeSend \/ ProbeWait \/ SpecialSend \/ SpecialWait \/ OffWait \/ MitWait
  BY <1>2 DEF ProbeSend, ProbeWait, SpecialSend, SpecialWait, OffWait, MitWait
<1>3. CASE StandVisit \/ StandPeriod \/ StandDone \/ FlashNext \/ FlashedTarget
  BY <1>3 DEF StandVisit, StandPeriod, StandDone, FlashNext, FlashedTarget
<1>4. CASE OffCut \/ CycleCut \/ CycleRestore
  BY <1>4 DEF OffCut, CycleCut, CycleRestore
<1> QED
  BY <1>1, <1>2, <1>3, <1>4 DEF MainThread

LEMMA DriveStep ==
  ASSUME TypeOK, RailInv, DriveInv, Next
  PROVE  DriveInv'
<1>1. CASE UserCommand
  <2>1. UNCHANGED <<rail, driving, booting>> \/ (SupplyOn /\ ~rail)
    BY <1>1, CommandsKeepSupply DEF PowerOnCommand, RailInv
  <2> QED
    BY <2>1 DEF DriveInv, SupplyOn
<1>2. CASE MainThread
  <2>1. \/ UNCHANGED <<rail, driving, booting>>
        \/ SupplyOff
        \/ SupplyOn /\ ~rail
    BY <1>2, LoopsKeepSupply DEF RailInv, CycleRestore
  <2> QED
    BY <2>1 DEF DriveInv, SupplyOff, SupplyOn
<1>3. CASE Receive
  BY <1>3 DEF Receive, RxFrame, RxCount, supply, DriveInv
<1>4. ASSUME NEW m \in Motors, MotorReceives(m) PROVE DriveInv'
  BY <1>4 DEF MotorReceives, DriveInv
<1>5. CASE Environment
  BY <1>4, <1>5 DEF Environment, Signal, FrameLost, MotorBoots, supply, DriveInv
<1> QED
  BY <1>1, <1>2, <1>3, <1>5 DEF Next

LEMMA LocalStep ==
  ASSUME TypeOK, LocalInv, Next
  PROVE  LocalInv'
<1> USE DEF LocalInv, Sending, supply, belief, loop
<1>1. CASE UserCommand
  <2>1. CASE OtherCommand \/ PowerOnCommand \/ ScanCommand \/ MitSetCommand \/ StandCommand
             \/ FlashCommand
    BY <2>1 DEF OtherCommand, PowerOnCommand, ScanCommand, MitSetCommand, StandCommand,
                FlashCommand, StartProbe, Return, Leave
  <2>2. CASE SpecialCommand
    BY <2>2 DEF SpecialCommand, StartSpecial
  <2>3. CASE PowerOffCommand
    BY <2>3 DEF PowerOffCommand, EnterPowerOff, StartSpecial, Leave
  <2> QED
    BY <1>1, <2>1, <2>2, <2>3 DEF UserCommand
<1>2. CASE MainThread
  <2>1. CASE ReadLine \/ CloseDriver \/ OnReset \/ OnWait \/ WarmupSend \/ ProbeSend
    BY <2>1 DEF ReadLine, CloseDriver, OnReset, OnWait, WarmupSend, ProbeSend, Goto,
                StartWarmup, StartProbe
  <2>2. CASE LoopEnds \/ WarmupEnd \/ ProbeWait
    BY <2>2 DEF LoopEnds, WarmupEnd, ProbeWait, FinishPowerOn, EnterPowerOff, StartSpecial,
                StartWarmup, Return, Leave
  <2>3. CASE SpecialSend \/ SpecialWait
    BY <2>3 DEF SpecialSend, SpecialWait, Return, Leave
  <2>4. CASE OffCut \/ OffWait \/ MitWait \/ StandVisit \/ StandPeriod \/ StandDone
    BY <2>4 DEF OffCut, OffWait, MitWait, StandVisit, StandPeriod, StandDone, Goto,
                Return, Leave
  <2>5. CASE FlashNext \/ CycleCut \/ CycleRestore \/ FlashedTarget
    BY <2>5 DEF FlashNext, CycleCut, CycleRestore, FlashedTarget, Goto, Return, Leave
  <2> QED
    BY <1>2, <2>1, <2>2, <2>3, <2>4, <2>5 DEF MainThread
<1>3. CASE Receive \/ Environment
  <2>1. UNCHANGED <<pc, job, cmd, sel, todo>>
    BY <1>3 DEF Receive, RxFrame, RxCount, Environment, Signal, MotorReceives, FrameLost,
                MotorBoots, Console
  <2> QED
    BY <2>1
<1> QED
  BY <1>1, <1>2, <1>3 DEF Next

LEMMA QuietStep ==
  ASSUME TypeOK, RailInv, Orderly, DriveInv, QuietInv, Next
  PROVE  QuietInv'
<1> SUFFICES ASSUME ~powerOn', ~stop', AtTerminal'
             PROVE  (online = {} /\ enabled = {} /\ Quiet /\ ~rail)'
  BY DEF QuietInv
<1>1. CASE UserCommand
  <2>1. CASE OtherCommand \/ PowerOnCommand
    <3>1. powerOn' = powerOn /\ stop' = stop /\ pc = "reading"
      BY <2>1 DEF OtherCommand, PowerOnCommand, belief, Outside
    <3>2. online = {} /\ enabled = {} /\ Quiet /\ ~rail
      BY <3>1 DEF QuietInv, AtTerminal
    <3>3. UNCHANGED <<online, enabled, cmds, replies, counting, rail>>
      BY <2>1, <3>1 DEF OtherCommand, PowerOnCommand, AtTerminal, StartProbe, supply,
                        belief, Outside
    <3> QED
      BY <3>2, <3>3 DEF Quiet
  <2>2. CASE ScanCommand \/ SpecialCommand \/ MitSetCommand \/ StandCommand \/ FlashCommand
    BY <2>2 DEF ScanCommand, SpecialCommand, MitSetCommand, StandCommand, FlashCommand,
                belief, RailInv
  <2>3. CASE PowerOffCommand
    BY <2>3 DEF PowerOffCommand, EnterPowerOff, StartSpecial, Leave, AtTerminal
  <2> QED
    BY <1>1, <2>1, <2>2, <2>3 DEF UserCommand
<1>2. CASE MainThread
  <2>1. CASE ReadLine
    <3>1. UNCHANGED <<powerOn, stop, online, enabled, cmds, replies, counting, rail>> /\ AtTerminal
      BY <2>1 DEF ReadLine, supply, belief, Outside, AtTerminal
    <3> QED
      BY <3>1 DEF QuietInv, Quiet
  <2>2. CASE OffWait
    <3>1. Quiet /\ ~rail
      BY <2>2 DEF OffWait, Elapsed, Orderly, Outside, RailInv
    <3>2. online' = {} /\ enabled' = {} /\ UNCHANGED <<rail, cmds, replies, counting>>
      BY <2>2 DEF OffWait, supply, Outside
    <3> QED
      BY <3>1, <3>2 DEF Quiet
  <2>3. CASE LoopEnds \/ CloseDriver \/ OnReset \/ OnWait
    BY <2>3 DEF LoopEnds, EnterPowerOff, StartSpecial, Leave, CloseDriver, OnReset, Goto,
                OnWait, StartWarmup, StartProbe, AtTerminal
  <2>4. CASE WarmupSend \/ WarmupEnd \/ ProbeSend \/ ProbeWait \/ SpecialSend \/ SpecialWait
    <3>1. powerOn' = powerOn /\ pc \notin Unpowered
      BY <2>4 DEF WarmupSend, WarmupEnd, ProbeSend, ProbeWait, SpecialSend, SpecialWait,
                  belief, Unpowered
    <3> QED
      BY <3>1 DEF RailInv
  <2>5. CASE OffCut \/ MitWait \/ StandVisit \/ StandPeriod \/ StandDone
    <3>1. powerOn' = powerOn /\ pc \notin Unpowered
      BY <2>5 DEF OffCut, MitWait, StandVisit, StandPeriod, StandDone, belief, Unpowered
    <3> QED
      BY <3>1 DEF RailInv
  <2>6. CASE FlashNext \/ CycleCut \/ CycleRestore \/ FlashedTarget
    <3>1. powerOn' = powerOn /\ pc \notin Unpowered
      BY <2>6 DEF FlashNext, CycleCut, CycleRestore, FlashedTarget, belief, Unpowered
    <3> QED
      BY <3>1 DEF RailInv
  <2> QED
    BY <1>2, <2>1, <2>2, <2>3, <2>4, <2>5, <2>6 DEF MainThread
<1>3. CASE Receive \/ Environment
  <2>1. ~Signal
    BY DEF Signal
  <2>2. UNCHANGED <<powerOn, pc, stop>>
    BY <1>3, <2>1 DEF Receive, RxFrame, RxCount, Environment, MotorReceives, FrameLost,
                      MotorBoots, Console, belief
  <2>3. Quiet /\ ~rail
    BY <2>2 DEF QuietInv, AtTerminal
  <2>4. ~Receive
    BY <2>3 DEF Quiet, Receive, RxFrame, RxCount
  <2>5. \A m \in Motors : ~MotorReceives(m) /\ ~FrameLost(m) /\ ~MotorBoots(m)
    BY <2>3 DEF Quiet, MotorReceives, FrameLost, MotorBoots, DriveInv
  <2> QED
    BY <1>3, <2>1, <2>4, <2>5 DEF Environment
<1> QED
  BY <1>1, <1>2, <1>3 DEF Next

-----------------------------------------------------------------------------
(* The parts together.                                                      *)
LEMMA TimelyInit == Init => TimelyInv
<1> SUFFICES ASSUME Init PROVE TimelyInv
  OBVIOUS
<1>1. \A m \in Motors : cmds[m] = <<>> /\ replies[m] = <<>>
  BY DEF Init
<1>2. DriveInv /\ LocalInv
  BY DEF Init, DriveInv, LocalInv, Sending
<1>3. FrameInv
  BY <1>1, HasNone DEF Init, FrameInv, Sending
<1>4. BeliefInv
  BY DEF Init, BeliefInv, Covered, Sending, Rest
<1>5. QuietInv
  BY <1>1 DEF Init, QuietInv, Quiet
<1> QED
  BY <1>2, <1>3, <1>4, <1>5 DEF TimelyInv

LEMMA BeliefStep ==
  ASSUME TypeOK, Orderly, TimelyInv, Next
  PROVE  FrameInv' /\ BeliefInv'
<1> USE DEF TimelyInv
<1>1. CASE UserCommand
  <2>1. ~Sending
    BY <1>1 DEF UserCommand, OtherCommand, PowerOnCommand, ScanCommand, SpecialCommand,
                PowerOffCommand, MitSetCommand, StandCommand, FlashCommand, Sending
  <2> QED
    BY <1>1, <2>1, UserCalm, CalmFrames, CalmBelief
<1>2. CASE MainThread /\ ~Sending
  BY <1>2, MainCalm, CalmFrames, CalmBelief
<1>3. CASE MainThread /\ Sending
  <2>1. SpecialSend \/ SpecialWait
    <3>1. pc \notin Unpowered \cup {"on_wait", "warmup", "probe_send", "probe_wait", "off_cut",
                     "mit_wait", "stand_send", "flash_next", "cycle_cut", "cycle_gap", "flashing"}
      BY <1>3 DEF Sending, Unpowered
    <3> QED
      BY <1>3, <3>1 DEF MainThread, Unpowered, ReadLine, LoopEnds, CloseDriver, OnReset, OnWait,
           WarmupSend, WarmupEnd, ProbeSend, ProbeWait, OffCut, OffWait, MitWait, StandVisit,
           StandPeriod, StandDone, FlashNext, CycleCut, CycleRestore, FlashedTarget
  <2> QED
    BY <2>1, SendStep, WaitStep
<1>4. CASE Receive
  BY <1>4, RxFrameStep, RxCountStep DEF Receive
<1>5. CASE Environment
  <2>1. \A m \in Motors : ~FrameLost(m)
    BY DEF FrameLost, Orderly
  <2> QED
    BY <1>5, <2>1, MotorStep, BootStep, SignalStep DEF Environment
<1> QED
  BY <1>1, <1>2, <1>3, <1>4, <1>5 DEF Next

LEMMA TimelyStep ==
  ASSUME Orderly, TypeOK, RailInv, TimelyInv, [Next]_vars
  PROVE  TimelyInv'
<1>1. CASE Next
  <2>1. DriveInv'
    BY <1>1, DriveStep DEF TimelyInv
  <2>2. LocalInv'
    BY <1>1, LocalStep DEF TimelyInv
  <2>3. FrameInv' /\ BeliefInv'
    BY <1>1, BeliefStep
  <2>4. QuietInv'
    BY <1>1, QuietStep DEF TimelyInv
  <2> QED
    BY <2>1, <2>2, <2>3, <2>4 DEF TimelyInv
<1>2. CASE UNCHANGED vars
  <2>1. DriveInv' /\ LocalInv'
    BY <1>2 DEF vars, TimelyInv, DriveInv, LocalInv, Sending
  <2>2. FrameInv'
    BY <1>2 DEF vars, TimelyInv, FrameInv, Sending, Trusted, Has
  <2>3. BeliefInv'
    BY <1>2 DEF vars, TimelyInv, BeliefInv, Sending, Trusted, Has, Covered, Speaks
  <2>4. QuietInv'
    BY <1>2 DEF vars, TimelyInv, QuietInv, Quiet, AtTerminal
  <2> QED
    BY <2>1, <2>2, <2>3, <2>4 DEF TimelyInv
<1> QED
  BY <1>1, <1>2

(* The whole invariant, with the facts about types and the supply it rests on. *)
THEOREM ConsoleTimely ==
  ASSUME Orderly PROVE Spec => [](TypeOK /\ RailInv /\ TimelyInv)
<1>1. Init => RailInv /\ TimelyInv
  BY RailInit, TimelyInit
<1>2. TypeOK /\ RailInv /\ TimelyInv /\ [Next]_vars => RailInv' /\ TimelyInv'
  BY RailStep, TimelyStep
<1> QED
  BY <1>1, <1>2, ConsoleTyped, PTL DEF Spec

(* Back at the terminal a driving motor is recorded as enabled, so what ZERO,  *)
(* power_off and the flash commands decide on the flags alone is right.        *)
THEOREM ConsoleBeliefCoversDriving ==
  ASSUME Orderly PROVE Spec => []BeliefCoversDriving
<1>1. TypeOK /\ TimelyInv => BeliefCoversDriving
  BY DEF TypeOK, TimelyInv, BeliefInv, BeliefCoversDriving, AtTerminal, Sending, Trusted, Covered
<1> QED
  BY <1>1, ConsoleTimely, PTL

(* A zero frame is never at the head of a driving motor's queue: the refusal    *)
(* of console_send_special is good until the frame arrives.                     *)
THEOREM ConsoleZeroAtRest ==
  ASSUME Orderly PROVE Spec => []ZeroAtRest
<1>1. TypeOK /\ TimelyInv => ZeroAtRest
  <2> SUFFICES ASSUME TypeOK, TimelyInv, NEW m \in Motors, cmds[m] # <<>>, Head(cmds[m]) = "zero"
               PROVE  m \notin driving
    BY DEF ZeroAtRest
  <2>1. Has(cmds[m], "zero")
    BY HasTail DEF TypeOK
  <2> QED
    BY <2>1 DEF TimelyInv, FrameInv
<1> QED
  BY <1>1, ConsoleTimely, PTL

(* With the power off and no stop requested no motor is believed online or      *)
(* enabled: the wait of console_power_off after the cut is long enough.         *)
THEOREM ConsoleQuietWhenOff ==
  ASSUME Orderly PROVE Spec => []QuietWhenOff
<1>1. TimelyInv => QuietWhenOff
  BY DEF TimelyInv, QuietInv, QuietWhenOff
<1> QED
  BY <1>1, ConsoleTimely, PTL

(* motor_pwr_set(0) meets motors at rest, in power_off, at exit and in the       *)
(* power cycle of a flash, unless a stop was requested.                          *)
THEOREM ConsoleCutAtRest ==
  ASSUME Orderly PROVE Spec => CutAtRest
<1>1. TypeOK /\ TimelyInv /\ [Next]_vars => [rail /\ ~rail' /\ ~stop => driving = {}]_vars
  <2> SUFFICES ASSUME TimelyInv, Next, rail, ~rail', ~stop PROVE driving = {}
    OBVIOUS
  <2>1. CASE UserCommand
    BY <2>1, CommandsKeepSupply DEF SupplyOn
  <2>2. CASE MainThread
    <3>1. pc \in Rest
      BY <2>2, LoopsKeepSupply DEF SupplyOn, OffCut, CycleCut, Rest
    <3> QED
      BY <3>1 DEF TimelyInv, BeliefInv, Trusted
  <2>3. CASE Receive \/ Environment
    BY <2>3, OthersLeaveRail
  <2> QED
    BY <2>1, <2>2, <2>3 DEF Next
<1> QED
  BY <1>1, ConsoleTimely, PTL DEF Spec, CutAtRest
=============================================================================
