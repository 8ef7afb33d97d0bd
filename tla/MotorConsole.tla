---------------------------- MODULE MotorConsole ----------------------------
(***************************************************************************)
(* The interactive console of motor_console: the terminal loop, the power, *)
(* scan, special-frame and motion commands, the power cycle of the flash   *)
(* commands, the exit path of main(), and the driver's receive thread that *)
(* updates the same per-motor records with no lock.                        *)
(*                                                                         *)
(* Two threads move: the main thread, whose place in the code is pc, and   *)
(* the receive thread running can_rx_callback.  The supply, the motors and *)
(* the CAN buses are the environment: frames travel in one queue per motor *)
(* and direction, and a reply may be slow, lost, or arrive after the       *)
(* command that caused it has given up.                                    *)
(*                                                                         *)
(* rx_count is read only to ask whether it moved since a command took its  *)
(* copy before[], so the pair is modelled by heard, the set of motors for  *)
(* which it did.  heard, cmd, sel and todo are locals of a command: they   *)
(* are reset when it is done with them.                                    *)
(***************************************************************************)
EXTENDS Naturals, Sequences, FiniteSets

CONSTANTS
  Motors,   (* the configured motors, state->config.entries                *)
  Depth,    (* bound: frames in flight in one queue                        *)
  Faults,   (* what may go wrong: "loss" of a frame, "tx" a failing        *)
            (* canfd_send_packet, "supply" a failing motor_pwr_set         *)
  Timely    (* the waits that outlast every frame in flight                *)

Waits == {"on_wait", "probe_wait", "special_wait", "mit_wait", "off_wait"}

ASSUME ConsoleAssumption ==
  /\ Depth \in Nat \ {0}
  /\ Faults \subseteq {"loss", "tx", "supply"}
  /\ Timely \subseteq Waits

VARIABLES
  rail,      (* the supply is on                                           *)
  driving,   (* the motors whose drive stage is enabled                    *)
  booting,   (* the powered motors still in their bootloader               *)
  cutFailed, (* history: the last effective supply call was a failed cut   *)
  cmds,      (* cmds[m]: frames on their way to motor m                    *)
  replies,   (* replies[m]: frames from m the callback has not seen yet    *)
  powerOn,   (* state->motor_power_on                                      *)
  online,    (* the motors whose online flag is set                        *)
  enabled,   (* the motors whose enabled flag is set                       *)
  heard,     (* the motors with rx_count # before[]                        *)
  counting,  (* the motor whose rx_count++ the callback has yet to do      *)
  stop,      (* stop_requested                                             *)
  pc,        (* where the main thread is                                   *)
  job,       (* the terminal command it runs                               *)
  cmd,       (* the special frame being sent                               *)
  sel,       (* the motors it is sent to                                   *)
  todo       (* the motors of the current send loop still to be visited    *)

supply == <<rail, driving, booting, cutFailed>>
belief == <<powerOn, online, enabled>>
loop   == <<cmd, sel, todo>>
vars   == <<rail, driving, booting, cutFailed, cmds, replies, powerOn, online,
            enabled, heard, counting, stop, pc, job, cmd, sel, todo>>

Specials   == {"enable", "disable", "zero"}
Frames     == Specials \cup {"mit", "motion", "reset"}
ReplyKinds == {"plain", "on", "off"}
Jobs       == {"none", "power_on", "motor_probe", "motor_scan", "power_off", "quit",
               "exit", "special", "mit_set", "stand", "flash_cycle", "flash"}
Places     == Waits \cup {"prompt", "reading", "on_reset", "warmup", "probe_send",
               "special_send", "off_cut", "stand_send", "flash_next", "cycle_cut",
               "cycle_gap", "flashing", "closing", "exited"}

TypeOK ==
  /\ rail \in BOOLEAN /\ cutFailed \in BOOLEAN
  /\ driving \subseteq Motors /\ booting \subseteq Motors
  /\ cmds \in [Motors -> Seq(Frames)]
  /\ replies \in [Motors -> Seq(ReplyKinds)]
  /\ powerOn \in BOOLEAN /\ stop \in BOOLEAN
  /\ online \subseteq Motors /\ enabled \subseteq Motors
  /\ heard \subseteq Motors /\ counting \subseteq Motors
  /\ pc \in Places /\ job \in Jobs /\ cmd \in Specials
  /\ sel \subseteq Motors /\ todo \subseteq Motors
  /\ pc = "special_send" => todo \subseteq sel

Init ==
  /\ rail = FALSE /\ driving = {} /\ booting = {} /\ cutFailed = FALSE
  /\ cmds = [m \in Motors |-> <<>>] /\ replies = [m \in Motors |-> <<>>]
  /\ powerOn = FALSE /\ online = {} /\ enabled = {}
  /\ heard = {} /\ counting = {} /\ stop = FALSE
  /\ pc = "prompt" /\ job = "none" /\ cmd = "disable" /\ sel = {} /\ todo = {}

-----------------------------------------------------------------------------
(* Parts of the main thread's steps.                                       *)

(* Nothing is on its way between the motors and the callback.              *)
Quiet ==
  /\ \A m \in Motors : cmds[m] = <<>> /\ replies[m] = <<>>
  /\ counting = {}

(* sleep_ms and the deadline loops end early when a stop is requested.      *)
Elapsed == stop \/ pc \notin Timely \/ Quiet

(* send_debug_packet: one attempt, which fails without a trace on the bus.  *)
Put(m, f) ==
  /\ Len(cmds[m]) < Depth
  /\ cmds' = [cmds EXCEPT ![m] = Append(@, f)]
PutFails == "tx" \in Faults /\ UNCHANGED cmds
Transmit(m, f) == Put(m, f) \/ PutFails

Goto(p) == pc' = p /\ UNCHANGED <<job, cmd, sel, todo>>

(* A command leaves: its locals are gone.                                   *)
Leave(p, j) ==
  /\ pc' = p /\ job' = j
  /\ cmd' = "disable" /\ sel' = {} /\ todo' = {} /\ heard' = {}

Return == Leave("prompt", "none")

(* motor_pwr_set(0): it works, or fails and changes nothing.                *)
SupplyOff ==
  /\ rail' = FALSE /\ driving' = {} /\ booting' = {} /\ cutFailed' = FALSE
  /\ cmds' = [m \in Motors |-> <<>>]
SupplyOffFails ==
  /\ "supply" \in Faults
  /\ cutFailed' = TRUE
  /\ UNCHANGED <<rail, driving, booting, cmds>>
SupplyOn ==
  /\ rail' = TRUE /\ booting' = Motors /\ cutFailed' = FALSE
  /\ UNCHANGED <<driving, cmds>>

(* Mutant: the send loop forgets to skip the motors that were not selected. *)
StartSpecialToAll(j, c, s) ==
  /\ job' = j /\ cmd' = c /\ sel' = s /\ todo' = Motors
  /\ heard' = {} /\ pc' = "special_send"
  /\ UNCHANGED enabled

(* console_send_special after its checks: copy rx_count, start sending.     *)
StartSpecial(j, c, s) ==
  /\ job' = j /\ cmd' = c /\ sel' = s /\ todo' = s
  /\ heard' = {} /\ pc' = "special_send"
  /\ UNCHANGED enabled

(* console_probe_motors after console_require_power.                        *)
StartProbe(j) ==
  /\ job' = j /\ todo' = Motors /\ online' = {} /\ heard' = {}
  /\ pc' = "probe_send"
  /\ UNCHANGED <<enabled, cmd, sel>>

StartWarmup ==
  /\ pc' = "warmup"
  /\ todo' = Motors /\ heard' = {}
  /\ UNCHANGED <<enabled, job, cmd, sel>>

(* Mutant: the supply is cut without telling the motors to disable.         *)
EnterPowerOffAtOnce(j) == Leave("off_cut", j) /\ UNCHANGED enabled

(* console_power_off: nothing to do when already off; otherwise every motor *)
(* is told to disable if any is believed enabled, and then comes the cut.    *)
EnterPowerOff(j) ==
  \/ /\ enabled # {}
     /\ StartSpecial(j, "disable", Motors)
  \/ /\ enabled = {}
     /\ Leave("off_cut", j)
     /\ UNCHANGED enabled

Outside == UNCHANGED <<replies, counting, stop>>

-----------------------------------------------------------------------------
(* The terminal.                                                           *)

(* Mutant: the loop does not look at the stop request.                      *)
ReadLineAlways ==
  /\ pc = "prompt"
  /\ Goto("reading")
  /\ UNCHANGED <<supply, cmds, belief, heard>> /\ Outside

(* The loop test of console_terminal; from here the thread blocks in read(). *)
ReadLine ==
  /\ pc = "prompt" /\ ~stop
  /\ Goto("reading")
  /\ UNCHANGED <<supply, cmds, belief, heard>> /\ Outside

(* Mutant: main() closes the driver without looking at the supply.          *)
LoopEndsUnpowered ==
  /\ \/ pc = "prompt" /\ stop
     \/ pc = "reading"
  /\ Leave("closing", "none")
  /\ UNCHANGED <<supply, cmds, belief>> /\ Outside

(* The loop ends on a stop request or at end of input, and main() powers    *)
(* off if it believes the supply is on.                                     *)
LoopEnds ==
  /\ \/ pc = "prompt" /\ stop
     \/ pc = "reading"
  /\ \/ powerOn /\ EnterPowerOff("exit")
     \/ ~powerOn /\ Leave("closing", "none") /\ UNCHANGED enabled
  /\ UNCHANGED <<supply, cmds, powerOn, online>> /\ Outside

CloseDriver ==
  /\ pc = "closing"
  /\ Goto("exited")
  /\ UNCHANGED <<supply, cmds, belief, heard>> /\ Outside

(* Any other line, a refused command or one that touches none of this.      *)
OtherCommand ==
  /\ pc = "reading"
  /\ Return
  /\ UNCHANGED <<supply, cmds, belief>> /\ Outside

(* power_on and motor_probe.  Switched on already, power_on only rescans    *)
(* and motor_probe is refused (OtherCommand).                               *)
PowerOnCommand ==
  /\ pc = "reading"
  /\ \/ /\ powerOn
        /\ StartProbe("motor_scan")
        /\ UNCHANGED <<supply, cmds>>
     \/ /\ ~powerOn
        /\ SupplyOn
        /\ job' \in {"power_on", "motor_probe"}
        /\ pc' = "on_reset"
        /\ UNCHANGED <<online, enabled, heard, loop>>
  /\ UNCHANGED powerOn /\ Outside

OnReset ==
  /\ pc = "on_reset"
  /\ powerOn' = TRUE /\ online' = {} /\ heard' = {}
  /\ Goto("on_wait")
  /\ UNCHANGED <<supply, cmds, enabled>> /\ Outside

(* What follows the scan: power_on is done, motor_probe powers off.         *)
FinishPowerOn ==
  \/ job # "motor_probe" /\ Return /\ UNCHANGED enabled
  \/ job = "motor_probe" /\ EnterPowerOff("motor_probe")

(* The wait for the motors to speak up by themselves after power-on.        *)
OnWait ==
  /\ pc = "on_wait" /\ Elapsed
  /\ \/ heard # {} /\ StartWarmup /\ online' = heard
     \/ heard = {} /\ StartProbe(job)
  /\ UNCHANGED <<supply, cmds, powerOn>> /\ Outside

(* console_can_warmup sends a number of zero-gain frames to the online motors *)
(* (at most one each here) and gives up on a stop request or a failed send.    *)
WarmupSend ==
  /\ pc = "warmup" /\ ~stop
  /\ \E m \in todo \cap online :
        \/ Put(m, "mit") /\ todo' = todo \ {m}
        \/ PutFails /\ todo' = {}
  /\ UNCHANGED <<supply, belief, heard, pc, job, cmd, sel>> /\ Outside

WarmupEnd ==
  /\ pc = "warmup"
  /\ FinishPowerOn
  /\ UNCHANGED <<supply, cmds, powerOn, online>> /\ Outside

ScanCommand ==
  /\ pc = "reading" /\ powerOn
  /\ StartProbe("motor_scan")
  /\ UNCHANGED <<supply, cmds, powerOn>> /\ Outside

ProbeSend ==
  /\ pc = "probe_send"
  /\ \E m \in todo : Transmit(m, "mit") /\ todo' = todo \ {m}
  /\ pc' = IF todo' = {} THEN "probe_wait" ELSE pc
  /\ UNCHANGED <<supply, belief, heard, job, cmd, sel>> /\ Outside

ProbeWait ==
  /\ pc = "probe_wait" /\ Elapsed
  /\ online' = heard
  /\ \/ job = "motor_scan" /\ Return /\ UNCHANGED enabled
     \/ job # "motor_scan" /\ heard # {} /\ StartWarmup
     \/ job # "motor_scan" /\ heard = {} /\ FinishPowerOn
  /\ UNCHANGED <<supply, cmds, powerOn>> /\ Outside

-----------------------------------------------------------------------------
(* Special frames, motion, power off.                                      *)

(* Mutant: zero is refused only when every selected motor is enabled.        *)
ZeroRefusedForAll(s) == s \subseteq enabled

(* A zero frame is refused while a selected motor is recorded as enabled.   *)
ZeroRefused(s) == s \cap enabled # {}

SpecialCommand ==
  /\ pc = "reading" /\ powerOn
  /\ \E c \in Specials, s \in {Motors} \cup {{m} : m \in Motors} :
        /\ ~(c = "zero" /\ ZeroRefused(s))
        /\ StartSpecial("special", c, s)
  /\ UNCHANGED <<supply, cmds, powerOn, online>> /\ Outside

(* Mutant: before[] is taken after the sends, and misses an early reply.     *)
SpecialSendLateCopy ==
  /\ pc = "special_send"
  /\ \E m \in todo : Transmit(m, cmd) /\ todo' = todo \ {m}
  /\ IF todo' = {} THEN pc' = "special_wait" /\ heard' = {}
                   ELSE UNCHANGED <<pc, heard>>
  /\ UNCHANGED <<supply, belief, job, cmd, sel>> /\ Outside

SpecialSend ==
  /\ pc = "special_send"
  /\ \E m \in todo : Transmit(m, cmd) /\ todo' = todo \ {m}
  /\ pc' = IF todo' = {} THEN "special_wait" ELSE pc
  /\ UNCHANGED <<supply, belief, heard, job, cmd, sel>> /\ Outside

(* The flags after the wait: an enable frame writes every selected motor's,  *)
(* set or cleared by whether anything was heard; a disable frame only clears  *)
(* the flags of motors that were heard.                                       *)
EnabledAfter ==
  CASE cmd = "enable"  -> (enabled \ sel) \cup (sel \cap heard)
    [] cmd = "disable" -> enabled \ (sel \cap heard)
    [] cmd = "zero"    -> enabled

SpecialWait ==
  /\ pc = "special_wait" /\ Elapsed
  /\ enabled' = EnabledAfter
  /\ \/ job = "special" /\ Return
     \/ job # "special" /\ Leave("off_cut", job)
  /\ UNCHANGED <<supply, cmds, powerOn, online>> /\ Outside

PowerOffCommand ==
  /\ pc = "reading"
  /\ \/ powerOn /\ \E j \in {"power_off", "quit"} : EnterPowerOff(j)
     \/ ~powerOn /\ Leave("closing", "none") /\ UNCHANGED enabled
  /\ UNCHANGED <<supply, cmds, powerOn, online>> /\ Outside

(* Mutant: the result of motor_pwr_set(0) is ignored.                        *)
OffCutUnchecked ==
  /\ pc = "off_cut"
  /\ SupplyOff \/ SupplyOffFails
  /\ Goto("off_wait")
  /\ UNCHANGED <<belief, heard>> /\ Outside

(* A failed cut leaves motor_power_on set; quit then stays in the terminal,  *)
(* the exit path of main() does not look at the result.                      *)
OffCut ==
  /\ pc = "off_cut"
  /\ \/ SupplyOff /\ Goto("off_wait") /\ UNCHANGED heard
     \/ SupplyOffFails /\ job = "exit" /\ Leave("closing", "none")
     \/ SupplyOffFails /\ job # "exit" /\ Return
  /\ UNCHANGED belief /\ Outside

(* Mutant: no wait between the cut and the reset of the flags.               *)
OffWaitSkipped ==
  /\ pc = "off_wait"
  /\ powerOn' = FALSE /\ online' = {} /\ enabled' = {}
  /\ \/ job \in {"quit", "exit"} /\ Leave("closing", "none")
     \/ job \notin {"quit", "exit"} /\ Return
  /\ UNCHANGED <<supply, cmds>> /\ Outside

OffWait ==
  /\ pc = "off_wait" /\ Elapsed
  /\ powerOn' = FALSE /\ online' = {} /\ enabled' = {}
  /\ \/ job \in {"quit", "exit"} /\ Leave("closing", "none")
     \/ job \notin {"quit", "exit"} /\ Return
  /\ UNCHANGED <<supply, cmds>> /\ Outside

(* mit_set asks for the enabled flag alone.                                  *)
MayMove(m) == m \in enabled

MitSetCommand ==
  /\ pc = "reading" /\ powerOn
  /\ \E m \in Motors :
        /\ MayMove(m)
        /\ \/ /\ Put(m, "motion")
              /\ pc' = "mit_wait" /\ sel' = {m} /\ job' = "mit_set"
              /\ UNCHANGED <<heard, cmd, todo>>
           \/ PutFails /\ Return
  /\ UNCHANGED <<supply, belief>> /\ Outside

(* Mutant: the wait for the reply has no deadline.                           *)
MitWaitForever ==
  /\ pc = "mit_wait" /\ sel \subseteq heard
  /\ Return
  /\ UNCHANGED <<supply, cmds, belief>> /\ Outside

MitWait ==
  /\ pc = "mit_wait" /\ (Elapsed \/ sel \subseteq heard)
  /\ Return
  /\ UNCHANGED <<supply, cmds, belief>> /\ Outside

(* stand_up and stand_sine stream frames to the motors online and enabled at  *)
(* the moment the loop visits them, stand_sine not to the grippers; the stop   *)
(* flag is read once per period.                                              *)
StandCommand ==
  /\ pc = "reading" /\ powerOn /\ online \cap enabled # {}
  /\ pc' = "stand_send" /\ job' = "stand" /\ todo' = Motors
  /\ UNCHANGED <<supply, cmds, belief, heard, cmd, sel>> /\ Outside

StandVisit ==
  /\ pc = "stand_send"
  /\ \E m \in todo :
        /\ todo' = todo \ {m}
        /\ \/ m \in online \cap enabled /\ Transmit(m, "motion")
           \/ UNCHANGED cmds
  /\ UNCHANGED <<supply, belief, heard, pc, job, cmd, sel>> /\ Outside

StandPeriod ==
  /\ pc = "stand_send" /\ todo = {} /\ ~stop
  /\ todo' = Motors
  /\ UNCHANGED <<supply, cmds, belief, heard, pc, job, cmd, sel>> /\ Outside

StandDone ==
  /\ pc = "stand_send" /\ todo = {}
  /\ Return
  /\ UNCHANGED <<supply, cmds, belief>> /\ Outside

-----------------------------------------------------------------------------
(* flash_single and flash_all.  A target enters its bootloader after a power  *)
(* cycle of the whole supply, which leaves motor_power_on alone, or after a    *)
(* reset command; a target whose record says boot_menu skips both.            *)

FlashCommand ==
  /\ pc = "reading" /\ powerOn /\ enabled = {}
  /\ todo' \in {Motors} \cup {{m} : m \in Motors}
  /\ job' \in {"flash_cycle", "flash"}
  /\ pc' = "flash_next"
  /\ UNCHANGED <<supply, cmds, belief, heard, cmd, sel>> /\ Outside

FlashNext ==
  /\ pc = "flash_next"
  /\ \/ ~stop /\ \E m \in todo :
           /\ sel' = {m} /\ todo' = todo \ {m}
           /\ \/ job = "flash_cycle" /\ pc' = "cycle_cut" /\ UNCHANGED cmds
              \/ job = "flash" /\ Put(m, "reset") /\ pc' = "flashing"
              \/ job = "flash" /\ PutFails /\ UNCHANGED pc
              \/ pc' = "flashing" /\ UNCHANGED cmds
           /\ UNCHANGED <<job, cmd, heard>>
     \/ (stop \/ todo = {}) /\ Return /\ UNCHANGED cmds
  /\ UNCHANGED <<supply, belief>> /\ Outside

CycleCut ==
  /\ pc = "cycle_cut"
  /\ \/ SupplyOff /\ Goto("cycle_gap")
     \/ SupplyOffFails /\ Goto("flash_next")
  /\ UNCHANGED <<belief, heard>> /\ Outside

CycleRestore ==
  /\ pc = "cycle_gap"
  /\ \/ SupplyOn /\ Goto("flashing")
     \/ "supply" \in Faults /\ UNCHANGED <<supply, cmds>> /\ Goto("flash_next")
  /\ UNCHANGED <<belief, heard>> /\ Outside

(* The transfer succeeds and the target's record is wiped, or it fails.       *)
FlashedTarget ==
  /\ pc = "flashing"
  /\ \/ online' = online \ sel /\ enabled' = enabled \ sel
     \/ UNCHANGED <<online, enabled>>
  /\ Goto("flash_next")
  /\ UNCHANGED <<supply, cmds, powerOn, heard>> /\ Outside

-----------------------------------------------------------------------------
(* The receive thread, can_rx_callback: the flags first, rx_count++ last.    *)

EnabledOnReply(m, k) ==
  CASE k = "on"  -> enabled \cup {m}
    [] k = "off" -> enabled \ {m}
    [] OTHER     -> enabled

RxFrame(m) ==
  /\ pc # "exited" /\ counting = {} /\ replies[m] # <<>>
  /\ replies' = [replies EXCEPT ![m] = Tail(@)]
  /\ online' = online \cup {m}
  /\ enabled' = EnabledOnReply(m, Head(replies[m]))
  /\ counting' = {m}
  /\ UNCHANGED <<supply, cmds, powerOn, heard, stop, pc, job, loop>>

(* The places at which a before[] is alive: console_power_on, the probe, the  *)
(* special frames and mit_set each take one before they send and compare it   *)
(* with rx_count after their wait.                                            *)
Listening == {"on_wait", "probe_send", "probe_wait", "special_send", "special_wait",
              "mit_wait"}

RxCount ==
  /\ pc # "exited" /\ counting # {}
  /\ counting' = {}
  /\ heard' = IF pc \in Listening THEN heard \cup counting ELSE heard
  /\ UNCHANGED <<supply, cmds, replies, belief, stop, pc, job, loop>>

-----------------------------------------------------------------------------
(* The environment: motors, buses, the user's signal.                      *)

Console == <<powerOn, online, enabled, heard, counting, stop, pc, job, loop>>

(* A motor that has booted obeys special frames and the reset, and answers    *)
(* every other frame; the answer may carry its drive state.                   *)
Answers(m) == {"plain", IF m \in driving' THEN "on" ELSE "off"}

MotorReceives(m) ==
  /\ pc # "exited" /\ cmds[m] # <<>>
  /\ cmds' = [cmds EXCEPT ![m] = Tail(@)]
  /\ LET frame == Head(cmds[m]) IN
     \/ /\ rail /\ m \notin booting /\ frame # "reset"
        /\ driving' = CASE frame = "enable"  -> driving \cup {m}
                        [] frame = "disable" -> driving \ {m}
                        [] OTHER             -> driving
        /\ Len(replies[m]) < Depth
        /\ \E k \in Answers(m) : replies' = [replies EXCEPT ![m] = Append(@, k)]
        /\ UNCHANGED booting
     \/ /\ rail /\ m \notin booting /\ frame = "reset"
        /\ driving' = driving \ {m} /\ booting' = booting \cup {m}
        /\ UNCHANGED replies
     \/ /\ ~rail \/ m \in booting
        /\ UNCHANGED <<driving, booting, replies>>
  /\ UNCHANGED <<rail, cutFailed>> /\ UNCHANGED Console

FrameLost(m) ==
  /\ pc # "exited" /\ "loss" \in Faults
  /\ \/ cmds[m] # <<>> /\ cmds' = [cmds EXCEPT ![m] = Tail(@)] /\ UNCHANGED replies
     \/ replies[m] # <<>> /\ replies' = [replies EXCEPT ![m] = Tail(@)] /\ UNCHANGED cmds
  /\ UNCHANGED supply /\ UNCHANGED Console

(* The bootloader hands over to the application, with or without boot text.  *)
MotorBoots(m) ==
  /\ pc # "exited" /\ m \in booting
  /\ booting' = booting \ {m}
  /\ \/ Len(replies[m]) < Depth /\ replies' = [replies EXCEPT ![m] = Append(@, "plain")]
     \/ UNCHANGED replies
  /\ UNCHANGED <<rail, driving, cutFailed, cmds>> /\ UNCHANGED Console

Signal ==
  /\ pc # "exited" /\ ~stop
  /\ stop' = TRUE
  /\ UNCHANGED <<supply, cmds, replies, belief, heard, counting, pc, job, loop>>

-----------------------------------------------------------------------------
UserCommand ==
  \/ OtherCommand \/ PowerOnCommand \/ ScanCommand \/ SpecialCommand
  \/ PowerOffCommand \/ MitSetCommand \/ StandCommand \/ FlashCommand

MainThread ==
  \/ ReadLine \/ LoopEnds \/ CloseDriver
  \/ OnReset \/ OnWait \/ WarmupSend \/ WarmupEnd \/ ProbeSend \/ ProbeWait
  \/ SpecialSend \/ SpecialWait \/ OffCut \/ OffWait \/ MitWait
  \/ StandVisit \/ StandPeriod \/ StandDone
  \/ FlashNext \/ CycleCut \/ CycleRestore \/ FlashedTarget

Receive == RxCount \/ \E m \in Motors : RxFrame(m)

Environment ==
  \/ Signal
  \/ \E m \in Motors : MotorReceives(m) \/ FrameLost(m) \/ MotorBoots(m)

Next == UserCommand \/ MainThread \/ Receive \/ Environment

Spec == Init /\ [][Next]_vars

(* The main thread keeps moving except inside read(), a stream of motion       *)
(* frames has a last period, and the receive thread and the motors are not     *)
(* stuck.  Nothing is assumed of the user, of the signal, or of lost frames.   *)
Fairness ==
  /\ WF_vars(MainThread /\ pc # "reading") /\ SF_vars(StandDone)
  /\ WF_vars(Receive)
  /\ \A m \in Motors : WF_vars(MotorReceives(m))

FairSpec == Spec /\ Fairness

-----------------------------------------------------------------------------
(* Properties.                                                             *)

(* The console never forgets a live supply: while motor_power_on is clear    *)
(* the supply is off, but for the instant between motor_pwr_set(1) and the   *)
(* assignment, whatever fails and whenever a stop is requested.  quit, the   *)
(* exit path of main() and console_require_power rely on it.                 *)
LiveRailKnown == ~powerOn /\ rail => pc = "on_reset"

(* The console implements a power session: the program never ends with the   *)
(* supply on unless its last effective call was a switch-off that failed.    *)
Session == INSTANCE PowerSession WITH open <- pc # "exited"
SessionSpec == Session!Spec

AtTerminal == pc \in {"prompt", "reading"}

(* Back at the terminal, every motor whose drive stage is enabled is recorded *)
(* as enabled: what ZERO and flashing are refused on.  It needs every frame    *)
(* delivered within the waits, and no stop request cutting a wait short.       *)
BeliefCoversDriving == AtTerminal /\ ~stop => driving \subseteq enabled

(* A zero frame never reaches a motor whose drive stage is enabled, although   *)
(* the flag is read before the first frame is sent and the callback writes it. *)
ZeroAtRest ==
  \A m \in Motors :
    rail /\ cmds[m] # <<>> /\ Head(cmds[m]) = "zero" => m \notin driving

(* The supply is cut under an enabled motor only after a stop request: both    *)
(* power_off and the power cycle of a flash come after DISABLE was obeyed.      *)
CutAtRest == [][rail /\ ~rail' /\ ~stop => driving = {}]_vars

(* With the power off the console believes no motor online or enabled: the     *)
(* wait after the cut outlasts the replies still on their way.                 *)
QuietWhenOff == AtTerminal /\ ~powerOn /\ ~stop => online = {} /\ enabled = {}

(* Every command comes back to the prompt or ends the program, whatever is     *)
(* lost and however slow the motors are.                                       *)
CommandsReturn == pc # "reading" ~> pc \in {"reading", "exited"}

(* A stop request that finds a command running ends the program.               *)
StopEndsSession == stop /\ pc # "reading" ~> pc = "exited"

(* README.md:107: Ctrl+C aborts the current operation and exits, at the prompt *)
(* too; but signal() restarts the read() that waits for a key.                 *)
CtrlCEndsSession == stop ~> pc = "exited"

(* README.md:238: a motor is recorded enabled or disabled only after it        *)
(* answered the command.                                                       *)
RecordedOnlyAfterReply ==
  [][pc = "special_wait" /\ pc' # pc =>
       \A m \in Motors : (m \in enabled) # (m \in enabled') => m \in heard]_vars

=============================================================================
