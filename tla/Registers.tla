----------------------------- MODULE Registers -----------------------------
(***************************************************************************)
(* The register commands reg_read, reg_write, reg_save and reg_info, for   *)
(* one motor or all, the version scan of power_on, and the read of         *)
(* mit_aux_enable by motor_reply, over the one frame_ring of all buses.    *)
(*                                                                         *)
(* A motor is <<bus, id>>.  The CAN id of a register frame holds the       *)
(* command and the motor's id; a reply names neither its bus's motor by    *)
(* more than that nor its register.  reg in a reply is a ghost: the host   *)
(* never looks at it.                                                      *)
(***************************************************************************)
EXTENDS Naturals, Sequences, FiniteSets, Functions

CONSTANTS
  Buses, Ids, (* the motors are Buses \X Ids                               *)
  RingSize,   (* FRAME_RING_SIZE, 256 in the code                          *)
  Depth,      (* bound: register frames on the buses                       *)
  Given,      (* bound: the register commands the user gives               *)
  Asked,      (* bound: the registers they name                            *)
  Faults      (* "loss" of a frame, "late" replies, "tx" a failing send,   *)
              (* "noise": other frames in the ring                         *)

ASSUME RegistersAssumption ==
  /\ Buses # {} /\ Ids # {}
  /\ RingSize \in Nat \ {0} /\ Depth \in Nat \ {0}
  /\ Faults \subseteq {"loss", "late", "tx", "noise"}
  /\ Given \subseteq {"read", "write", "save", "info"}
  /\ Asked \subseteq {"version", "aux", "other"}

Motors == Buses \X Ids
Bus(m) == m[1]
Id(m)  == m[2]

VARIABLES
  aux,       (* the motors whose mit_aux_enable is 1                       *)
  requests,  (* requests[m]: register requests on their way to m           *)
  replies,   (* replies[m]: replies on their way from m                    *)
  ring,      (* frame_ring                                                 *)
  auxOn,     (* the motors whose record says mit_aux_enabled               *)
  version,   (* version[m]: {}, or the motor whose value m's record holds  *)
             (* as its config version                                      *)
  pc,        (* "prompt", "send", "wait" or "next"                         *)
  job,       (* the command                                                *)
  reg, on,   (* its register, and the value it writes                      *)
  target,    (* the motor it is talking to                                 *)
  todo,      (* the motors still to be visited                             *)
  stop,      (* stop_requested                                             *)
  overtaken  (* history: an earlier request may still be answered          *)

motor == <<aux, requests, replies>>
known == <<auxOn, version>>
call  == <<job, reg, on, target, todo>>
vars  == <<aux, requests, replies, ring, auxOn, version, pc, job, reg, on,
           target, todo, stop, overtaken>>

Regs     == {"version", "aux", "other"}   (* 0x7c, 0x6d and the rest       *)
Commands == {"read", "write", "save", "info"}
Jobs     == Commands \cup {"scan", "reply"}
Request  == [cmd : Commands, reg : Regs, on : BOOLEAN]
Reply    == [from : Motors, cmd : Commands, reg : Regs, ok : BOOLEAN, on : BOOLEAN]
Noise    == [cmd |-> "none"]

TypeOK ==
  /\ aux \subseteq Motors /\ auxOn \subseteq Motors
  /\ requests \in [Motors -> Seq(Request)] /\ replies \in [Motors -> Seq(Reply)]
  /\ ring \in Seq(Reply \cup {Noise}) /\ Len(ring) <= RingSize
  /\ version \in [Motors -> {{}} \cup {{m} : m \in Motors}]
  /\ pc \in {"prompt", "send", "wait", "next"} /\ job \in Jobs /\ reg \in Regs
  /\ on \in BOOLEAN /\ target \in Motors /\ todo \subseteq Motors
  /\ stop \in BOOLEAN /\ overtaken \in BOOLEAN

(* The command is over: its locals are gone.                                *)
Done ==
  /\ pc' = "prompt" /\ job' = "info" /\ reg' = "other" /\ on' = FALSE
  /\ target' = (CHOOSE m \in Motors : TRUE) /\ todo' = {}

Init ==
  /\ aux = {} /\ auxOn = {}
  /\ requests = [m \in Motors |-> <<>>] /\ replies = [m \in Motors |-> <<>>]
  /\ ring = <<>> /\ version = [m \in Motors |-> {}]
  /\ pc = "prompt" /\ job = "info" /\ reg = "other" /\ on = FALSE
  /\ target = (CHOOSE m \in Motors : TRUE) /\ todo = {}
  /\ stop = FALSE /\ overtaken = FALSE

-----------------------------------------------------------------------------
(* The commands.                                                           *)

OnBuses  == FoldFunction(LAMBDA q, n : n + Len(q), 0, requests)
              + FoldFunction(LAMBDA q, n : n + Len(q), 0, replies)
InFlight == OnBuses > 0

(* The command byte of the CAN id: the two internal reads are reads.        *)
CmdOf(j) == IF j \in {"scan", "reply"} THEN "read" ELSE j
Cmd      == CmdOf(job)
Stray(c) == \E m \in Motors : \E q \in Range(requests[m]) \cup Range(replies[m]) : q.cmd = c

Begin(j, r, v, first, rest) ==
  /\ pc' = "send" /\ job' = j /\ reg' = r /\ on' = v
  /\ target' = first /\ todo' = rest
  /\ overtaken' = Stray(CmdOf(j))

RegisterCommand ==
  /\ pc = "prompt" /\ ~stop
  /\ \E j \in Given, r \in Asked \cup {"other"}, v \in BOOLEAN, first \in Motors :
       /\ IF j \in {"read", "write"} THEN r \in Asked ELSE r = "other"
       /\ v => j = "write" /\ r = "aux"
       /\ \E rest \in {{}, Motors \ {first}} : Begin(j, r, v, first, rest)
  /\ UNCHANGED <<motor, ring, known, stop>>

(* motor_reply asks for mit_aux_enable before it listens.                   *)
ReplyCommand ==
  /\ pc = "prompt" /\ ~stop
  /\ \E m \in Motors : Begin("reply", "aux", FALSE, m, {})
  /\ UNCHANGED <<motor, ring, known, stop>>

(* power_off and power_on: the motors start anew, the versions are unknown,  *)
(* and the version scan visits the motors found online.                     *)
PowerCycle ==
  /\ pc = "prompt" /\ ~stop
  /\ aux' = {} /\ requests' = [m \in Motors |-> <<>>]
  /\ version' = [m \in Motors |-> {}]
  /\ \/ \E first \in Motors : \E rest \in SUBSET (Motors \ {first}) :
           Begin("scan", "version", FALSE, first, rest)
     \/ UNCHANGED <<pc, call, overtaken>>
  /\ UNCHANGED <<replies, ring, auxOn, stop>>

(* flash_single cycle: the supply is cycled; success wipes one record.       *)
FlashCycle ==
  /\ pc = "prompt" /\ ~stop
  /\ aux' = {} /\ requests' = [m \in Motors |-> <<>>]
  /\ \E wiped \in {{}} \cup {{m} : m \in Motors} :
       /\ auxOn' = auxOn \ wiped
       /\ version' = [m \in Motors |-> IF m \in wiped THEN {} ELSE version[m]]
  /\ UNCHANGED <<replies, ring, pc, call, stop, overtaken>>

(* A read that yields nothing: the scan forgets the version, and motor_reply  *)
(* decodes what it prints, if anything, as the old format.                    *)
Unanswered ==
  /\ version' = IF job = "scan" THEN [version EXCEPT ![target] = {}] ELSE version
  /\ auxOn' \in {auxOn} \cup (IF job = "reply" THEN {auxOn \ {target}} ELSE {})

(* frame_ring_clear, then one frame.                                        *)
SendRequest ==
  /\ pc = "send"
  /\ ring' = <<>>
  /\ \/ /\ OnBuses < Depth
        /\ requests' = [requests EXCEPT ![target] =
                          Append(@, [cmd |-> Cmd, reg |-> reg, on |-> on])]
        /\ pc' = "wait" /\ UNCHANGED known
     \/ "tx" \in Faults /\ pc' = "next" /\ Unanswered /\ UNCHANGED requests
  /\ UNCHANGED <<aux, replies, call, stop, overtaken>>

(* Mutant: console_read_motor_register does not look at the bus.             *)
MatchesAnyBus(f) ==
  f.cmd = Cmd /\ Id(f.from) = Id(target)

(* debug_frame_matches looks at the CAN id alone, console_read_motor_register *)
(* at the bus too.                                                           *)
Matches(f) ==
  /\ f.cmd = Cmd /\ Id(f.from) = Id(target)
  /\ job \in {"scan", "reply"} => Bus(f.from) = Bus(target)

(* Mutant: a frame that is not the answer ends the wait.                      *)
PassOverGivesUp ==
  /\ pc = "wait" /\ ring # <<>> /\ ~Matches(Head(ring))
  /\ ring' = <<>> /\ pc' = "next"
  /\ UNCHANGED <<motor, known, call, stop, overtaken>>

PassOver ==
  /\ pc = "wait" /\ ring # <<>> /\ ~Matches(Head(ring))
  /\ ring' = Tail(ring)
  /\ UNCHANGED <<motor, known, pc, call, stop, overtaken>>

(* print_register_debug_frame: a value that was read or written is recorded,  *)
(* for the motor the frame came from and the register that was asked.         *)
Recorded(f) ==
  /\ auxOn' = IF ~(f.ok /\ reg = "aux" /\ Cmd \in {"read", "write"}) THEN auxOn
              ELSE IF f.on THEN auxOn \cup {f.from} ELSE auxOn \ {f.from}
  /\ version' = IF f.ok /\ reg = "version" /\ Cmd \in {"read", "write"}
                  THEN [version EXCEPT ![f.from] = {f.from}]
                  ELSE version

(* The version scan records the version of the motor it asked, motor_reply    *)
(* its switch.                                                                *)
Scanned(f) ==
  IF ~f.ok THEN Unanswered
  ELSE /\ version' = IF job = "scan" THEN [version EXCEPT ![target] = {f.from}] ELSE version
       /\ auxOn' = IF job = "scan" THEN auxOn
                   ELSE IF f.on THEN auxOn \cup {target} ELSE auxOn \ {target}

Accept ==
  /\ pc = "wait" /\ ring # <<>> /\ Matches(Head(ring))
  /\ IF job \in {"scan", "reply"} THEN Scanned(Head(ring)) ELSE Recorded(Head(ring))
  /\ pc' = "next" /\ ring' = <<>>
  /\ UNCHANGED <<motor, call, stop, overtaken>>

(* Mutant: a wait that ends looks at nothing but the ring.                    *)
NoReplyWhenEmpty ==
  /\ pc = "wait" /\ ring # <<>> /\ stop
  /\ pc' = "next" /\ ring' = <<>>
  /\ overtaken' = (overtaken \/ Stray(Cmd))
  /\ UNCHANGED <<motor, call, stop, known>>

(* The deadline, or a stop request.                                           *)
NoReply ==
  /\ pc = "wait"
  /\ stop \/ "late" \in Faults \/ (~InFlight /\ ring = <<>>)
  /\ Unanswered
  /\ pc' = "next" /\ ring' = <<>>
  /\ overtaken' = (overtaken \/ Stray(Cmd))
  /\ UNCHANGED <<motor, call, stop>>

NextTarget ==
  /\ pc = "next"
  /\ \/ /\ todo # {} /\ ~stop
        /\ \E m \in todo : target' = m /\ todo' = todo \ {m}
        /\ pc' = "send" /\ UNCHANGED <<job, reg, on>>
     \/ (todo = {} \/ stop) /\ Done
  /\ UNCHANGED <<motor, ring, known, stop, overtaken>>

-----------------------------------------------------------------------------
(* The motors, the buses and the receive thread.                           *)

(* A motor answers a request; a refused one changes nothing.                 *)
MotorAnswers(m) ==
  /\ requests[m] # <<>>
  /\ requests' = [requests EXCEPT ![m] = Tail(@)]
  /\ LET q == Head(requests[m]) IN \E ok, v \in BOOLEAN :
       /\ ok /\ q.cmd = "write" => v = q.on
       /\ ok /\ q.cmd = "read" /\ q.reg = "aux" => v = (m \in aux)
       /\ ~ok \/ q.cmd \in {"save", "info"} => ~v
       /\ ok /\ q.cmd = "read" /\ q.reg = "version" => v
       /\ aux' = IF ~(ok /\ q.cmd = "write" /\ q.reg = "aux") THEN aux
                 ELSE IF q.on THEN aux \cup {m} ELSE aux \ {m}
       /\ replies' = [replies EXCEPT ![m] = Append(@,
                        [from |-> m, cmd |-> q.cmd, reg |-> q.reg, ok |-> ok, on |-> v])]
  /\ UNCHANGED <<ring, known, pc, call, stop, overtaken>>

FrameLost(m) ==
  /\ "loss" \in Faults
  /\ \/ requests[m] # <<>> /\ requests' = [requests EXCEPT ![m] = Tail(@)] /\ UNCHANGED replies
     \/ replies[m] # <<>> /\ replies' = [replies EXCEPT ![m] = Tail(@)] /\ UNCHANGED requests
  /\ UNCHANGED <<aux, ring, known, pc, call, stop, overtaken>>

(* Mutant: nothing is given up.                                              *)
PushUnbounded(f) == ring' = Append(ring, f)

(* frame_ring_push: a full ring gives up its oldest frame.                   *)
Push(f) == ring' = Append(IF Len(ring) = RingSize THEN Tail(ring) ELSE ring, f)

(* Outside a wait nobody reads the ring, and the next send clears it.         *)
Receive(m) ==
  /\ replies[m] # <<>>
  /\ replies' = [replies EXCEPT ![m] = Tail(@)]
  /\ IF pc = "wait" THEN Push(Head(replies[m])) ELSE UNCHANGED ring
  /\ UNCHANGED <<aux, requests, known, pc, call, stop, overtaken>>

OtherFrame ==
  /\ "noise" \in Faults /\ pc = "wait"
  /\ Push(Noise)
  /\ UNCHANGED <<motor, known, pc, call, stop, overtaken>>

Signal ==
  /\ ~stop /\ stop' = TRUE
  /\ UNCHANGED <<motor, ring, known, pc, call, overtaken>>

-----------------------------------------------------------------------------
Host == SendRequest \/ PassOver \/ Accept \/ NoReply \/ NextTarget

Next ==
  \/ RegisterCommand \/ ReplyCommand \/ PowerCycle \/ FlashCycle
  \/ Host \/ OtherFrame \/ Signal
  \/ \E m \in Motors : MotorAnswers(m) \/ FrameLost(m) \/ Receive(m)

Spec == Init /\ [][Next]_vars

(* The main thread keeps moving, and a deadline is absolute: other frames do   *)
(* not put it off.  Motors and the receive thread are not stuck.               *)
FairSpec ==
  /\ Spec /\ WF_vars(Host) /\ SF_vars(NoReply)
  /\ \A m \in Motors : WF_vars(MotorAnswers(m)) /\ WF_vars(Receive(m))

-----------------------------------------------------------------------------
(* Properties.                                                             *)

(* A reply that is taken for the answer comes from the motor and the register  *)
(* that were asked - unless an earlier request of the same command, or one      *)
(* still on its way when the command began, was given up: neither the register  *)
(* nor, for the user's commands, the bus is compared.                           *)
AnswersAsked ==
  pc = "wait" /\ ring # <<>> /\ Matches(Head(ring)) /\ ~overtaken
    => Head(ring).from = target /\ Head(ring).reg = reg

(* However late replies are, no motor is given a value of another motor: a      *)
(* command files a reply under the motor it came from, and the scan compares    *)
(* the bus.                                                                    *)
OwnValues == \A m \in Motors : version[m] \subseteq {m}

(* Every command ends, though replies are lost and other frames keep coming.    *)
CommandReturns == pc # "prompt" ~> pc = "prompt"

(* README.md:680 and debug.c:301: mit_aux_enable is 0 after power-on, and        *)
(* replies are then decoded in the old format; but the record's mit_aux_enabled *)
(* survives power_off and power_on.                                             *)
DecodesAsMotorSends == pc = "prompt" /\ ~InFlight /\ ~stop => auxOn \subseteq aux

=============================================================================
