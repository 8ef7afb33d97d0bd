---------------------------- MODULE RegistersProofs ----------------------------
(***************************************************************************)
(* The register commands are typed, keep every motor's values its own, and *)
(* take the answer of the motor and register they asked, for every set of  *)
(* motors, size of the ring, number of frames under way and set of faults. *)
(***************************************************************************)
EXTENDS Registers, TLAPS

(* A reply says truly which motor it is from.                               *)
FromOwner ==
  \A m \in Motors : \A i \in 1 .. Len(replies[m]) : replies[m][i].from = m

(* The places of a queue that hold a frame of a command.                    *)
Where(q, c) == {i \in 1 .. Len(q) : q[i].cmd = c}

(* There is one at most, and it is about the register that is asked.        *)
Lone(q, c, r) == \A i \in Where(q, c) : q[i].reg = r /\ \A j \in Where(q, c) : i = j

Quiet(m, c) == Where(requests[m], c) = {} /\ Where(replies[m], c) = {}

(* Before a request goes out, and when its wait is over, no frame of its    *)
(* command is under way.                                                    *)
NoneLeft ==
  pc \in {"send", "next"} /\ ~overtaken => \A m \in Motors : Quiet(m, Cmd)

(* During the wait there is one at most: the request, or its reply on the   *)
(* bus, or its reply in the ring.                                           *)
OneAtMost ==
  pc = "wait" /\ ~overtaken =>
    /\ \A m \in Motors \ {target} : Quiet(m, Cmd)
    /\ Lone(requests[target], Cmd, reg) /\ Lone(replies[target], Cmd, reg)
    /\ Lone(ring, Cmd, reg)
    /\ \A i \in Where(ring, Cmd) : ring[i].from = target
    /\ Where(requests[target], Cmd) # {} =>
         Where(replies[target], Cmd) = {} /\ Where(ring, Cmd) = {}
    /\ Where(replies[target], Cmd) # {} => Where(ring, Cmd) = {}

RegisterInv == TypeOK /\ FromOwner /\ OwnValues /\ NoneLeft /\ OneAtMost

-----------------------------------------------------------------------------
(* The frame at the head of the ring.                                       *)
LEMMA HeadInRing ==
  ASSUME TypeOK, ring # <<>>
  PROVE  /\ Head(ring) = ring[1] /\ 1 \in 1 .. Len(ring)
         /\ ring[1] \in Reply \cup {Noise}
BY DEF TypeOK

(* A frame that matches is a reply, not noise.                              *)
LEMMA MatchIsReply ==
  ASSUME TypeOK, ring # <<>>, Matches(Head(ring))
  PROVE  Head(ring) \in Reply /\ Head(ring).cmd = Cmd
<1>1. Cmd \in Commands
  BY DEF TypeOK, Cmd, CmdOf, Jobs, Commands
<1>2. Noise.cmd \notin Commands
  BY DEF Noise, Commands
<1> QED
  BY <1>1, <1>2, HeadInRing DEF Matches

(* With the bus compared, it is from the motor that was asked.              *)
LEMMA MatchIsOwn ==
  ASSUME TypeOK, ring # <<>>, Matches(Head(ring)), job \in {"scan", "reply"}
  PROVE  Head(ring).from = target
<1>1. Head(ring).from \in Motors /\ target \in Motors
  BY MatchIsReply DEF TypeOK, Reply
<1> QED
  BY <1>1 DEF Matches, Motors, Bus, Id

(* RegisterInv holds at first: nothing is under way.                        *)
THEOREM RegistersInit == Init => RegisterInv
<1> SUFFICES ASSUME Init PROVE RegisterInv
  OBVIOUS
<1>1. PICK b \in Buses, i \in Ids : <<b, i>> \in Motors
  BY RegistersAssumption DEF Motors
<1>2. target \in Motors
  BY <1>1 DEF Init
<1>3. on \in BOOLEAN /\ stop \in BOOLEAN /\ overtaken \in BOOLEAN
  BY DEF Init
<1>5. version \in [Motors -> {{}} \cup {{m} : m \in Motors}]
  BY DEF Init
<1>6. requests \in [Motors -> Seq(Request)] /\ replies \in [Motors -> Seq(Reply)]
  BY DEF Init
<1>7. ring \in Seq(Reply \cup {Noise}) /\ Len(ring) <= RingSize
  BY RegistersAssumption DEF Init
<1>8. TypeOK
  BY <1>2, <1>3, <1>5, <1>6, <1>7 DEF Init, TypeOK, Jobs, Commands, Regs
<1>4. FromOwner /\ OwnValues /\ NoneLeft /\ OneAtMost
  BY DEF Init, FromOwner, OwnValues, NoneLeft, OneAtMost
<1> QED
  BY <1>8, <1>4 DEF RegisterInv
-----------------------------------------------------------------------------
(* Types.                                                                   *)
Flags == on \in BOOLEAN /\ stop \in BOOLEAN /\ overtaken \in BOOLEAN
Records == auxOn \subseteq Motors /\ version \in [Motors -> {{}} \cup {{m} : m \in Motors}]
Queues ==
  /\ requests \in [Motors -> Seq(Request)] /\ replies \in [Motors -> Seq(Reply)]
  /\ ring \in Seq(Reply \cup {Noise}) /\ Len(ring) <= RingSize
Control ==
  /\ aux \subseteq Motors /\ pc \in {"prompt", "send", "wait", "next"}
  /\ job \in Jobs /\ reg \in Regs /\ target \in Motors /\ todo \subseteq Motors

LEMMA TypeParts ==
  /\ TypeOK <=> Flags /\ Records /\ Queues /\ Control
  /\ TypeOK' <=> Flags' /\ Records' /\ Queues' /\ Control'
BY DEF TypeOK, Flags, Records, Queues, Control

(* One queue of a family of queues loses its head, or gains an element.      *)
LEMMA TailTyped ==
  ASSUME NEW S, NEW q \in [Motors -> Seq(S)], NEW m \in Motors, q[m] # <<>>
  PROVE  [q EXCEPT ![m] = Tail(@)] \in [Motors -> Seq(S)]
<1>1. q[m] \in Seq(S)
  OBVIOUS
<1>2. Tail(q[m]) \in Seq(S)
  BY <1>1
<1> QED
  BY <1>2

LEMMA AppendTyped ==
  ASSUME NEW S, NEW q \in [Motors -> Seq(S)], NEW m \in Motors, NEW x \in S
  PROVE  [q EXCEPT ![m] = Append(@, x)] \in [Motors -> Seq(S)]
<1>1. Append(q[m], x) \in Seq(S)
  OBVIOUS
<1> QED
  BY <1>1

(* What begins a command leaves the flags and the place of the thread typed. *)
LEMMA BeginTyped ==
  ASSUME Flags, Control, UNCHANGED <<aux, stop>>,
         NEW j \in Jobs, NEW r \in Regs, NEW v \in BOOLEAN, NEW first \in Motors,
         NEW rest \in SUBSET Motors, Begin(j, r, v, first, rest)
  PROVE  Flags' /\ Control'
<1>1. Flags'
  BY DEF Flags, Begin, Stray
<1>2. Control'
  BY DEF Control, Begin
<1> QED
  BY <1>1, <1>2

LEMMA TypeUser ==
  ASSUME TypeOK, RegisterCommand \/ ReplyCommand \/ PowerCycle \/ FlashCycle \/ Signal
  PROVE  TypeOK'
<1> USE DEF motor, known, call
<1>1. Flags /\ Records /\ Queues /\ Control
  BY TypeParts
<1>2. CASE RegisterCommand
  <2>1. PICK j \in Given, r \in Asked \cup {"other"}, v \in BOOLEAN, first \in Motors,
             rest \in {{}} \cup {Motors \ {m} : m \in Motors} :
               Begin(j, r, v, first, rest)
    BY <1>2 DEF RegisterCommand
  <2>2. j \in Jobs /\ r \in Regs /\ rest \in SUBSET Motors
    BY RegistersAssumption DEF Jobs, Commands, Regs
  <2>3. Flags' /\ Control'
    BY <1>1, <1>2, <2>1, <2>2, BeginTyped DEF RegisterCommand
  <2> QED
    BY <1>1, <1>2, <2>3, TypeParts DEF RegisterCommand, Records, Queues
<1>3. CASE ReplyCommand
  <2>1. PICK m \in Motors : Begin("reply", "aux", FALSE, m, {})
    BY <1>3 DEF ReplyCommand
  <2>2. "reply" \in Jobs /\ "aux" \in Regs /\ {} \in SUBSET Motors /\ FALSE \in BOOLEAN
    BY DEF Jobs, Regs
  <2>3. UNCHANGED <<aux, stop>>
    BY <1>3 DEF ReplyCommand
  <2>4. Flags' /\ Control'
    BY <1>1, <2>1, <2>2, <2>3, BeginTyped
  <2> QED
    BY <1>1, <1>3, <2>4, TypeParts DEF ReplyCommand, Records, Queues
<1>4. CASE PowerCycle
  <2>1. Flags' /\ Control'
    <3>1. CASE UNCHANGED <<pc, call, overtaken>>
      BY <1>1, <1>4, <3>1 DEF PowerCycle, Flags, Control
    <3>2. CASE \E first \in Motors : \E rest \in SUBSET (Motors \ {first}) :
                 Begin("scan", "version", FALSE, first, rest)
      <4>1. PICK first \in Motors, rest \in SUBSET Motors :
              Begin("scan", "version", FALSE, first, rest)
        BY <3>2
      <4>2. Flags'
        BY <1>1, <1>4, <4>1 DEF PowerCycle, Flags, Begin, Stray
      <4>3. Control'
        BY <1>1, <1>4, <4>1 DEF PowerCycle, Control, Begin, Jobs, Regs
      <4> QED
        BY <4>2, <4>3
    <3> QED
      BY <1>4, <3>1, <3>2 DEF PowerCycle
  <2>2. Records' /\ Queues'
    BY <1>1, <1>4 DEF PowerCycle, Records, Queues
  <2> QED
    BY <2>1, <2>2, TypeParts
<1>5. CASE FlashCycle
  <2>1. PICK wiped \in {{}} \cup {{m} : m \in Motors} :
          /\ auxOn' = auxOn \ wiped
          /\ version' = [m \in Motors |-> IF m \in wiped THEN {} ELSE version[m]]
    BY <1>5 DEF FlashCycle
  <2>2. Records'
    BY <1>1, <2>1 DEF Records
  <2>3. Queues' /\ Control'
    BY <1>1, <1>5 DEF FlashCycle, Queues, Control
  <2>4. Flags'
    BY <1>1, <1>5 DEF FlashCycle, Flags
  <2> QED
    BY <2>2, <2>3, <2>4, TypeParts
<1>6. CASE Signal
  <2>1. Flags'
    BY <1>1, <1>6 DEF Signal, Flags
  <2>2. Records' /\ Queues' /\ Control'
    BY <1>1, <1>6 DEF Signal, Records, Queues, Control
  <2> QED
    BY <2>1, <2>2, TypeParts
<1> QED
  BY <1>2, <1>3, <1>4, <1>5, <1>6

LEMMA TypeHost ==
  ASSUME TypeOK, Host
  PROVE  TypeOK'
<1> USE DEF motor, known, call
<1>1. Flags /\ Records /\ Queues /\ Control
  BY TypeParts
<1>2. Cmd \in Commands
  BY <1>1 DEF Control, Cmd, CmdOf, Jobs, Commands
<1>3. target \in Motors /\ todo \subseteq Motors /\ <<>> \in Seq(Reply \cup {Noise})
        /\ Len(<<>>) <= RingSize
  BY <1>1, RegistersAssumption DEF Control
<1>4. CASE SendRequest
  <2>1. [cmd |-> Cmd, reg |-> reg, on |-> on] \in Request
    BY <1>1, <1>2 DEF Request, Flags, Control
  <2>2. Queues'
    <3>1. requests' \in [Motors -> Seq(Request)]
      <4>1. \/ UNCHANGED requests
            \/ requests' = [requests EXCEPT ![target] =
                              Append(@, [cmd |-> Cmd, reg |-> reg, on |-> on])]
        BY <1>4 DEF SendRequest
      <4>2. requests \in [Motors -> Seq(Request)]
        BY <1>1 DEF Queues
      <4>3. [requests EXCEPT ![target] = Append(@, [cmd |-> Cmd, reg |-> reg, on |-> on])]
              \in [Motors -> Seq(Request)]
        BY <1>3, <2>1, <4>2, AppendTyped
      <4> QED
        BY <4>1, <4>2, <4>3
    <3>2. replies' \in [Motors -> Seq(Reply)]
      BY <1>1, <1>4 DEF SendRequest, Queues
    <3>3. ring' \in Seq(Reply \cup {Noise}) /\ Len(ring') <= RingSize
      BY <1>3, <1>4 DEF SendRequest
    <3>4. Noise' = Noise /\ Request' = Request /\ Reply' = Reply
      BY DEF Noise, Request, Reply
    <3> QED
      BY <3>1, <3>2, <3>3, <3>4 DEF Queues
  <2>3. Records'
    BY <1>1, <1>3, <1>4 DEF SendRequest, Unanswered, Records
  <2>4. Flags'
    BY <1>1, <1>4 DEF SendRequest, Flags
  <2>5. Control'
    BY <1>1, <1>4 DEF SendRequest, Control
  <2> QED
    BY <2>2, <2>3, <2>4, <2>5, TypeParts
<1>5. CASE PassOver
  <2>1. Records' /\ Control'
    BY <1>1, <1>5 DEF PassOver, Records, Control
  <2>3. ring' \in Seq(Reply \cup {Noise}) /\ Len(ring') <= RingSize
    BY <1>1, <1>5, RegistersAssumption DEF PassOver, Queues
  <2>4. Queues'
    BY <1>1, <1>5, <2>3 DEF PassOver, Queues
  <2>2. Flags'
    BY <1>1, <1>5 DEF PassOver, Flags
  <2> QED
    BY <2>1, <2>2, <2>4, TypeParts
<1>6. CASE Accept
  <2>1. Head(ring).from \in Motors
    BY <1>6, MatchIsReply DEF Accept, Reply
  <2>2. Records'
    BY <1>1, <1>3, <1>6, <2>1 DEF Accept, Scanned, Recorded, Unanswered, Records
  <2>3. Queues' /\ Control'
    BY <1>1, <1>3, <1>6 DEF Accept, Queues, Control
  <2>4. Flags'
    BY <1>1, <1>6 DEF Accept, Flags
  <2> QED
    BY <2>2, <2>3, <2>4, TypeParts
<1>7. CASE NoReply
  <2>1. Records'
    BY <1>1, <1>3, <1>7 DEF NoReply, Unanswered, Records
  <2>2. Queues' /\ Control'
    BY <1>1, <1>3, <1>7 DEF NoReply, Queues, Control
  <2>3. Flags'
    BY <1>1, <1>7 DEF NoReply, Stray, Flags
  <2> QED
    BY <2>1, <2>2, <2>3, TypeParts
<1>8. CASE NextTarget
  <2>1. (CHOOSE m \in Motors : TRUE) \in Motors
    BY <1>3
  <2>2. Records' /\ Queues'
    BY <1>1, <1>8 DEF NextTarget, Records, Queues
  <2>3. Control'
    BY <1>1, <1>8, <2>1 DEF NextTarget, Done, Jobs, Commands, Regs, Control
  <2>4. Flags'
    BY <1>1, <1>8 DEF NextTarget, Done, Flags
  <2> QED
    BY <2>2, <2>3, <2>4, TypeParts
<1> QED
  BY <1>4, <1>5, <1>6, <1>7, <1>8 DEF Host

(* A motor answers the oldest request with a reply of its own.              *)
LEMMA Answered ==
  ASSUME TypeOK, NEW m \in Motors, MotorAnswers(m)
  PROVE  \E r \in Reply :
           /\ r.from = m /\ r.cmd = Head(requests[m]).cmd /\ r.reg = Head(requests[m]).reg
           /\ replies' = [replies EXCEPT ![m] = Append(@, r)]
           /\ requests' = [requests EXCEPT ![m] = Tail(@)]
<1>1. Head(requests[m]) \in Request /\ requests[m] # <<>>
  BY DEF MotorAnswers, TypeOK
<1>2. PICK ok \in BOOLEAN, v \in BOOLEAN :
        replies' = [replies EXCEPT ![m] = Append(@,
          [from |-> m, cmd |-> Head(requests[m]).cmd, reg |-> Head(requests[m]).reg,
           ok |-> ok, on |-> v])]
  BY DEF MotorAnswers
<1>3. [from |-> m, cmd |-> Head(requests[m]).cmd, reg |-> Head(requests[m]).reg,
       ok |-> ok, on |-> v] \in Reply
  BY <1>1 DEF Request, Reply
<1> QED
  BY <1>2, <1>3 DEF MotorAnswers

LEMMA PushTyped ==
  ASSUME Queues, NEW f \in Reply \cup {Noise}, Push(f)
  PROVE  /\ ring' \in Seq(Reply \cup {Noise}) /\ Len(ring') <= RingSize
BY RegistersAssumption DEF Queues, Push

LEMMA TypeOutside ==
  ASSUME TypeOK,
         OtherFrame \/ \E m \in Motors : MotorAnswers(m) \/ FrameLost(m) \/ Receive(m)
  PROVE  TypeOK'
<1> USE DEF motor, known, call
<1>1. Flags /\ Records /\ Queues /\ Control
  BY TypeParts
<1>2. Flags'
  BY <1>1 DEF OtherFrame, MotorAnswers, FrameLost, Receive, Flags
<1>3. Records'
  BY <1>1 DEF OtherFrame, MotorAnswers, FrameLost, Receive, Records
<1>4. Control'
  <2>1. aux' \subseteq Motors
    BY ZenonT(30), <1>1 DEF OtherFrame, MotorAnswers, FrameLost, Receive, Control
  <2>2. UNCHANGED <<pc, call>>
    BY DEF OtherFrame, MotorAnswers, FrameLost, Receive
  <2> QED
    BY <1>1, <2>1, <2>2 DEF Control
<1>5. Queues'
  <2>1. CASE OtherFrame
    BY <1>1, <2>1, PushTyped DEF OtherFrame, Queues
  <2>2. ASSUME NEW m \in Motors, MotorAnswers(m) PROVE Queues'
    <3>1. PICK r \in Reply :
            /\ replies' = [replies EXCEPT ![m] = Append(@, r)]
            /\ requests' = [requests EXCEPT ![m] = Tail(@)]
      BY <2>2, Answered
    <3>2. requests' \in [Motors -> Seq(Request)] /\ replies' \in [Motors -> Seq(Reply)]
      BY <1>1, <2>2, <3>1 DEF MotorAnswers, Queues
    <3>3. UNCHANGED ring
      BY <2>2 DEF MotorAnswers
    <3> QED
      BY <1>1, <3>2, <3>3 DEF Queues
  <2>3. ASSUME NEW m \in Motors, FrameLost(m) PROVE Queues'
    <3>1. /\ \/ UNCHANGED requests
             \/ requests[m] # <<>> /\ requests' = [requests EXCEPT ![m] = Tail(@)]
          /\ \/ UNCHANGED replies
             \/ replies[m] # <<>> /\ replies' = [replies EXCEPT ![m] = Tail(@)]
          /\ UNCHANGED ring
      BY <2>3 DEF FrameLost
    <3>2. requests \in [Motors -> Seq(Request)] /\ replies \in [Motors -> Seq(Reply)]
      BY <1>1 DEF Queues
    <3>3. requests[m] # <<>> => [requests EXCEPT ![m] = Tail(@)] \in [Motors -> Seq(Request)]
      BY <3>2, TailTyped
    <3>4. replies[m] # <<>> => [replies EXCEPT ![m] = Tail(@)] \in [Motors -> Seq(Reply)]
      BY <3>2, TailTyped
    <3>5. requests' \in [Motors -> Seq(Request)] /\ replies' \in [Motors -> Seq(Reply)]
      BY <3>1, <3>2, <3>3, <3>4
    <3> QED
      BY <1>1, <3>1, <3>5 DEF Queues
  <2>4. ASSUME NEW m \in Motors, Receive(m) PROVE Queues'
    <3>1. Head(replies[m]) \in Reply
      BY <1>1, <2>4 DEF Receive, Queues
    <3>2. ring' \in Seq(Reply \cup {Noise}) /\ Len(ring') <= RingSize
      BY <1>1, <2>4, <3>1, PushTyped DEF Receive, Queues
    <3> QED
      BY <1>1, <2>4, <3>2 DEF Receive, Queues
  <2> QED
    BY <2>1, <2>2, <2>3, <2>4
<1> QED
  BY <1>2, <1>3, <1>4, <1>5, TypeParts

LEMMA TypeStep == TypeOK /\ [Next]_vars => TypeOK'
<1>1. TypeOK /\ UNCHANGED vars => TypeOK'
  BY DEF TypeOK, vars
<1>2. TypeOK /\ Next => TypeOK'
  BY TypeUser, TypeHost, TypeOutside DEF Next
<1> QED
  BY <1>1, <1>2
-----------------------------------------------------------------------------
(* What queues hold when they lose their head or gain an element.           *)
LEMMA WhereTail ==
  ASSUME NEW S, NEW q \in Seq(S), q # <<>>, NEW c
  PROVE  /\ \A i \in Where(Tail(q), c) : i + 1 \in Where(q, c) /\ Tail(q)[i] = q[i + 1]
         /\ Head(q) = q[1] /\ (Head(q).cmd = c <=> 1 \in Where(q, c))
BY DEF Where

LEMMA TailKeeps ==
  ASSUME NEW S, NEW q \in Seq(S), q # <<>>, NEW c, NEW r
  PROVE  /\ Where(q, c) = {} => Where(Tail(q), c) = {}
         /\ Lone(q, c, r) => Lone(Tail(q), c, r)
         /\ Lone(q, c, r) /\ Head(q).cmd = c => Where(Tail(q), c) = {}
<1>1. \A i \in Where(Tail(q), c) :
        i \in Nat \ {0} /\ i + 1 \in Where(q, c) /\ Tail(q)[i] = q[i + 1]
  BY WhereTail DEF Where
<1>2. Where(q, c) = {} => Where(Tail(q), c) = {}
  BY <1>1
<1>3. ASSUME Lone(q, c, r), NEW i \in Where(Tail(q), c)
      PROVE  Tail(q)[i].reg = r /\ \A j \in Where(Tail(q), c) : i = j
  <2>1. Tail(q)[i].reg = r
    BY <1>1, <1>3 DEF Lone
  <2>2. ASSUME NEW j \in Where(Tail(q), c) PROVE i = j
    <3>1. i + 1 = j + 1
      BY <1>1, <1>3 DEF Lone
    <3> QED
      BY <1>1, <3>1
  <2> QED
    BY <2>1, <2>2
<1>4. ASSUME Lone(q, c, r), Head(q).cmd = c PROVE Where(Tail(q), c) = {}
  <2>1. 1 \in Where(q, c)
    BY <1>4, WhereTail
  <2> QED
    BY <1>1, <1>4, <2>1 DEF Lone
<1> QED
  BY <1>2, <1>3, <1>4 DEF Lone

LEMMA AppendKeeps ==
  ASSUME NEW S, NEW q \in Seq(S), NEW x \in S, NEW c, NEW r
  PROVE  /\ x.cmd # c /\ Where(q, c) = {} => Where(Append(q, x), c) = {}
         /\ x.cmd # c /\ Lone(q, c, r) => Lone(Append(q, x), c, r)
         /\ Where(q, c) = {} /\ (x.cmd = c => x.reg = r) => Lone(Append(q, x), c, r)
<1>1. \A i \in Where(Append(q, x), c) :
        \/ i \in Where(q, c) /\ Append(q, x)[i] = q[i]
        \/ i = Len(q) + 1 /\ Append(q, x)[i] = x /\ x.cmd = c
  BY DEF Where
<1>2. x.cmd # c /\ Where(q, c) = {} => Where(Append(q, x), c) = {}
  BY <1>1
<1>3. x.cmd # c /\ Lone(q, c, r) => Lone(Append(q, x), c, r)
  BY <1>1 DEF Lone
<1>4. Where(q, c) = {} /\ (x.cmd = c => x.reg = r) => Lone(Append(q, x), c, r)
  BY <1>1 DEF Lone
<1> QED
  BY <1>2, <1>3, <1>4

(* No frame of the command is under way where none strays.                  *)
LEMMA StrayQuiet ==
  ASSUME TypeOK, NEW c, ~Stray(c)
  PROVE  \A m \in Motors : Quiet(m, c)
<1> SUFFICES ASSUME NEW m \in Motors PROVE Quiet(m, c)
  OBVIOUS
<1>1. requests[m] \in Seq(Request) /\ replies[m] \in Seq(Reply)
  BY DEF TypeOK
<1>2. \A i \in 1 .. Len(requests[m]) : requests[m][i].cmd # c
  BY <1>1 DEF Stray, Range
<1>3. \A i \in 1 .. Len(replies[m]) : replies[m][i].cmd # c
  BY <1>1 DEF Stray, Range
<1> QED
  BY <1>2, <1>3 DEF Quiet, Where
-----------------------------------------------------------------------------
(* Owners: of the replies under way, and of the values on record.            *)
LEMMA OwnerStep ==
  ASSUME TypeOK, FromOwner, [Next]_vars
  PROVE  FromOwner'
<1> USE DEF motor, known, call
<1>1. CASE UNCHANGED replies
  BY <1>1 DEF FromOwner
<1>2. ASSUME NEW m \in Motors, MotorAnswers(m) PROVE FromOwner'
  <2>1. PICK r \in Reply : r.from = m /\ replies' = [replies EXCEPT ![m] = Append(@, r)]
    BY <1>2, Answered
  <2>2. replies[m] \in Seq(Reply)
    BY DEF TypeOK
  <2>3. \A i \in 1 .. Len(Append(replies[m], r)) : Append(replies[m], r)[i].from = m
    BY <2>1, <2>2 DEF FromOwner
  <2> QED
    BY <2>1, <2>3 DEF FromOwner, TypeOK
<1>3. ASSUME NEW m \in Motors, replies[m] # <<>>, replies' = [replies EXCEPT ![m] = Tail(@)]
      PROVE  FromOwner'
  <2>1. replies[m] \in Seq(Reply)
    BY DEF TypeOK
  <2>2. \A i \in 1 .. Len(Tail(replies[m])) : Tail(replies[m])[i].from = m
    BY <1>3, <2>1 DEF FromOwner
  <2> QED
    BY <1>3, <2>2 DEF FromOwner, TypeOK
<1>4. CASE RegisterCommand \/ ReplyCommand \/ PowerCycle \/ FlashCycle \/ Host \/ OtherFrame \/ Signal
  <2>1. UNCHANGED replies
    BY <1>4 DEF RegisterCommand, ReplyCommand, PowerCycle, FlashCycle, Host, SendRequest,
       PassOver, Accept, NoReply, NextTarget, OtherFrame, Signal
  <2> QED
    BY <1>1, <2>1
<1>5. CASE \E m \in Motors : FrameLost(m) \/ Receive(m)
  BY <1>1, <1>3, <1>5 DEF FrameLost, Receive
<1>6. CASE UNCHANGED vars
  BY <1>1, <1>6 DEF vars
<1> QED
  BY <1>2, <1>4, <1>5, <1>6 DEF Next

LEMMA ValueStep ==
  ASSUME TypeOK, OwnValues, [Next]_vars
  PROVE  OwnValues'
<1> USE DEF motor, known, call
<1>1. version \in [Motors -> {{}} \cup {{m} : m \in Motors}] /\ target \in Motors
  BY DEF TypeOK
<1>2. CASE UNCHANGED version
  BY <1>2 DEF OwnValues
<1>3. CASE Unanswered
  BY <1>1, <1>3 DEF Unanswered, OwnValues
<1>4. CASE Accept
  <2>1. Head(ring).from \in Motors
    BY <1>4, MatchIsReply DEF Accept, Reply
  <2>2. CASE job \in {"scan", "reply"}
    <3>1. Head(ring).from = target
      BY <1>4, <2>2, MatchIsOwn DEF Accept
    <3>2. \/ Unanswered \/ UNCHANGED version \/ version' = [version EXCEPT ![target] = {target}]
      BY <1>4, <2>2, <3>1 DEF Accept, Scanned
    <3> QED
      BY <1>1, <1>2, <1>3, <3>2 DEF OwnValues
  <2>3. CASE job \notin {"scan", "reply"}
    <3>1. \/ UNCHANGED version
          \/ version' = [version EXCEPT ![Head(ring).from] = {Head(ring).from}]
      BY <1>4, <2>3 DEF Accept, Recorded
    <3> QED
      BY <1>1, <1>2, <2>1, <3>1 DEF OwnValues
  <2> QED
    BY <2>2, <2>3
<1>5. CASE PowerCycle
  BY <1>5 DEF PowerCycle, OwnValues
<1>6. CASE FlashCycle
  BY <1>6 DEF FlashCycle, OwnValues
<1>7. CASE SendRequest \/ NoReply
  BY <1>2, <1>3, <1>7 DEF SendRequest, NoReply
<1>8. CASE RegisterCommand \/ ReplyCommand \/ PassOver \/ NextTarget \/ OtherFrame \/ Signal
  BY <1>2, <1>8 DEF RegisterCommand, ReplyCommand, PassOver, NextTarget, OtherFrame, Signal
<1>9. CASE \E m \in Motors : MotorAnswers(m) \/ FrameLost(m) \/ Receive(m)
  BY <1>2, <1>9 DEF MotorAnswers, FrameLost, Receive
<1>10. CASE UNCHANGED vars
  BY <1>2, <1>10 DEF vars
<1> QED
  BY <1>4, <1>5, <1>6, <1>7, <1>8, <1>9, <1>10 DEF Next, Host
-----------------------------------------------------------------------------
(* One request at a time.                                                   *)
TurnInv == NoneLeft /\ OneAtMost

LEMMA CmdKept == UNCHANGED job => Cmd' = Cmd
BY DEF Cmd, CmdOf

(* A motor none of whose frames are of the command: it stays so when its     *)
(* queues lose their heads.                                                 *)
LEMMA QuietKept ==
  ASSUME TypeOK, NEW m \in Motors, NEW n \in Motors, NEW c, Quiet(n, c),
         \/ UNCHANGED requests
         \/ requests[m] # <<>> /\ requests' = [requests EXCEPT ![m] = Tail(@)],
         \/ UNCHANGED replies
         \/ replies[m] # <<>> /\ replies' = [replies EXCEPT ![m] = Tail(@)]
  PROVE  Where(requests'[n], c) = {} /\ Where(replies'[n], c) = {}
<1>1. /\ requests[n] \in Seq(Request) /\ replies[n] \in Seq(Reply)
      /\ n \in DOMAIN requests /\ n \in DOMAIN replies
  BY DEF TypeOK
<1>2. requests[n] # <<>> => Where(Tail(requests[n]), c) = {}
  BY <1>1, TailKeeps DEF Quiet
<1>3. replies[n] # <<>> => Where(Tail(replies[n]), c) = {}
  BY <1>1, TailKeeps DEF Quiet
<1>4. requests'[n] = requests[n] \/ (requests[n] # <<>> /\ requests'[n] = Tail(requests[n]))
  BY <1>1
<1>5. replies'[n] = replies[n] \/ (replies[n] # <<>> /\ replies'[n] = Tail(replies[n]))
  BY <1>1
<1> QED
  BY <1>2, <1>3, <1>4, <1>5 DEF Quiet

LEMMA TurnBegins ==
  ASSUME TypeOK, NEW j, NEW r, NEW v, NEW first, NEW rest, Begin(j, r, v, first, rest),
         UNCHANGED replies,
         UNCHANGED requests \/ requests' = [m \in Motors |-> <<>>]
  PROVE  TurnInv'
<1>1. pc' = "send" /\ overtaken' = Stray(CmdOf(j)) /\ Cmd' = CmdOf(j)
  BY DEF Begin, Cmd
<1>2. CASE Stray(CmdOf(j))
  BY <1>1, <1>2 DEF TurnInv, NoneLeft, OneAtMost
<1>3. CASE ~Stray(CmdOf(j))
  <2>1. \A m \in Motors : Quiet(m, Cmd')
    BY <1>1, <1>3, StrayQuiet
  <2>2. \A m \in Motors : Where(requests'[m], Cmd') = {} /\ Where(replies'[m], Cmd') = {}
    <3>1. \A c : Where(<<>>, c) = {}
      BY DEF Where
    <3> QED
      BY <2>1, <3>1 DEF Quiet
  <2> QED
    BY <1>1, <2>2 DEF TurnInv, NoneLeft, OneAtMost, Quiet
<1> QED
  BY <1>2, <1>3

LEMMA TurnUser ==
  ASSUME TypeOK, TurnInv, RegisterCommand \/ ReplyCommand \/ PowerCycle \/ FlashCycle
  PROVE  TurnInv'
<1> USE DEF motor, known, call
<1>1. CASE RegisterCommand
  BY <1>1, TurnBegins DEF RegisterCommand
<1>2. CASE ReplyCommand
  BY <1>2, TurnBegins DEF ReplyCommand
<1>3. CASE PowerCycle
  <2>1. CASE UNCHANGED <<pc, call, overtaken>>
    BY <1>3, <2>1 DEF PowerCycle, TurnInv, NoneLeft, OneAtMost
  <2>2. CASE \E first \in Motors : \E rest \in SUBSET (Motors \ {first}) :
               Begin("scan", "version", FALSE, first, rest)
    BY <1>3, <2>2, TurnBegins DEF PowerCycle
  <2> QED
    BY <1>3, <2>1, <2>2 DEF PowerCycle
<1>4. CASE FlashCycle
  BY <1>4 DEF FlashCycle, TurnInv, NoneLeft, OneAtMost
<1> QED
  BY <1>1, <1>2, <1>3, <1>4

LEMMA TurnHost ==
  ASSUME TypeOK, TurnInv, Host
  PROVE  TurnInv'
<1> USE DEF motor, known, call
<1>1. target \in Motors /\ ring \in Seq(Reply \cup {Noise})
  BY DEF TypeOK
<1>2. \A c, r : Where(<<>>, c) = {} /\ Lone(<<>>, c, r)
  BY DEF Where, Lone
<1>3. CASE SendRequest
  <2>1. Cmd' = Cmd /\ UNCHANGED <<target, reg, overtaken, replies>> /\ ring' = <<>> /\ pc = "send"
    BY <1>3, CmdKept DEF SendRequest
  <2>2. CASE UNCHANGED requests /\ pc' = "next"
    BY <2>1, <2>2 DEF TurnInv, NoneLeft, OneAtMost, Quiet
  <2>3. CASE /\ pc' = "wait"
             /\ requests' = [requests EXCEPT ![target] =
                               Append(@, [cmd |-> Cmd, reg |-> reg, on |-> on])]
    <3> DEFINE q == [cmd |-> Cmd, reg |-> reg, on |-> on]
    <3>1. requests[target] \in Seq(Request) /\ target \in DOMAIN requests
      BY <1>1 DEF TypeOK
    <3>2. q \in Request
      BY DEF TypeOK, Request, Cmd, CmdOf, Jobs, Commands
    <3>3. q.reg = reg
      OBVIOUS
    <3>4. Where(requests[target], Cmd) = {} => Lone(Append(requests[target], q), Cmd, reg)
      <4> HIDE DEF q
      <4> QED
        BY <3>1, <3>2, <3>3, AppendKeeps
    <3>5. requests'[target] = Append(requests[target], q)
      BY <2>3, <3>1
    <3>6. \A m \in Motors \ {target} : requests'[m] = requests[m]
      BY <2>3 DEF TypeOK
    <3> HIDE DEF q
    <3>7. ASSUME ~overtaken PROVE OneAtMost'
      <4>1. \A m \in Motors : Where(requests[m], Cmd) = {} /\ Where(replies[m], Cmd) = {}
        BY <2>1, <3>7 DEF TurnInv, NoneLeft, Quiet
      <4>2. Lone(requests'[target], Cmd, reg) /\ Lone(replies[target], Cmd, reg)
        BY <1>1, <3>4, <3>5, <4>1 DEF Lone
      <4> QED
        BY <1>1, <1>2, <2>1, <3>6, <4>1, <4>2 DEF OneAtMost, Quiet
    <3> QED
      BY <2>1, <2>3, <3>7 DEF TurnInv, NoneLeft, OneAtMost
  <2> QED
    BY <1>3, <2>2, <2>3 DEF SendRequest
<1>4. CASE PassOver
  <2>1. /\ Cmd' = Cmd /\ UNCHANGED <<pc, target, reg, overtaken, requests, replies>>
        /\ ring # <<>> /\ ring' = Tail(ring) /\ pc = "wait"
    BY <1>4, CmdKept DEF PassOver
  <2>2. /\ Where(ring, Cmd) = {} => Where(Tail(ring), Cmd) = {}
        /\ Lone(ring, Cmd, reg) => Lone(Tail(ring), Cmd, reg)
    BY <1>1, <2>1, TailKeeps
  <2>3. \A i \in Where(Tail(ring), Cmd) : i + 1 \in Where(ring, Cmd) /\ Tail(ring)[i] = ring[i + 1]
    BY <1>1, <2>1, WhereTail
  <2> QED
    BY <2>1, <2>2, <2>3 DEF TurnInv, NoneLeft, OneAtMost, Quiet
<1>5. CASE Accept
  <2>1. /\ Cmd' = Cmd /\ UNCHANGED <<overtaken, requests, replies>>
        /\ ring # <<>> /\ pc = "wait" /\ pc' = "next"
    BY <1>5, CmdKept DEF Accept
  <2>2. Where(ring, Cmd) # {}
    BY <1>1, <1>5, <2>1, MatchIsReply, WhereTail DEF Accept
  <2> QED
    BY <1>1, <2>1, <2>2 DEF TurnInv, NoneLeft, OneAtMost, Quiet
<1>6. CASE NoReply
  <2>1. /\ Cmd' = Cmd /\ UNCHANGED <<requests, replies>> /\ pc' = "next"
        /\ overtaken' = (overtaken \/ Stray(Cmd))
    BY <1>6, CmdKept DEF NoReply
  <2>2. ~Stray(Cmd) => \A m \in Motors : Quiet(m, Cmd)
    BY StrayQuiet
  <2> QED
    BY <2>1, <2>2 DEF TurnInv, NoneLeft, OneAtMost, Quiet
<1>7. CASE NextTarget
  <2>1. CASE pc' = "prompt"
    BY <2>1 DEF TurnInv, NoneLeft, OneAtMost
  <2>2. CASE pc = "next" /\ pc' = "send" /\ UNCHANGED <<job, requests, replies, overtaken>>
    BY <2>2, CmdKept DEF TurnInv, NoneLeft, OneAtMost, Quiet
  <2> QED
    BY <1>7, <2>1, <2>2 DEF NextTarget, Done
<1> QED
  BY <1>3, <1>4, <1>5, <1>6, <1>7 DEF Host

(* What a push leaves of the present command's frames in the ring.           *)
LEMMA TurnPush ==
  ASSUME TypeOK, NEW f \in Reply \cup {Noise}, Push(f), NEW c, NEW r,
         Lone(ring, c, r), \A i \in Where(ring, c) : ring[i].from = target
  PROVE  /\ f.cmd # c => /\ Where(ring, c) = {} => Where(ring', c) = {}
                         /\ Lone(ring', c, r)
                         /\ \A i \in Where(ring', c) : ring'[i].from = target
         /\ Where(ring, c) = {} /\ f.reg = r /\ f.from = target =>
              Lone(ring', c, r) /\ \A i \in Where(ring', c) : ring'[i].from = target
<1> DEFINE q == IF Len(ring) = RingSize THEN Tail(ring) ELSE ring
<1>1. ring \in Seq(Reply \cup {Noise})
  BY DEF TypeOK
<1>2. Len(ring) = RingSize => ring # <<>>
  BY RegistersAssumption, <1>1
<1>3. q \in Seq(Reply \cup {Noise})
  BY <1>1, <1>2
<1>4. Where(ring, c) = {} => Where(q, c) = {}
  BY <1>1, <1>2, TailKeeps
<1>5. Lone(q, c, r)
  BY <1>1, <1>2, TailKeeps
<1>6. \A i \in Where(q, c) : q[i].from = target
  <2>1. CASE Len(ring) # RingSize
    BY <2>1
  <2>2. CASE Len(ring) = RingSize
    <3>1. \A i \in Where(Tail(ring), c) : i + 1 \in Where(ring, c) /\ Tail(ring)[i] = ring[i + 1]
      BY <1>1, <1>2, <2>2, WhereTail
    <3> QED
      BY <2>2, <3>1
  <2> QED
    BY <2>1, <2>2
<1>7. ring' = Append(q, f)
  BY DEF Push
<1> HIDE DEF q
<1>8. \A i \in Where(Append(q, f), c) :
        \/ i \in Where(q, c) /\ Append(q, f)[i] = q[i]
        \/ i = Len(q) + 1 /\ Append(q, f)[i] = f /\ f.cmd = c
  BY <1>3 DEF Where
<1>9. f.cmd # c => /\ Where(q, c) = {} => Where(ring', c) = {}
                  /\ Lone(ring', c, r)
  BY <1>3, <1>5, <1>7, AppendKeeps
<1>10. Where(q, c) = {} /\ f.reg = r => Lone(ring', c, r)
  BY <1>3, <1>7, AppendKeeps
<1>11. f.cmd # c \/ f.from = target => \A i \in Where(ring', c) : ring'[i].from = target
  BY <1>6, <1>7, <1>8
<1> QED
  BY <1>4, <1>9, <1>10, <1>11

LEMMA TurnLost ==
  ASSUME TypeOK, TurnInv, NEW m \in Motors, FrameLost(m)
  PROVE  TurnInv'
<1> USE DEF motor, known, call
<1>1. Cmd' = Cmd /\ UNCHANGED <<pc, target, reg, overtaken, ring>>
  BY CmdKept DEF FrameLost
<1>2. /\ \/ UNCHANGED requests
         \/ requests[m] # <<>> /\ requests' = [requests EXCEPT ![m] = Tail(@)]
      /\ \/ UNCHANGED replies
         \/ replies[m] # <<>> /\ replies' = [replies EXCEPT ![m] = Tail(@)]
  BY DEF FrameLost
<1>3. \A n \in Motors : Quiet(n, Cmd) =>
        Where(requests'[n], Cmd) = {} /\ Where(replies'[n], Cmd) = {}
  BY <1>2, QuietKept
<1>4. NoneLeft'
  BY <1>1, <1>3 DEF TurnInv, NoneLeft, Quiet
<1>5. ASSUME pc = "wait", ~overtaken PROVE OneAtMost'
  <2>1. target \in Motors /\ requests[target] \in Seq(Request) /\ replies[target] \in Seq(Reply)
    BY DEF TypeOK
  <2>2. \/ requests'[target] = requests[target]
        \/ requests[target] # <<>> /\ requests'[target] = Tail(requests[target])
    BY <1>2, <2>1 DEF TypeOK
  <2>3. \/ replies'[target] = replies[target]
        \/ replies[target] # <<>> /\ replies'[target] = Tail(replies[target])
    BY <1>2, <2>1 DEF TypeOK
  <2>4. /\ Lone(requests'[target], Cmd, reg)
        /\ Where(requests[target], Cmd) = {} => Where(requests'[target], Cmd) = {}
    BY <1>5, <2>1, <2>2, TailKeeps DEF TurnInv, OneAtMost
  <2>5. /\ Lone(replies'[target], Cmd, reg)
        /\ Where(replies[target], Cmd) = {} => Where(replies'[target], Cmd) = {}
    BY <1>5, <2>1, <2>3, TailKeeps DEF TurnInv, OneAtMost
  <2> QED
    BY <1>1, <1>3, <1>5, <2>4, <2>5 DEF TurnInv, OneAtMost, Quiet
<1> QED
  BY <1>1, <1>4, <1>5 DEF TurnInv, OneAtMost

LEMMA TurnReceive ==
  ASSUME TypeOK, TurnInv, NEW m \in Motors, Receive(m), FromOwner
  PROVE  TurnInv'
<1> USE DEF motor, known, call
<1>1. Cmd' = Cmd /\ UNCHANGED <<pc, target, reg, overtaken, requests>>
  BY CmdKept DEF Receive
<1>2. replies[m] # <<>> /\ replies' = [replies EXCEPT ![m] = Tail(@)]
  BY DEF Receive
<1>3. \A n \in Motors : Quiet(n, Cmd) =>
        Where(requests'[n], Cmd) = {} /\ Where(replies'[n], Cmd) = {}
  BY <1>1, <1>2, QuietKept
<1>4. NoneLeft'
  BY <1>1, <1>3 DEF TurnInv, NoneLeft, Quiet
<1>5. ASSUME pc = "wait", ~overtaken PROVE OneAtMost'
  <2> DEFINE f == Head(replies[m])
  <2>1. replies[m] \in Seq(Reply) /\ target \in Motors
    BY DEF TypeOK
  <2>2. f \in Reply \cup {Noise} /\ Push(f)
    BY <1>2, <1>5, <2>1 DEF Receive
  <2>3. f.from = m /\ (f.cmd = Cmd <=> 1 \in Where(replies[m], Cmd)) /\ f = replies[m][1]
    BY <1>2, <2>1, WhereTail DEF FromOwner
  <2>4. Lone(ring, Cmd, reg) /\ \A i \in Where(ring, Cmd) : ring[i].from = target
    BY <1>5 DEF TurnInv, OneAtMost
  <2> HIDE DEF f
  <2>5. CASE f.cmd # Cmd
    <3>1. /\ Where(ring, Cmd) = {} => Where(ring', Cmd) = {}
          /\ Lone(ring', Cmd, reg)
          /\ \A i \in Where(ring', Cmd) : ring'[i].from = target
      BY <2>2, <2>4, <2>5, TurnPush
    <3>2. /\ Lone(replies[m], Cmd, reg) => Lone(Tail(replies[m]), Cmd, reg)
          /\ Where(replies[m], Cmd) = {} => Where(Tail(replies[m]), Cmd) = {}
      BY <1>2, <2>1, TailKeeps
    <3>3. /\ Lone(replies'[target], Cmd, reg)
          /\ Where(replies[target], Cmd) = {} => Where(replies'[target], Cmd) = {}
      BY <1>2, <1>5, <2>1, <3>2 DEF TypeOK, TurnInv, OneAtMost
    <3> QED
      BY <1>1, <1>3, <1>5, <3>1, <3>3 DEF TurnInv, OneAtMost, Quiet
  <2>6. CASE f.cmd = Cmd
    <3>1. m = target
      BY <1>5, <2>3, <2>6 DEF TurnInv, OneAtMost, Quiet
    <3>2. /\ Where(replies[target], Cmd) # {} /\ f.reg = reg
          /\ Where(ring, Cmd) = {} /\ Where(requests[target], Cmd) = {}
      BY <1>5, <2>3, <2>6, <3>1 DEF TurnInv, OneAtMost, Lone
    <3>3. Where(Tail(replies[target]), Cmd) = {}
      <4>1. Lone(replies[target], Cmd, reg) /\ Head(replies[target]).cmd = Cmd
        BY <1>5, <2>6, <3>1 DEF TurnInv, OneAtMost, f
      <4> QED
        BY <1>2, <2>1, <3>1, <4>1, TailKeeps
    <3>4. replies'[target] = Tail(replies[target])
      BY <1>2, <3>1 DEF TypeOK
    <3>5. Lone(ring', Cmd, reg) /\ \A i \in Where(ring', Cmd) : ring'[i].from = target
      BY <2>2, <2>3, <2>4, <3>1, <3>2, TurnPush
    <3> QED
      BY <1>1, <1>3, <1>5, <3>2, <3>3, <3>4, <3>5 DEF TurnInv, OneAtMost, Quiet, Lone
  <2> QED
    BY <2>5, <2>6
<1> QED
  BY <1>1, <1>4, <1>5 DEF TurnInv, OneAtMost

LEMMA TurnAnswers ==
  ASSUME TypeOK, TurnInv, NEW m \in Motors, MotorAnswers(m)
  PROVE  TurnInv'
<1> USE DEF motor, known, call
<1>1. Cmd' = Cmd /\ UNCHANGED <<pc, target, reg, overtaken, ring>>
  BY CmdKept DEF MotorAnswers
<1>2. PICK r \in Reply :
        /\ r.from = m /\ r.cmd = Head(requests[m]).cmd /\ r.reg = Head(requests[m]).reg
        /\ replies' = [replies EXCEPT ![m] = Append(@, r)]
        /\ requests' = [requests EXCEPT ![m] = Tail(@)]
  BY Answered
<1>3. /\ requests[m] # <<>> /\ requests[m] \in Seq(Request) /\ replies[m] \in Seq(Reply)
      /\ requests'[m] = Tail(requests[m]) /\ replies'[m] = Append(replies[m], r)
      /\ target \in Motors
  BY <1>2 DEF MotorAnswers, TypeOK
<1>4. \A n \in Motors \ {m} : requests'[n] = requests[n] /\ replies'[n] = replies[n]
  BY <1>2 DEF TypeOK
<1>5. /\ Head(requests[m]) = requests[m][1]
      /\ r.cmd = Cmd <=> 1 \in Where(requests[m], Cmd)
  BY <1>2, <1>3, WhereTail
<1>6. \A n \in Motors : Quiet(n, Cmd) =>
        Where(requests'[n], Cmd) = {} /\ Where(replies'[n], Cmd) = {}
  <2>1. Quiet(m, Cmd) => Where(requests'[m], Cmd) = {} /\ Where(replies'[m], Cmd) = {}
    BY <1>3, <1>5, TailKeeps, AppendKeeps DEF Quiet
  <2> QED
    BY <1>4, <2>1 DEF Quiet
<1>7. NoneLeft'
  BY <1>1, <1>6 DEF TurnInv, NoneLeft, Quiet
<1>8. ASSUME pc = "wait", ~overtaken PROVE OneAtMost'
  <2>1. CASE m # target
    BY <1>1, <1>3, <1>4, <1>6, <1>8, <2>1 DEF TurnInv, OneAtMost, Quiet
  <2>2. CASE m = target /\ r.cmd # Cmd
    <3>1. /\ Lone(requests'[m], Cmd, reg)
          /\ Where(requests[m], Cmd) = {} => Where(requests'[m], Cmd) = {}
      BY <1>3, <1>8, <2>2, TailKeeps DEF TurnInv, OneAtMost
    <3>2. /\ Lone(replies'[m], Cmd, reg)
          /\ Where(replies[m], Cmd) = {} => Where(replies'[m], Cmd) = {}
      BY <1>3, <1>8, <2>2, AppendKeeps DEF TurnInv, OneAtMost
    <3> QED
      BY <1>1, <1>3, <1>6, <1>8, <2>2, <3>1, <3>2 DEF TurnInv, OneAtMost, Quiet
  <2>3. CASE m = target /\ r.cmd = Cmd
    <3>1. /\ Lone(requests[m], Cmd, reg) /\ Where(requests[m], Cmd) # {}
          /\ Where(replies[m], Cmd) = {} /\ Where(ring, Cmd) = {}
      BY <1>5, <1>8, <2>3 DEF TurnInv, OneAtMost
    <3>2. r.reg = reg
      BY <1>2, <1>5, <2>3, <3>1 DEF Lone
    <3>3. Where(requests'[m], Cmd) = {}
      BY <1>2, <1>3, <2>3, <3>1, TailKeeps
    <3>4. Lone(replies'[m], Cmd, reg)
      BY <1>3, <3>1, <3>2, AppendKeeps
    <3> QED
      BY <1>1, <1>3, <1>6, <1>8, <2>3, <3>1, <3>3, <3>4 DEF TurnInv, OneAtMost, Quiet, Lone
  <2> QED
    BY <2>1, <2>2, <2>3
<1> QED
  BY <1>1, <1>7, <1>8 DEF TurnInv, OneAtMost

LEMMA TurnStep ==
  ASSUME TypeOK, FromOwner, TurnInv, [Next]_vars
  PROVE  TurnInv'
<1> USE DEF motor, known, call
<1>1. CASE RegisterCommand \/ ReplyCommand \/ PowerCycle \/ FlashCycle
  BY <1>1, TurnUser
<1>2. CASE Host
  BY <1>2, TurnHost
<1>3. CASE OtherFrame
  <2>1. /\ Cmd' = Cmd /\ UNCHANGED <<pc, target, reg, overtaken, requests, replies>>
        /\ Push(Noise) /\ pc = "wait"
    BY <1>3, CmdKept DEF OtherFrame
  <2>2. Noise.cmd # Cmd
    BY DEF Noise, TypeOK, Cmd, CmdOf, Jobs, Commands
  <2>3. ASSUME ~overtaken
        PROVE  /\ Where(ring, Cmd) = {} => Where(ring', Cmd) = {}
               /\ Lone(ring', Cmd, reg)
               /\ \A i \in Where(ring', Cmd) : ring'[i].from = target
    BY <2>1, <2>2, <2>3, TurnPush DEF TurnInv, OneAtMost
  <2> QED
    BY <2>1, <2>3 DEF TurnInv, NoneLeft, OneAtMost, Quiet
<1>4. CASE Signal
  BY <1>4, CmdKept DEF Signal, TurnInv, NoneLeft, OneAtMost, Quiet
<1>5. CASE \E m \in Motors : MotorAnswers(m) \/ FrameLost(m) \/ Receive(m)
  BY <1>5, TurnAnswers, TurnLost, TurnReceive
<1>6. CASE UNCHANGED vars
  BY <1>6, CmdKept DEF vars, TurnInv, NoneLeft, OneAtMost, Quiet
<1> QED
  BY <1>1, <1>2, <1>3, <1>4, <1>5, <1>6 DEF Next

-----------------------------------------------------------------------------
(* The theorems.                                                            *)

(* RegisterInv is inductive: no step of host, motors or buses breaks it.     *)
THEOREM RegistersStep == RegisterInv /\ [Next]_vars => RegisterInv'
<1> SUFFICES ASSUME RegisterInv, [Next]_vars PROVE RegisterInv'
  OBVIOUS
<1>1. TypeOK'
  BY TypeStep DEF RegisterInv
<1>2. FromOwner' /\ OwnValues'
  BY OwnerStep, ValueStep DEF RegisterInv
<1>3. TurnInv'
  BY TurnStep DEF RegisterInv, TurnInv
<1> QED
  BY <1>1, <1>2, <1>3 DEF RegisterInv, TurnInv

(* RegisterInv holds throughout every session of register commands.          *)
THEOREM RegistersSafe == Spec => []RegisterInv
<1> QED
  BY RegistersInit, RegistersStep, PTL DEF Spec

(* The register commands keep their state typed, the ring within its size.   *)
THEOREM RegistersTyped == Spec => []TypeOK
<1>1. RegisterInv => TypeOK
  BY DEF RegisterInv
<1> QED
  BY <1>1, RegistersSafe, PTL

(* No motor is ever given another motor's value, however late its replies.   *)
THEOREM RegistersOwnValues == Spec => []OwnValues
<1>1. RegisterInv => OwnValues
  BY DEF RegisterInv
<1> QED
  BY <1>1, RegistersSafe, PTL

(* A reply that is taken for the answer is from the motor and about the      *)
(* register that were asked, but for a request that was given up.            *)
THEOREM RegistersAnswersAsked == Spec => []AnswersAsked
<1>1. ASSUME RegisterInv PROVE AnswersAsked
  <2> SUFFICES ASSUME pc = "wait", ring # <<>>, Matches(Head(ring)), ~overtaken
               PROVE  Head(ring).from = target /\ Head(ring).reg = reg
    BY DEF AnswersAsked
  <2>1. Head(ring).cmd = Cmd /\ ring \in Seq(Reply \cup {Noise})
    BY <1>1, MatchIsReply DEF RegisterInv, TypeOK
  <2>2. 1 \in Where(ring, Cmd) /\ Head(ring) = ring[1]
    BY <2>1, WhereTail
  <2> QED
    BY <1>1, <2>2 DEF RegisterInv, OneAtMost, Lone
<1> QED
  BY <1>1, RegistersSafe, PTL
=============================================================================
