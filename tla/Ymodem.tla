------------------------------- MODULE Ymodem -------------------------------
(***************************************************************************)
(* boot_flash_file: bring one motor into its bootloader, send the firmware *)
(* by YMODEM over CAN, and start the application.  The bootloader is not   *)
(* in this repository: it is modelled as the YMODEM receiver that the host *)
(* code expects.                                                           *)
(*                                                                         *)
(* A packet is one element of down, a reply byte one element of up, which  *)
(* stands for the bus and rx_ring together.  A block of the file is        *)
(* <<session, k>>, so that a mixture of two transfers is visible.          *)
(***************************************************************************)
EXTENDS Naturals, Sequences

CONSTANTS
  Blocks,   (* 128-byte blocks of the file                                 *)
  Tries,    (* sends of one packet, 5 in the code                          *)
  Modulus,  (* sequence numbers, 256 in the code                           *)
  Sessions, (* bound: calls of boot_flash_file                             *)
  Depth,    (* bound: elements in flight in one direction                  *)
  Faults    (* "loss" or corruption, "late" replies, "tx" a failing send   *)
            (* or supply call, "short" a file that ends before its size    *)

ASSUME YmodemAssumption ==
  /\ Blocks \in Nat /\ Sessions \in Nat
  /\ Tries \in Nat \ {0} /\ Depth \in Nat \ {0, 1}
  /\ Modulus \in Nat /\ Modulus > 1
  /\ Faults \subseteq {"loss", "late", "tx", "short"}

VARIABLES
  pc,        (* where the host is in boot_flash_file                       *)
  sent,      (* blocks the host counts as sent                             *)
  seq,       (* sequence number of the next data packet                    *)
  attempt,   (* which try of the current packet                            *)
  result,    (* what the last call returned: "none", "ok" or "failed"      *)
  session,   (* calls so far                                               *)
  label,     (* the motor's state_label is "boot_menu"                     *)
  stop,      (* stop_requested                                             *)
  overtaken, (* history: this call overtook a reply - a timeout of it, or    *)
             (* its start while something of an earlier call was on its way *)
  crowded,   (* history: some call started so                              *)
  down, up,  (* host to bootloader: records of kind, seq and block (the call *)
             (* and its number); bootloader to host: bytes                   *)
  mode,      (* what the bootloader is doing                               *)
  expect,    (* the sequence number it expects                             *)
  image      (* the blocks it has written                                  *)

host   == <<sent, seq, attempt, result, session, label, stop, overtaken, crowded>>
device == <<mode, expect, image>>
vars   == <<pc, sent, seq, attempt, result, session, label, stop, overtaken, crowded,
            down, up, mode, expect, image>>

(* A byte to send, and where the host goes from there.                       *)
Sends == [reset  |-> <<"r", "menu">>,     menu |-> <<"m", "menu_wait">>,
          update |-> <<"u", "c_wait">>,   eot  |-> <<"EOT", "nak_wait">>,
          eot2   |-> <<"EOT", "ack_wait">>, jump |-> <<"a", "report">>]

(* A byte to wait for: wait_for_byte, and the menu text of enter_boot_menu.   *)
Awaits == [menu_wait |-> <<"menu", "update">>,  c_wait   |-> <<"C", "header">>,
           c_data    |-> <<"C", "data">>,       nak_wait |-> <<"NAK", "eot2">>,
           ack_wait  |-> <<"ACK", "c_close">>,  c_close  |-> <<"C", "close">>]

(* The packets, the place of the wait for each one's ACK, and what follows.   *)
AckPlace == [header |-> "header_ack", data |-> "data_ack", close |-> "close_ack"]
Acked    == [header_ack |-> "c_data", data_ack |-> "data", close_ack |-> "jump"]

Commands == {"r", "m", "u", "a", "EOT"}
Upload == {"header", "data", "eot"}  (* the bootloader's modes of a transfer *)

Init ==
  /\ pc = "idle" /\ sent = 0 /\ seq = 1 /\ attempt = 1 /\ result = "none"
  /\ session = 0 /\ label = FALSE /\ stop = FALSE
  /\ overtaken = FALSE /\ crowded = FALSE
  /\ down = <<>> /\ up = <<>>
  /\ mode = "app" /\ expect = 0 /\ image = <<>>

-----------------------------------------------------------------------------
(* Parts of the host's steps.                                              *)

InFlight == down # <<>> \/ up # <<>>

(* The host gives up waiting: nothing is in flight, or a reply is late.       *)
TimesOut == ~stop /\ (InFlight => "late" \in Faults)

Put(f) == Len(down) < Depth /\ down' = Append(down, f)

(* A command byte, and the packets that carry no block.                       *)
Control(k) == [kind |-> k, seq |-> 0, block |-> <<>>]

Finish(r) == pc' = "idle" /\ result' = r

(* The callback reads the state label off the text as it arrives.             *)
LabelFrom(text) ==
  IF "menu" \in text THEN TRUE ELSE IF "app" \in text THEN FALSE ELSE label

(* rx_ring_clear: what has arrived is gone, what is late is not.              *)
ClearRx ==
  \E n \in 0 .. Len(up) :
    /\ n < Len(up) => "late" \in Faults
    /\ up' = SubSeq(up, n + 1, Len(up))
    /\ label' = LabelFrom({up[i] : i \in 1 .. n})

-----------------------------------------------------------------------------
(* The host.                                                               *)

(* A call of boot_flash_file: it skips the way to the boot menu if the motor's *)
(* label says it is there, and asks for it by a reset command otherwise.  It   *)
(* does not look for what an earlier call has left on its way.                 *)
FlashFile ==
  /\ pc = "idle" /\ ~stop /\ session < Sessions
  /\ session' = session + 1 /\ result' = "none"
  /\ overtaken' = InFlight /\ crowded' = (crowded \/ InFlight)
  /\ sent' = 0 /\ seq' = 1 % Modulus /\ attempt' = 1
  /\ pc' = IF label THEN "update" ELSE "reset"
  /\ UNCHANGED <<label, stop, down, up, device>>

(* or by a cycle of the supply, which empties the bus.                         *)
PowerCycle ==
  /\ pc = "reset"
  /\ mode' = "boot" /\ down' = <<>> /\ pc' = "menu"
  /\ UNCHANGED <<up, expect, image, host>>

(* motor_pwr_set fails: the supply stays as it is, or it is off and stays off. *)
PowerCycleFails ==
  /\ pc = "reset" /\ "tx" \in Faults
  /\ Finish("failed")
  /\ UNCHANGED <<mode, down>> \/ (mode' = "off" /\ down' = <<>>)
  /\ UNCHANGED <<sent, seq, attempt, session, crowded, label, stop, overtaken, up,
                 expect, image>>

(* send_boot_byte; rx_ring_clear comes before 'r', 'm', 'u' and 'a'.           *)
SendByte ==
  /\ pc \in DOMAIN Sends /\ ~stop
  /\ \/ Put(Control(Sends[pc][1])) /\ pc' = Sends[pc][2] /\ UNCHANGED result
     \/ "tx" \in Faults /\ UNCHANGED down /\ Finish("failed")
  /\ IF pc \in {"eot", "eot2"} THEN UNCHANGED <<up, label>> ELSE ClearRx
  /\ UNCHANGED <<sent, seq, attempt, session, crowded, stop, overtaken, device>>

(* wait_for_byte: any other byte is passed over.                               *)
AwaitByte ==
  /\ pc \in DOMAIN Awaits /\ ~stop /\ up # <<>>
  /\ up' = Tail(up) /\ label' = LabelFrom({Head(up)})
  /\ pc' = IF Head(up) = Awaits[pc][1] THEN Awaits[pc][2] ELSE pc
  /\ UNCHANGED <<sent, seq, attempt, result, session, crowded, stop, overtaken, down, device>>

AwaitFails ==
  /\ pc \in DOMAIN Awaits /\ TimesOut
  /\ Finish("failed") /\ overtaken' = (overtaken \/ InFlight)
  /\ UNCHANGED <<sent, seq, attempt, session, crowded, label, stop, down, up, device>>

(* Mutant: every retry reads the file again.                                   *)
ContentsReread ==
  CASE pc = "data" -> [kind |-> "data", seq |-> seq, block |-> <<session, sent + attempt>>]
    [] OTHER       -> Control(pc)

(* A data packet is made before its first try; the others carry no block.      *)
Contents ==
  CASE pc = "data" -> [kind |-> "data", seq |-> seq, block |-> <<session, sent + 1>>]
    [] OTHER       -> Control(pc)

(* One try of send_ymodem_packet_with_retry.  What is still in rx_ring stays.   *)
SendPacket ==
  /\ pc \in DOMAIN AckPlace /\ ~stop /\ attempt <= Tries
  /\ pc = "data" => sent < Blocks
  /\ \/ Put(Contents) /\ pc' = AckPlace[pc] /\ UNCHANGED result
     \/ "tx" \in Faults /\ UNCHANGED down /\ Finish("failed")
  /\ UNCHANGED <<sent, seq, attempt, session, crowded, label, stop, overtaken, up, device>>

(* The end of the file, or a read that returns nothing before it.              *)
DataDone ==
  /\ pc = "data" /\ ~stop /\ attempt = 1
  /\ sent = Blocks \/ "short" \in Faults
  /\ pc' = "eot"
  /\ UNCHANGED <<host, down, up, device>>

(* Mutant: the sequence number does not advance with the data.                 *)
AckReadStuckSeq ==
  /\ pc \in DOMAIN Acked /\ ~stop /\ up # <<>>
  /\ up' = Tail(up) /\ label' = LabelFrom({Head(up)})
  /\ CASE Head(up) = "ACK" ->
            /\ pc' = Acked[pc] /\ attempt' = 1 /\ UNCHANGED seq
            /\ IF pc = "data_ack" THEN sent' = sent + 1 ELSE UNCHANGED sent
       [] Head(up) = "NAK" ->
            /\ pc' = CHOOSE p \in DOMAIN AckPlace : AckPlace[p] = pc
            /\ attempt' = attempt + 1 /\ UNCHANGED <<sent, seq>>
       [] OTHER -> UNCHANGED <<pc, attempt, sent, seq>>
  /\ UNCHANGED <<result, session, crowded, stop, overtaken, down, device>>

AckRead ==
  /\ pc \in DOMAIN Acked /\ ~stop /\ up # <<>>
  /\ up' = Tail(up) /\ label' = LabelFrom({Head(up)})
  /\ CASE Head(up) = "ACK" ->
            /\ pc' = Acked[pc] /\ attempt' = 1
            /\ IF pc = "data_ack"
                 THEN sent' = sent + 1 /\ seq' = (seq + 1) % Modulus
                 ELSE UNCHANGED <<sent, seq>>
       [] Head(up) = "NAK" ->
            /\ pc' = CHOOSE p \in DOMAIN AckPlace : AckPlace[p] = pc
            /\ attempt' = attempt + 1 /\ UNCHANGED <<sent, seq>>
       [] OTHER -> UNCHANGED <<pc, attempt, sent, seq>>
  /\ UNCHANGED <<result, session, crowded, stop, overtaken, down, device>>

(* Mutant: a retry is not counted.                                             *)
AckTimeoutUncounted ==
  /\ pc \in DOMAIN Acked /\ TimesOut
  /\ pc' = CHOOSE p \in DOMAIN AckPlace : AckPlace[p] = pc
  /\ overtaken' = (overtaken \/ InFlight)
  /\ UNCHANGED <<sent, seq, attempt, result, session, crowded, label, stop, down, up, device>>

AckTimeout ==
  /\ pc \in DOMAIN Acked /\ TimesOut
  /\ pc' = CHOOSE p \in DOMAIN AckPlace : AckPlace[p] = pc
  /\ attempt' = attempt + 1
  /\ overtaken' = (overtaken \/ InFlight)
  /\ UNCHANGED <<sent, seq, result, session, crowded, label, stop, down, up, device>>

(* The tries are used up.                                                      *)
TriesFail ==
  /\ pc \in DOMAIN AckPlace /\ attempt > Tries
  /\ Finish("failed")
  /\ UNCHANGED <<sent, seq, attempt, session, crowded, label, stop, overtaken, down, up, device>>

(* A stop request ends every loop and fails every send.                        *)
Stopped ==
  /\ stop /\ pc \notin {"idle", "report"}
  /\ Finish("failed")
  /\ UNCHANGED <<sent, seq, attempt, session, crowded, label, stop, overtaken, down, up, device>>

(* After 'a' the call returns 0, and the flash command wipes the record.        *)
Report ==
  /\ pc = "report"
  /\ Finish("ok") /\ label' = FALSE
  /\ UNCHANGED <<sent, seq, attempt, session, crowded, stop, overtaken, down, up, device>>

(* Between calls the callback still reads what arrives.                        *)
RxIdle ==
  /\ pc = "idle" /\ up # <<>>
  /\ up' = Tail(up) /\ label' = LabelFrom({Head(up)})
  /\ UNCHANGED <<pc, sent, seq, attempt, result, session, crowded, stop, overtaken, down, device>>

-----------------------------------------------------------------------------
(* The bootloader and the bus.                                             *)

Reply(bytes) == Len(up) + Len(bytes) <= Depth /\ up' = up \o bytes

(* A packet in the header, data and EOT modes: the expected one is stored, the *)
(* last one is acknowledged again, any other is refused.                       *)
ReceivePacket(p) ==
  \/ /\ mode = "header" /\ p.kind = "header"
     /\ mode' = "data" /\ expect' = 1 % Modulus /\ image' = <<>>
     /\ Reply(<<"ACK", "C">>)
  \/ /\ mode = "header" /\ p.kind = "close"
     /\ mode' = "menu" /\ UNCHANGED <<expect, image>> /\ Reply(<<"ACK">>)
  \/ /\ mode = "data" /\ p.kind = "data" /\ p.seq = expect
     /\ image' = Append(image, p.block) /\ expect' = (expect + 1) % Modulus
     /\ UNCHANGED mode /\ Reply(<<"ACK">>)
  \/ /\ mode = "data" /\ p.seq # expect
     /\ UNCHANGED device
     /\ Reply(IF (p.seq + 1) % Modulus = expect
                THEN IF p.kind = "header" THEN <<"ACK", "C">> ELSE <<"ACK">>
                ELSE <<"NAK">>)
  \/ /\ mode = "eot"
     /\ UNCHANGED device
     /\ Reply(IF (p.seq + 1) % Modulus = expect THEN <<"ACK">> ELSE <<"NAK">>)
  \/ mode \notin Upload /\ UNCHANGED <<device, up>>

(* A command byte; one that the mode does not know is ignored.                 *)
ReceiveByte(b) ==
  \/ mode = "app" /\ b = "r" /\ mode' = "boot" /\ UNCHANGED up
  \/ mode = "boot" /\ b = "m" /\ mode' = "menu" /\ Reply(<<"menu">>)
  \/ mode = "menu" /\ b = "u" /\ mode' = "header" /\ Reply(<<"C">>)
  \/ mode = "menu" /\ b = "a" /\ mode' = "app" /\ Reply(<<"app">>)
  \/ mode = "data" /\ b = "EOT" /\ mode' = "eot" /\ Reply(<<"NAK">>)
  \/ mode = "eot" /\ b = "EOT" /\ mode' = "header" /\ Reply(<<"ACK", "C">>)
  \/ /\ <<mode, b>> \notin {<<"app", "r">>, <<"boot", "m">>, <<"menu", "u">>,
                            <<"menu", "a">>, <<"data", "EOT">>, <<"eot", "EOT">>}
     /\ UNCHANGED <<mode, up>>

DeviceReceives ==
  /\ down # <<>> /\ down' = Tail(down)
  /\ LET f == Head(down) IN
     IF f.kind \in Commands
       THEN ReceiveByte(f.kind) /\ UNCHANGED <<expect, image>>
       ELSE ReceivePacket(f)
  /\ UNCHANGED <<pc, host>>

(* The bootloader asks again, gives a transfer up, or starts the application.  *)
DeviceAlone ==
  /\ \/ mode = "header" /\ up = <<>> /\ Reply(<<"C">>) /\ UNCHANGED mode
     \/ mode \in Upload /\ mode' = "menu" /\ (UNCHANGED up \/ Reply(<<"menu">>))
     \/ mode = "boot" /\ mode' = "app" /\ (UNCHANGED up \/ Reply(<<"app">>))
  /\ UNCHANGED <<pc, host, down, expect, image>>

(* A frame is lost on the way, or a packet arrives damaged and is refused.     *)
Damage ==
  /\ "loss" \in Faults
  /\ \/ down # <<>> /\ down' = Tail(down) /\ UNCHANGED up
     \/ up # <<>> /\ up' = Tail(up) /\ UNCHANGED down
     \/ /\ down # <<>> /\ Head(down).kind \notin Commands /\ mode \in Upload
        /\ down' = Tail(down) /\ Reply(<<"NAK">>)
  /\ UNCHANGED <<pc, host, device>>

Signal ==
  /\ ~stop /\ stop' = TRUE
  /\ UNCHANGED <<pc, sent, seq, attempt, result, session, crowded, label, overtaken, down, up, device>>

-----------------------------------------------------------------------------
Expires == AwaitFails \/ AckTimeout

Host ==
  \/ PowerCycle \/ PowerCycleFails \/ SendByte \/ AwaitByte \/ SendPacket
  \/ DataDone \/ AckRead \/ Expires \/ TriesFail \/ Stopped \/ Report

Next ==
  \/ FlashFile \/ Host \/ RxIdle
  \/ DeviceReceives \/ DeviceAlone \/ Damage \/ Signal

Spec == Init /\ [][Next]_vars

(* The host keeps moving, and its deadlines are absolute: bytes that keep       *)
(* coming do not postpone them.  The bootloader takes what arrives.            *)
FairSpec == Spec /\ WF_vars(Host) /\ SF_vars(Expires) /\ WF_vars(DeviceReceives)

-----------------------------------------------------------------------------
(* Properties.                                                             *)

FileOf(s, n) == [k \in 1 .. n |-> <<s, k>>]

(* A flash that is reported as done has written exactly the blocks that were   *)
(* read from the file, in order, though packets, ACKs and the handshake bytes  *)
(* are lost and sent again - unless this call overtook a reply: the ACK loop    *)
(* does not tell for which packet, or for which call, an ACK is, and does not   *)
(* clear rx_ring.                                                               *)
StoredAsSent == result = "ok" /\ ~overtaken => image = FileOf(session, sent)

(* Whatever is lost, late or sent again, the motor holds a gapless beginning of *)
(* the file of a single transfer - unless a call was started while replies of   *)
(* an earlier one were on their way, which it can take for those to its own     *)
(* 'u' and header and send data to a transfer that was never ended.             *)
ImageIsPrefix ==
  image # <<>> /\ ~crowded => \E s \in 1 .. Sessions : image = FileOf(s, Len(image))

(* A flash returns, also when replies are lost and the bootloader keeps asking. *)
FlashReturns == pc # "idle" ~> pc = "idle"

=============================================================================
