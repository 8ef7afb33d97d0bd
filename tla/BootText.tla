------------------------------- MODULE BootText -------------------------------
(***************************************************************************)
(* The text that a motor prints when it starts, and what the receive       *)
(* callback learns from it (runtime.c).  Text comes in frames that cut the *)
(* lines; a line is put together per motor index and looked at when a      *)
(* newline ends it or when its buffer is full.  CR and LF together are one *)
(* newline, and an empty line does nothing, so every newline is one.       *)
(* A line is a sequence of the pieces that the callback tells apart.       *)
(***************************************************************************)
EXTENDS Naturals, Sequences

CONSTANT Room           \* pieces that fit in LINE_LEN: a line of the banner has two

ASSUME RoomAssumption == Room \in Nat /\ Room >= 2

NL == [k |-> "newline"]
Mark == [k |-> "mark"]                       \* HW    :  PRO   :  Program for
Name(t) == [k |-> "name", v |-> t]           \* Bxi_motor_85
Ver(s) == [k |-> "ver", v |-> s]             \* VER   : code=1.4.27
Cfg(s) == [k |-> "cfg", v |-> s]             \* config=1.2
Digits == {"name", "ver", "cfg"}             \* the pieces that have digits

Garbled == "garbled"                         \* a type that no motor_types entry describes

(* What the console knows of a motor's firmware: sets of at most one.      *)
(* `boot' is fw_version_from_boot.                                         *)
Nothing == [ver |-> {}, boot |-> FALSE, cfg |-> {}, type |-> {}]

(* update_motor_detected_type_from_line: the text after the first marker,  *)
(* from its first digit to the end of the line.                            *)
TypeIn(ln) ==
  LET marks == {i \in DOMAIN ln : ln[i].k = "mark"}
      first == CHOOSE i \in marks : \A j \in marks : i <= j
      rest == SubSeq(ln, first + 1, Len(ln))
  IN IF marks = {} \/ \A i \in DOMAIN rest : rest[i].k \notin Digits THEN {}
     ELSE IF Len(rest) = 1 /\ rest[1].k = "name" THEN {rest[1].v} ELSE {Garbled}

(* The sscanf of update_motor_state_from_boot_line is anchored at the start *)
(* of the line and needs all five numbers.                                  *)
IsVersion(ln) == Len(ln) >= 2 /\ ln[1].k = "ver" /\ ln[2].k = "cfg"

Learn(r, ln) ==
  LET told == IF IsVersion(ln)
              THEN [r EXCEPT !.ver = {ln[1].v}, !.boot = TRUE, !.cfg = {ln[2].v}] ELSE r
      type == TypeIn(ln)
  IN IF type = {} THEN told ELSE [told EXCEPT !.type = type]

(* print_boot_log_line *)
EndLine(b) == [line |-> <<>>, rec |-> Learn(b.rec, b.line)]

(* print_boot_terminal_output, one piece: a full buffer is forced out. *)
Put(b, piece) ==
  CASE piece = NL -> EndLine(b)
    [] piece # NL /\ Len(b.line) < Room -> [b EXCEPT !.line = Append(@, piece)]
    [] OTHER -> [EndLine(b) EXCEPT !.line = <<piece>>]

Feed(b, frame) ==
  LET fed[n \in 0 .. Len(frame)] == IF n = 0 THEN b ELSE Put(fed[n - 1], frame[n])
  IN fed[Len(frame)]

(* What the application prints: the firmware is not part of the repository. *)
Banner(image, config) ==
  << <<Mark>>, <<Name(image.type), NL, Ver(image.series)>>, <<Cfg(config), NL>> >>
=============================================================================
