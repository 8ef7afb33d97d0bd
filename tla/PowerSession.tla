---------------------------- MODULE PowerSession ----------------------------
(***************************************************************************)
(* What one run of motor_console promises about the motor supply, with     *)
(* nothing said of how: the supply is switched while the program runs, a   *)
(* switch-off may fail, and the program never ends with the supply on      *)
(* unless its last word to the supply was a switch-off that failed.        *)
(***************************************************************************)

VARIABLES
  rail,       (* the supply is on                                          *)
  open,       (* the program still runs                                    *)
  cutFailed   (* the last effective call on the supply was a failed cut    *)

vars == <<rail, open, cutFailed>>

TypeOK ==
  /\ rail \in BOOLEAN
  /\ open \in BOOLEAN
  /\ cutFailed \in BOOLEAN

Init ==
  /\ rail = FALSE
  /\ open = TRUE
  /\ cutFailed = FALSE

Energise ==
  /\ open
  /\ rail' = TRUE
  /\ cutFailed' = FALSE
  /\ UNCHANGED open

Cut ==
  /\ open
  /\ rail' = FALSE
  /\ cutFailed' = FALSE
  /\ UNCHANGED open

CutFails ==
  /\ open
  /\ cutFailed' = TRUE
  /\ UNCHANGED <<rail, open>>

Close ==
  /\ open
  /\ rail => cutFailed
  /\ open' = FALSE
  /\ UNCHANGED <<rail, cutFailed>>

Next == Energise \/ Cut \/ CutFails \/ Close

Spec == Init /\ [][Next]_vars

=============================================================================
