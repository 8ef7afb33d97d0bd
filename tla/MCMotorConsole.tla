--------------------------- MODULE MCMotorConsole ---------------------------
(***************************************************************************)
(* The console with the motors as interchangeable model values.            *)
(***************************************************************************)
EXTENDS MotorConsole, TLC

Symmetry == Permutations(Motors)

=============================================================================
