------------------------------ MODULE MCFirmware ------------------------------
(* Two motors of type A, files for two series of A and one of B, and plans *)
(* that name both motors, one of them twice, one that is not configured,   *)
(* a file, and one that lacks a field.                                     *)
EXTENDS Firmware

Row(item, key, val) == [item |-> item, key |-> key, val |-> val, good |-> TRUE]
TargetRows(i, bus, id, version) ==
  << Row(TRUE, "index", i), Row(FALSE, "bus", bus), Row(FALSE, "id", id),
     Row(FALSE, "version", version) >>
Head0 == << Row(FALSE, "firmware_dir", "firmware"), Row(FALSE, "targets", "") >>
First(version) == TargetRows(0, 0, 1, version)
Second(version) == TargetRows(1, 0, 2, version)

MCDefaultPlan == Head0 \o First("A") \o Second("A")
MCPlans ==
  { MCDefaultPlan,
    Head0 \o First("B0") \o First("A"),
    Head0 \o Second("A") \o TargetRows(2, 1, 1, "A") \o << Row(TRUE, "name", "spare") >>,
    Head0 \o First("A") \o << Row(TRUE, "index", 1) >> }

MCFileFor == [p \in {"A", "B"} \X {"0.2", "1.4"} |->
                CASE p = <<"A", "0.2">> -> {"A0"} [] p = <<"A", "1.4">> -> {"A1"}
                  [] p = <<"B", "0.2">> -> {"B0"} [] OTHER -> {}]
MCBaseFile == [t \in {"A", "B"} |-> IF t = "A" THEN "A1" ELSE "B0"]
MCContent == [f \in {"A0", "A1", "B0"} |->
                [type |-> IF f = "B0" THEN "B" ELSE "A", series |-> IF f = "A1" THEN "1.4" ELSE "0.2"]]
MCConfig == <<"0.2", "1.4">>
MCFitted == <<MCContent["A0"], MCContent["A1"]>>
MCLimit == [starts |-> 2, boots |-> 2, jobs |-> 2, lost |-> 1, swaps |-> 1]

(* The theorems of FirmwareProofs suppose this of an installation.         *)
ASSUME MCInstallation == Dense /\ NamesTrue
=============================================================================
