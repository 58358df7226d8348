------------------------- MODULE MCScheduleAccounting -------------------------
(* Small instances of ScheduleAccounting for TLC. *)
EXTENDS ScheduleAccounting, TLC

CONSTANTS e1, e2, daily, weekly, day0

\* Rows are numbered in the order of started_at: no symmetry on jobs.
EquipmentSymmetry == Permutations({e1, e2})

===============================================================================
