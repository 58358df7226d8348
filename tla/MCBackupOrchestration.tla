------------------------- MODULE MCBackupOrchestration -------------------------
(* Small instances of BackupOrchestration for TLC. *)
EXTENDS BackupOrchestration

CONSTANTS e1, e2, daily, weekly, day0

================================================================================
