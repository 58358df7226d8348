------------------------- MODULE MCArborOrchestration -------------------------
(* A small instance of ArborOrchestration for TLC: two files of one data centre. *)
EXTENDS ArborOrchestration, TLC

CONSTANTS e1, daily, dc01, full, inc

MCActiveDcs == <<dc01>>
MCDcOf == (full :> dc01) @@ (inc :> dc01)

\* Scheduled backups that copy, and the ones that may overlap: those that move.
MCInstallations == {i \in [move : BOOLEAN, archive : {FALSE}, slow : {FALSE}, manual : BOOLEAN] :
                      i.manual = i.move}

FileSymmetry == Permutations({full, inc})

================================================================================
