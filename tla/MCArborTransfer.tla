---------------------------- MODULE MCArborTransfer ----------------------------
(* A small instance of ArborTransfer for TLC: two files for DC01, one for DC02. *)
EXTENDS ArborTransfer, TLC

CONSTANTS dc01, dc02, full, inc, other, j1, j2

MCActiveDcs == <<dc01, dc02>>
MCDcOf == (full :> dc01) @@ (inc :> dc01) @@ (other :> dc02)

\* Every installation, and the one that moves the files from incoming.
MCSites == [move : BOOLEAN, archive : BOOLEAN, slow : BOOLEAN, overlap : BOOLEAN]
MovingSite == {[move |-> TRUE, archive |-> FALSE, slow |-> FALSE, overlap |-> FALSE]}

JobSymmetry == Permutations({j1, j2})

================================================================================
