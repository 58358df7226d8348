--------------------------- MODULE MCNetHsmTransfer ---------------------------
(* A small instance of NetHsmTransfer for TLC. *)
EXTENDS NetHsmTransfer, TLC

CONSTANTS j1, j2, j3, h1, h2, s1, s2, s3

Symmetries ==
  Permutations({j1, j2, j3}) \cup Permutations({h1, h2}) \cup Permutations({s1, s2, s3})

================================================================================
