------------------------------ MODULE MCF5Backup ------------------------------
(* A small instance of F5Backup for TLC: a cluster of two members whose labels *)
(* begin with the same word, and one standalone device.                        *)
EXTENDS F5Backup, TLC

CONSTANTS m1, m2, dn1, j1, j2, s1, s2

MCPeers    == <<m1, m2>>
MCHostname == (m1 :> "ltm1") @@ (m2 :> "ltm2") @@ (dn1 :> "dn1")
MCLabel    == (m1 :> "f5") @@ (m2 :> "f5") @@ (dn1 :> "f5-dn1")

Symmetries == Permutations({j1, j2}) \cup Permutations({s1, s2})

================================================================================
