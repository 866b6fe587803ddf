--------------------------- MODULE MCLoginLimiter ---------------------------
(* Small instances of LoginLimiter for TLC.                                  *)
EXTENDS LoginLimiter, TLC

CONSTANTS c1, c2, c3
ThreeClients == {c1, c2, c3}
Symmetry == Permutations(Clients)
=============================================================================
