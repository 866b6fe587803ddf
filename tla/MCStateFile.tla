---------------------------- MODULE MCStateFile ----------------------------
(* Small instances of StateFile for TLC.                                     *)
EXTENDS StateFile, TLC

CONSTANTS p1, p2
TwoProcs == {p1, p2}
\* Snapshots of different lengths: even ones are longer than odd ones.
MCSizes == [v \in 0 .. MaxSnapshots |-> 2 - (v % 2)]
Symmetry == Permutations(Procs)
=============================================================================
