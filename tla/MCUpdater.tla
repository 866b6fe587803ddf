------------------------------ MODULE MCUpdater ------------------------------
(* Small instances of Updater for TLC.                                       *)
EXTENDS Updater

CONSTANTS r1, r2
TwoRequests == {r1, r2}
=============================================================================
