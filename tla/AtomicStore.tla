---------------------------- MODULE AtomicStore ----------------------------
(***************************************************************************)
(* What the state file promises, seen from the repository: one cell that   *)
(* at every moment holds a complete snapshot.  A snapshot is a number; a   *)
(* save replaces the cell by the snapshot in memory in one step, a restore *)
(* by one that a backup holds, a restart of the process reloads it.        *)
(* The promise ends (void) when two writers have one temporary file open   *)
(* at a time.  StateFile shows that the write-temp-and-rename protocol of  *)
(* save and of copyFile implements this.                                   *)
(***************************************************************************)
EXTENDS Integers

VARIABLES mem,    \* the snapshot in memory
          file,   \* the snapshot the state file holds
          backup, \* the snapshots that backups hold
          next,   \* number of the next snapshot
          void    \* nothing is promised any more

Init == mem = 0 /\ file = 0 /\ backup = {} /\ next = 1 /\ void = FALSE

\* A repository method changes the maps in memory.
Mutate == mem' = next /\ next' = next + 1 /\ UNCHANGED <<file, backup>>
\* save takes effect.
Commit == file' = mem /\ UNCHANGED <<mem, backup, next>>
\* A backup takes effect: it holds some snapshot that was made before.
TakeBackup == (\E v \in 0 .. next - 1 : backup' = backup \cup {v}) /\ UNCHANGED <<mem, file, next>>
\* A restore takes effect.
Restore == file' \in backup /\ UNCHANGED <<mem, backup, next>>
\* The process dies and comes back with the snapshot of the file.
Reload == mem' = file /\ UNCHANGED <<file, backup, next>>

Next ==
  \/ void' = TRUE
  \/ /\ void = FALSE /\ void' = FALSE
     /\ Mutate \/ Commit \/ TakeBackup \/ Restore \/ Reload

Spec == Init /\ [][Next]_<<mem, file, backup, next, void>>
=============================================================================
