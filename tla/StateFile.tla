----------------------------- MODULE StateFile -----------------------------
(***************************************************************************)
(* The file protocol of the state file.                                    *)
(*                                                                         *)
(* Repository.save (under the repository's mutex) writes <state>.tmp and   *)
(* renames it over the state file.  backup.Run and backup.Restore copy the *)
(* state file to a backup and back with copyFile, which writes             *)
(* <destination>.tmp and renames it - without the mutex, and for Restore   *)
(* through the very <state>.tmp that save uses.  The API handler of both   *)
(* then records an audit entry, which is a repository mutation with its    *)
(* own save.  Restore does not touch the repository's memory.              *)
(*                                                                         *)
(* The file system is modelled with names, inodes and open descriptors,    *)
(* because O_TRUNC on an existing name truncates the inode another writer  *)
(* still holds open, and rename moves whatever inode the name then has.  A *)
(* file is a sequence of blocks; snapshots differ in length, so one        *)
(* written over another can leave a tail.                                  *)
(***************************************************************************)
EXTENDS Integers, Sequences, FiniteSets

CONSTANTS
  Procs,        \* requests in flight
  Sizes,        \* how many blocks snapshot v has: Sizes[v]
  MaxSnapshots, \* bound: snapshots numbered 0 .. MaxSnapshots
  MaxFails,     \* bound: file operations that fail
  MaxRestarts,  \* bound: restarts of the process
  MaxCopies     \* bound: backups and restores

ASSUME SnapshotAssumption ==
  /\ MaxSnapshots \in Nat \ {0}
  /\ Sizes \in [0 .. MaxSnapshots -> Nat \ {0}]
  /\ MaxFails \in Nat /\ MaxRestarts \in Nat /\ MaxCopies \in Nat
  /\ IsFiniteSet(Procs)

Names == {"state", "state.tmp", "backup", "backup.tmp"}
Inodes == 1 .. 4 + 2 * Cardinality(Procs)
NoInode == 0
TmpOf(name) == IF name = "state" THEN "state.tmp" ELSE "backup.tmp"

VARIABLES
  dir,      \* name -> inode
  data,     \* inode -> blocks
  mem,      \* snapshot in memory
  next,     \* number of the next snapshot
  lock,     \* holder of Repository.mu, or {}
  proc,     \* the requests
  acked,    \* snapshot of the last save that reported success, or -1
  wanted,   \* snapshot the last successful restore put back, or -1
  past,     \* history: raced, two writers had one temporary file open at a
            \* time; kept, the snapshots that backups have held
  phase,    \* "up", or "dead": New fails and the daemon cannot start
  bound     \* [fails, restarts, copies] so far

vars == <<dir, data, mem, next, lock, proc, acked, wanted, past, phase, bound>>

Blocks(v) == [i \in 1 .. Sizes[v] |-> <<v, i>>]
Hole == <<-1, 0>>   \* what a write beyond the end of a truncated file leaves

\* json.Unmarshal accepts a file that is one whole snapshot and nothing else.
Decodes(blocks) == \E v \in 0 .. next - 1 : blocks = Blocks(v)
SnapshotOf(blocks) == CHOOSE v \in 0 .. next - 1 : blocks = Blocks(v)
FileAt(name) == data[dir[name]]

IdleProc == [pc |-> "idle", op |-> "mutate", ver |-> 0, src |-> NoInode,
             dst |-> NoInode, pos |-> 0]

Init ==
  /\ dir = [n \in Names |-> IF n = "state" THEN 1 ELSE NoInode]
  /\ data = [i \in Inodes |-> IF i = 1 THEN [k \in 1 .. Sizes[0] |-> <<0, k>>]
                                       ELSE << >>]
  /\ mem = 0 /\ next = 1 /\ lock = {} /\ acked = 0 /\ wanted = -1
  /\ past = [raced |-> FALSE, kept |-> {}]
  /\ proc = [p \in Procs |-> IdleProc]
  /\ phase = "up"
  /\ bound = [fails |-> 0, restarts |-> 0, copies |-> 0]

-----------------------------------------------------------------------------
(* System calls (external).                                                  *)

InUse == {dir[n] : n \in Names}
           \cup {proc[p].src : p \in Procs} \cup {proc[p].dst : p \in Procs}
FreshInode == CHOOSE i \in Inodes : i \notin InUse

\* open(name, O_CREATE|O_WRONLY|O_TRUNC): the inode it yields.
OpenInode(name) == IF dir[name] = NoInode THEN FreshInode ELSE dir[name]
OpenTrunc(name) ==
  /\ dir' = [dir EXCEPT ![name] = OpenInode(name)]
  /\ data' = [data EXCEPT ![OpenInode(name)] = << >>]

\* write(fd): one block at the descriptor's own offset.
Overwrite(blocks, pos, b) ==
  [i \in 1 .. IF pos > Len(blocks) THEN pos ELSE Len(blocks) |->
     IF i = pos THEN b ELSE IF i <= Len(blocks) THEN blocks[i] ELSE Hole]

\* rename(from, to): fails when from is gone.
Rename(from, to) ==
  /\ dir[from] # NoInode
  /\ dir' = [dir EXCEPT ![to] = dir[from], ![from] = NoInode]
  /\ UNCHANGED data

Fail == bound.fails < MaxFails /\ bound' = [bound EXCEPT !.fails = @ + 1]

Source(op) == IF op = "restore" THEN "backup" ELSE "state"
Target(op) == IF op = "restore" THEN "state" ELSE "backup"

Busy == {p \in Procs : proc[p].pc # "idle"}

\* The writers that have the temporary file of name open, or renamed it not yet.
Writers(name) ==
  {p \in Procs : \/ name = "state" /\ proc[p].pc \in {"saveWrite", "saveRename"}
                 \/ proc[p].pc \in {"copy", "copyRename"} /\ Target(proc[p].op) = name}
Meets(name) == past' = [past EXCEPT !.raced = @ \/ Writers(name) # {}]

-----------------------------------------------------------------------------
(* Requests.                                                                 *)

Step(p, rec) == proc' = [proc EXCEPT ![p] = rec]
Done(p) == Step(p, IdleProc)

\* A request that mutates the repository, or one of the two saves without a
\* mutation (Migrate at the start, Close at the end of the process).
BeginSave(p, op) ==
  /\ phase = "up"
  /\ proc[p].pc = "idle"
  /\ Step(p, [IdleProc EXCEPT !.pc = "lock", !.op = op])
  /\ UNCHANGED <<dir, data, mem, next, lock, acked, wanted, past, phase, bound>>

\* The method takes the mutex, mutates memory and encodes it.
LockAndMutate(p) ==
  /\ proc[p].pc = "lock"
  /\ lock = {}
  /\ lock' = {p}
  /\ IF proc[p].op = "resave"
     THEN UNCHANGED <<mem, next, wanted>>
     ELSE /\ next <= MaxSnapshots
          /\ mem' = next
          /\ next' = next + 1
          /\ wanted' = IF proc[p].op = "mutate" THEN -1 ELSE wanted
  /\ Step(p, [proc[p] EXCEPT !.pc = "saveOpen", !.ver = mem'])
  /\ UNCHANGED <<dir, data, acked, past, phase, bound>>

\* Mutant of SaveOpen: the state file itself is rewritten.
SaveOpenInPlace(p) ==
  /\ proc[p].pc = "saveOpen"
  /\ OpenTrunc("state")
  /\ Meets("state")
  /\ Step(p, [proc[p] EXCEPT !.pc = "saveWrite", !.dst = OpenInode("state"),
                             !.pos = 1])
  /\ UNCHANGED <<mem, next, lock, acked, wanted, phase, bound>>

\* save: os.WriteFile opens the temporary file, ...
SaveOpen(p) ==
  /\ proc[p].pc = "saveOpen"
  /\ OpenTrunc("state.tmp")
  /\ Meets("state")
  /\ Step(p, [proc[p] EXCEPT !.pc = "saveWrite", !.dst = OpenInode("state.tmp"),
                             !.pos = 1])
  /\ UNCHANGED <<mem, next, lock, acked, wanted, phase, bound>>

\* ... writes the snapshot ...
SaveWrite(p) ==
  LET q == proc[p] IN
  /\ q.pc = "saveWrite"
  /\ data' = [data EXCEPT ![q.dst] = Overwrite(@, q.pos, Blocks(q.ver)[q.pos])]
  /\ Step(p, IF q.pos = Sizes[q.ver]
             THEN [q EXCEPT !.pc = "saveRename", !.dst = NoInode]
             ELSE [q EXCEPT !.pos = @ + 1])
  /\ UNCHANGED <<dir, mem, next, lock, acked, wanted, past, phase, bound>>

\* ... and renames it into place; the mutex is released.
SaveRename(p) ==
  /\ proc[p].pc = "saveRename"
  /\ Rename("state.tmp", "state")
  /\ acked' = proc[p].ver
  /\ lock' = {}
  /\ Done(p)
  /\ UNCHANGED <<mem, next, wanted, past, phase, bound>>

\* Mutant of SaveFails: the error is swallowed and success reported.
SaveFailsSwallowed(p) ==
  /\ proc[p].pc \in {"saveOpen", "saveWrite", "saveRename"}
  /\ Fail
  /\ acked' = proc[p].ver
  /\ lock' = {}
  /\ Done(p)
  /\ UNCHANGED <<dir, data, mem, next, wanted, past, phase>>

\* Any of the three may fail: the error is returned, memory stays changed.
\* The rename fails by necessity when the temporary file is gone.
SaveFails(p) ==
  /\ proc[p].pc \in {"saveOpen", "saveWrite", "saveRename"}
  /\ \/ Fail
     \/ /\ proc[p].pc = "saveRename" /\ dir["state.tmp"] = NoInode
        /\ UNCHANGED bound
  /\ lock' = {}
  /\ Done(p)
  /\ UNCHANGED <<dir, data, mem, next, acked, wanted, past, phase>>

\* backup.Run / backup.Restore: copyFile opens its source (which must exist)
\* and truncates or creates <destination>.tmp.
CopyOpen(p, op) ==
  /\ phase = "up"
  /\ proc[p].pc = "idle"
  /\ Meets(Target(op))
  /\ bound.copies < MaxCopies
  /\ bound' = [bound EXCEPT !.copies = @ + 1]
  /\ dir[Source(op)] # NoInode
  /\ OpenTrunc(TmpOf(Target(op)))
  /\ Step(p, [pc |-> "copy", op |-> op, ver |-> 0, src |-> dir[Source(op)],
              dst |-> OpenInode(TmpOf(Target(op))), pos |-> 1])
  /\ UNCHANGED <<mem, next, lock, acked, wanted, phase>>

\* io.Copy moves the source's blocks, as they are when it reads them.
CopyWrite(p) ==
  LET q == proc[p] IN
  /\ q.pc = "copy"
  /\ IF q.pos <= Len(data[q.src])
     THEN /\ data' = [data EXCEPT ![q.dst] =
                        Overwrite(@, q.pos, data[q.src][q.pos])]
          /\ Step(p, [q EXCEPT !.pos = @ + 1])
     ELSE /\ UNCHANGED data
          /\ Step(p, [q EXCEPT !.pc = "copyRename", !.dst = NoInode])
  /\ UNCHANGED <<dir, mem, next, lock, acked, wanted, past, phase, bound>>

\* handleRunBackup and handleRestoreBackup, after success: audit.Record, which
\* takes the mutex, adds an entry to the snapshot in memory and saves it.
RecordAudit(p) == Step(p, [proc[p] EXCEPT !.pc = "lock", !.src = NoInode])

\* The rename, and back to the handler.
CopyRename(p) ==
  LET q == proc[p] IN
  /\ q.pc = "copyRename"
  /\ Rename(TmpOf(Target(q.op)), Target(q.op))
  /\ IF q.op = "restore"
     THEN /\ wanted' = (IF Decodes(data[q.src]) THEN SnapshotOf(data[q.src]) ELSE -1)
          /\ acked' = -1
          /\ UNCHANGED past
     ELSE /\ past' = [past EXCEPT !.kept =
                        @ \cup {v \in 0 .. next - 1 : FileAt("backup.tmp") = Blocks(v)}]
          /\ UNCHANGED <<wanted, acked>>
  /\ RecordAudit(p)
  /\ UNCHANGED <<mem, next, lock, phase, bound>>

CopyFails(p) ==
  /\ proc[p].pc \in {"copy", "copyRename"}
  /\ \/ Fail
     \/ /\ proc[p].pc = "copyRename"
        /\ dir[TmpOf(Target(proc[p].op))] = NoInode
        /\ UNCHANGED bound
  /\ Done(p)
  /\ UNCHANGED <<dir, data, mem, next, lock, acked, wanted, past, phase>>

\* Mutant of Restart: load prefers a temporary file that was left behind.
RestartFromTmp ==
  LET from == IF dir["state.tmp"] # NoInode /\ Decodes(FileAt("state.tmp"))
              THEN "state.tmp" ELSE "state"
  IN
  /\ bound.restarts < MaxRestarts
  /\ bound' = [bound EXCEPT !.restarts = @ + 1]
  /\ Decodes(FileAt(from))
  /\ mem' = SnapshotOf(FileAt(from))
  /\ lock' = {}
  /\ proc' = [p \in Procs |-> IdleProc]
  /\ UNCHANGED <<dir, data, next, acked, wanted, past, phase>>

\* The process dies at any moment and systemd starts it again: New loads the
\* state file, or refuses to start when it does not decode.
Restart ==
  /\ bound.restarts < MaxRestarts
  /\ bound' = [bound EXCEPT !.restarts = @ + 1]
  /\ IF Decodes(FileAt("state"))
     THEN mem' = SnapshotOf(FileAt("state")) /\ UNCHANGED phase
     ELSE phase' = "dead" /\ UNCHANGED mem
  /\ lock' = {}
  /\ proc' = [p \in Procs |-> IdleProc]
  /\ UNCHANGED <<dir, data, next, acked, wanted, past>>

Next ==
  \/ \E p \in Procs :
       \/ \E op \in {"mutate", "resave"} : BeginSave(p, op)
       \/ LockAndMutate(p)
       \/ SaveOpen(p)
       \/ SaveWrite(p)
       \/ SaveRename(p)
       \/ SaveFails(p)
       \/ \E op \in {"backup", "restore"} : CopyOpen(p, op)
       \/ CopyWrite(p)
       \/ CopyRename(p)
       \/ CopyFails(p)
  \/ Restart

Spec == Init /\ [][Next]_vars

-----------------------------------------------------------------------------
(* Properties.                                                               *)

\* Whatever fails and whenever the process dies, the state file is one whole
\* snapshot and the daemon can start again - unless a restore has had
\* <state>.tmp open together with a save or another restore, or two backups of
\* one second have had theirs: only then can a file be torn.
StateFileDecodes == past.raced \/ Decodes(FileAt("state"))

\* A save that reported success stays: the state file holds that snapshot or a
\* later one, until a restore replaces it deliberately.
AckedDurable == acked >= 0 /\ ~past.raced => SnapshotOf(FileAt("state")) >= acked

\* The protocol implements the abstract store: renames commit, nothing else
\* changes what the file holds, and the promise ends only in the same race.
A == INSTANCE AtomicStore WITH
       file <- IF past.raced THEN -1 ELSE SnapshotOf(FileAt("state")),
       backup <- past.kept,
       void <- past.raced
ImplementsAtomicStore == A!Spec

-----------------------------------------------------------------------------
(* What the documentation and the tests say and the code does not keep.      *)

\* OPERATIONS.md:167 "Setelah restore, restart service direkomendasikan" (after
\* a restore, restarting the service is recommended; api.go:819 says the same
\* in the answer): the restart then loads the restored snapshot, if no request
\* has changed anything since.
RestoreSurvivesRestart ==
  [][(bound'.restarts # bound.restarts /\ wanted # -1 /\ Busy = {})
       => mem' = wanted]_vars

=============================================================================
