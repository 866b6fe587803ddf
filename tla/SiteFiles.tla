----------------------------- MODULE SiteFiles -----------------------------
(***************************************************************************)
(* The file manager of one site: content updates, uploads, deletions,      *)
(* directories and content backups, as requests that run concurrently on   *)
(* one document root.  The code takes no lock here, so the grain is the    *)
(* system call.  The record of the site is read once and plays no further  *)
(* part (deleting a site leaves its files alone); paths are accepted ones, *)
(* see SitePaths.  List, read and download change nothing and are left     *)
(* out, and so is the audit entry, a save of the state file (StateFile).   *)
(***************************************************************************)
EXTENDS Naturals, Sequences, FiniteSets, SequencesExt

CONSTANTS
  Requests,    \* handlers that may run at the same time
  Paths,       \* paths below the root, as sequences of names; << >> is the root
  Editable,    \* the editable index files of resolveEditableFile
  Contents,    \* contents of files, as sequences of blocks
  MaxOps,      \* bound: requests made
  MaxFaults    \* bound: failing system calls

ASSUME PathsAssumption ==
  /\ IsFiniteSet(Paths) /\ Paths \subseteq Seq(STRING) /\ << >> \in Paths
  /\ \A p \in Paths : \A n \in 0 .. Len(p) : SubSeq(p, 1, n) \in Paths
  /\ Editable \subseteq {p \in Paths : Len(p) = 1}
ASSUME ContentsAssumption ==
  Contents \subseteq Seq(STRING)
ASSUME BoundsAssumption ==
  MaxOps \in Nat /\ MaxFaults \in Nat

VARIABLES
  fs,      \* what is at each path of the document root
  req,     \* the request each handler works on
  zips,    \* the archive files ever created, by inode: the entries written so far
  tmp,     \* <target>.tmp by second: its inode or 0
  saved,   \* finished archives by second: inode or 0
  now,     \* the second of the last backup begun
  begun,   \* backups begun in each second (history)
  ops,     \* requests made so far
  faults   \* failing system calls left

vars == <<fs, req, zips, tmp, saved, now, begun, ops, faults>>
clockVars == <<now, begun>>
archiveVars == <<zips, tmp, saved>>

None == [kind |-> "none", data |-> << >>]
Dir == [kind |-> "dir", data |-> << >>]
File(d) == [kind |-> "file", data |-> d]
IsFile(p) == fs[p].kind = "file"
Children(p) == {q \in Paths : q # << >> /\ Front(q) = p /\ fs[q] # None}

\* A request: its operation and arguments, where its handler is, the calls it
\* still has to make, whether its descriptor is of the file its path names, the
\* paths that others changed since it began (history), and its last answer.
Idle == [op |-> "none", path |-> << >>, data |-> << >>, at |-> "idle", todo |-> << >>,
         linked |-> FALSE, touched |-> {}, zip |-> 0, second |-> 0, reply |-> "none"]
Answer(reply) == [Idle EXCEPT !.reply = reply]
Working(op, p, at) == [Idle EXCEPT !.op = op, !.path = p, !.at = at]

-----------------------------------------------------------------------------
(* Steps of the file system.                                                 *)

\* The step of r makes newfs of the files; the others' descriptors of a
\* removed file lose their path, and their history records the change.
Change(r, newfs, next) ==
  /\ fs' = newfs
  /\ req' = [q \in Requests |->
       IF q = r THEN next
       ELSE IF req[q].at = "idle" THEN req[q]
       ELSE [req[q] EXCEPT !.touched = @ \cup {p \in Paths : newfs[p] # fs[p]},
                           !.linked = @ /\ newfs[req[q].path].kind = "file"]]

\* A step of r that leaves the files alone.
Proceed(r, next) == req' = [req EXCEPT ![r] = next] /\ UNCHANGED fs

\* A write(2) at offset 0 into a file that holds old.
Overwrite(d, old) == d \o SubSeq(old, Len(d) + 1, Len(old))

\* os.MkdirAll goes up from d until it finds a name that is there, the n-th from
\* the root, and fails unless that is a directory; MkdirStep then creates the
\* missing ones from the top.
UpTo(d) == [i \in 1 .. Len(d) + 1 |-> SubSeq(d, 1, i - 1)]
Found(d, n) == /\ n > 0 => fs[UpTo(d)[n]] # None
               /\ \A i \in n + 1 .. Len(d) + 1 : fs[UpTo(d)[i]] = None
Ensured(rec) == IF rec.todo # << >> THEN [rec EXCEPT !.at = "mkdir"]
                ELSE IF rec.op = "mkdir" THEN Answer("ok")
                ELSE [rec EXCEPT !.at = "open"]
MkdirAll(r, rec, d) ==
  \E n \in 0 .. Len(d) + 1 :
    /\ Found(d, n)
    /\ Proceed(r, IF n > 0 /\ fs[UpTo(d)[n]] # Dir THEN Answer("error")
                  ELSE Ensured([rec EXCEPT !.todo = SubSeq(UpTo(d), n + 1, Len(d) + 1)]))

MkdirStep(r) ==
  LET d == Head(req[r].todo)
      next == Ensured([req[r] EXCEPT !.todo = Tail(@)])
  IN  /\ req[r].at = "mkdir"
      /\ CASE IsFile(d) \/ (d # << >> /\ fs[Front(d)] # Dir) -> Proceed(r, Answer("error"))
           [] fs[d] = Dir -> Proceed(r, next)
           [] OTHER -> Change(r, [fs EXCEPT ![d] = Dir], next)
      /\ UNCHANGED <<archiveVars, clockVars, ops, faults>>

-----------------------------------------------------------------------------
(* The operations, up to their first look at the files.                      *)

New(r) ==
  /\ req[r].at = "idle"
  /\ ops < MaxOps
  /\ ops' = ops + 1
  /\ UNCHANGED <<archiveVars, faults>>

UpdateSiteContent(r, p, c) ==
  /\ New(r)
  /\ MkdirAll(r, [Working("content", p, "open") EXCEPT !.data = c], << >>)
  /\ UNCHANGED clockVars

UploadSiteFile(r, p, c) ==
  /\ New(r)
  /\ Proceed(r, IF fs[p] = Dir THEN Answer("error")
                ELSE [Working("upload", p, "ensure") EXCEPT !.data = c])
  /\ UNCHANGED clockVars

EnsureParent(r) ==
  /\ req[r].at = "ensure"
  /\ MkdirAll(r, req[r], Front(req[r].path))
  /\ UNCHANGED <<archiveVars, clockVars, ops, faults>>

DeleteSiteFile(r, p) ==
  /\ New(r)
  /\ Proceed(r, IF IsFile(p) THEN Working("delete", p, "remove") ELSE Answer("error"))
  /\ UNCHANGED clockVars

CreateSiteDirectory(r, p) ==
  /\ New(r)
  /\ MkdirAll(r, Working("mkdir", p, "mkdir"), p)
  /\ UNCHANGED clockVars

\* Mutant of DeleteSiteDirectory: the recursive flag is not looked at.
DeleteSiteDirectoryAlways(r, p, recursive) ==
  /\ New(r)
  /\ Proceed(r, IF fs[p] # Dir THEN Answer("error")
                ELSE [Working(IF recursive THEN "rmtree" ELSE "rmdir", p, "rmtree")
                        EXCEPT !.todo = <<<<"visit", p>>>>])
  /\ UNCHANGED clockVars

DeleteSiteDirectory(r, p, recursive) ==
  /\ New(r)
  /\ Proceed(r, IF fs[p] # Dir THEN Answer("error")
                ELSE IF recursive
                THEN [Working("rmtree", p, "rmtree") EXCEPT !.todo = <<<<"visit", p>>>>]
                ELSE Working("rmdir", p, "remove"))
  /\ UNCHANGED clockVars

\* The name of the archive is the second in which the backup begins.
BackupSiteContent(r) ==
  /\ New(r)
  /\ \E second \in {now + 1} \cup ({now} \ {0}) :
       /\ now' = second
       /\ begun' = [begun EXCEPT ![second] = @ + 1]
       /\ Proceed(r, [Working("backup", << >>, "zip") EXCEPT !.second = second])

-----------------------------------------------------------------------------
(* os.WriteFile: open with truncation, then one write.                       *)

\* Mutant of OpenFile: the file is opened without O_TRUNC.
OpenFileKeeping(r) ==
  LET p == req[r].path IN
  /\ req[r].at = "open"
  /\ IF fs[Front(p)] = Dir /\ fs[p] # Dir
     THEN Change(r, [fs EXCEPT ![p] = File(fs[p].data)], [req[r] EXCEPT !.at = "write", !.linked = TRUE])
     ELSE Proceed(r, Answer("error"))
  /\ UNCHANGED <<archiveVars, clockVars, ops, faults>>

OpenFile(r) ==
  LET p == req[r].path IN
  /\ req[r].at = "open"
  /\ IF fs[Front(p)] = Dir /\ fs[p] # Dir
     THEN Change(r, [fs EXCEPT ![p] = File(<< >>)], [req[r] EXCEPT !.at = "write", !.linked = TRUE])
     ELSE Proceed(r, Answer("error"))
  /\ UNCHANGED <<archiveVars, clockVars, ops, faults>>

\* The descriptor takes n blocks of the data; a file that lost its name in the
\* meantime takes them too, where nobody will find them.
Put(r, n, reply) ==
  LET p == req[r].path
      d == SubSeq(req[r].data, 1, n)
  IN  IF req[r].linked
      THEN Change(r, [fs EXCEPT ![p] = File(Overwrite(d, fs[p].data))], Answer(reply))
      ELSE Proceed(r, Answer(reply))

WriteFile(r) ==
  /\ req[r].at = "write"
  /\ Put(r, Len(req[r].data), "ok")
  /\ UNCHANGED <<archiveVars, clockVars, ops, faults>>

WriteFails(r) ==
  /\ req[r].at = "write"
  /\ faults > 0 /\ faults' = faults - 1
  /\ \E n \in 0 .. Len(req[r].data) - 1 : Put(r, n, "error")
  /\ UNCHANGED <<archiveVars, clockVars, ops>>

-----------------------------------------------------------------------------
(* Removal.                                                                  *)

\* os.Remove: unlink, or else rmdir; a directory must be empty.
RemoveStep(r) ==
  /\ req[r].at = "remove"
  /\ IF fs[req[r].path] # None /\ Children(req[r].path) = {}
     THEN Change(r, [fs EXCEPT ![req[r].path] = None], Answer("ok"))
     ELSE Proceed(r, Answer("error"))
  /\ UNCHANGED <<archiveVars, clockVars, ops, faults>>

\* os.RemoveAll goes through the tree: a file is unlinked, a directory's names
\* are read once and removed, then the directory itself.  Its answer is that of
\* the last call; a directory that was filled again meanwhile stays.
RemoveAllStep(r) ==
  LET act == Head(req[r].todo)[1]
      p == Head(req[r].todo)[2]
      rest == Tail(req[r].todo)
      next(reply) == IF rest = << >> THEN Answer(reply) ELSE [req[r] EXCEPT !.todo = rest]
      order == SetToSeq(Children(p))
      names == [i \in DOMAIN order |-> <<"visit", order[i]>>]
  IN  /\ req[r].at = "rmtree"
      /\ CASE fs[p] = None -> Proceed(r, next("ok"))
           [] act = "visit" /\ fs[p] = Dir ->
                Proceed(r, [req[r] EXCEPT !.todo = names \o <<<<"rmdir", p>>>> \o rest])
           [] \/ act = "visit" /\ IsFile(p)
              \/ act = "rmdir" /\ fs[p] = Dir /\ Children(p) = {} ->
                Change(r, [fs EXCEPT ![p] = None], next("ok"))
           [] OTHER -> Proceed(r, next("error"))
      /\ UNCHANGED <<archiveVars, clockVars, ops, faults>>

-----------------------------------------------------------------------------
(* Backup of the content: zipDirectory into <target>.tmp, then rename.       *)

NoEntries == [p \in Paths |-> None]

\* A failed backup removes the temporary file by its name.
BackupFails(r) ==
  /\ Proceed(r, Answer("error"))
  /\ tmp' = [tmp EXCEPT ![req[r].second] = 0]
  /\ UNCHANGED <<zips, saved>>

\* open(2) of the archive: the file of that name is emptied, whoever is writing it,
\* or a new one is created.
Opened(inode) == IF inode = Len(zips) + 1 THEN Append(zips, NoEntries)
                 ELSE [zips EXCEPT ![inode] = NoEntries]

\* Mutant of ZipOpen: the archive is written under its final name.
ZipOpenInPlace(r) ==
  /\ req[r].at = "zip"
  /\ IF fs[<< >>] # Dir THEN BackupFails(r)
     ELSE LET inode == Len(zips) + 1 IN
          /\ tmp' = [tmp EXCEPT ![req[r].second] = inode]
          /\ saved' = [saved EXCEPT ![req[r].second] = inode]
          /\ zips' = Opened(inode)
          /\ Proceed(r, [req[r] EXCEPT !.at = "walk", !.zip = inode, !.todo = <<<< >>>>])
  /\ UNCHANGED <<clockVars, ops, faults>>

ZipOpen(r) ==
  /\ req[r].at = "zip"
  /\ IF fs[<< >>] # Dir THEN BackupFails(r)
     ELSE LET inode == IF tmp[req[r].second] # 0 THEN tmp[req[r].second] ELSE Len(zips) + 1 IN
          /\ tmp' = [tmp EXCEPT ![req[r].second] = inode]
          /\ zips' = Opened(inode)
          /\ Proceed(r, [req[r] EXCEPT !.at = "walk", !.zip = inode, !.todo = <<<< >>>>])
          /\ UNCHANGED saved
  /\ UNCHANGED <<clockVars, ops, faults>>

\* Mutant of Walk: only the files in the root itself are archived.
WalkTopOnly(r) ==
  LET p == Head(req[r].todo) IN
  /\ req[r].at = "walk" /\ req[r].todo # << >>
  /\ IF fs[p] = None THEN BackupFails(r)
     ELSE /\ zips' = [zips EXCEPT ![req[r].zip][p] = IF p = << >> THEN @ ELSE fs[p]]
          /\ Proceed(r, [req[r] EXCEPT !.todo =
               (IF p = << >> THEN SetToSeq(Children(p)) ELSE << >>) \o Tail(@)])
          /\ UNCHANGED <<tmp, saved>>
  /\ UNCHANGED <<clockVars, ops, faults>>

\* filepath.Walk: the names in a directory are read when it is reached; a name
\* that is gone when its turn comes ends the walk with an error.
Walk(r) ==
  LET p == Head(req[r].todo) IN
  /\ req[r].at = "walk" /\ req[r].todo # << >>
  /\ IF fs[p] = None THEN BackupFails(r)
     ELSE /\ zips' = [zips EXCEPT ![req[r].zip][p] = IF p = << >> THEN @ ELSE fs[p]]
          /\ Proceed(r, [req[r] EXCEPT !.todo = SetToSeq(Children(p)) \o Tail(@)])
          /\ UNCHANGED <<tmp, saved>>
  /\ UNCHANGED <<clockVars, ops, faults>>

RenameZip(r) ==
  LET s == req[r].second IN
  /\ req[r].at = "walk" /\ req[r].todo = << >>
  /\ IF tmp[s] = 0 THEN BackupFails(r)
     ELSE /\ saved' = [saved EXCEPT ![s] = tmp[s]]
          /\ tmp' = [tmp EXCEPT ![s] = 0]
          /\ Proceed(r, Answer("ok"))
          /\ UNCHANGED zips
  /\ UNCHANGED <<clockVars, ops, faults>>

-----------------------------------------------------------------------------
\* Any other system call fails: the operation ends there.  An unlink that fails
\* inside os.RemoveAll is passed over, the directory is then not empty.
CallFails(r) ==
  /\ req[r].at \notin {"idle", "write"}
  /\ faults > 0 /\ faults' = faults - 1
  /\ IF req[r].op = "backup" THEN BackupFails(r)
     ELSE /\ Proceed(r, IF req[r].at = "rmtree" /\ Len(req[r].todo) > 1
                        THEN [req[r] EXCEPT !.todo = Tail(@)] ELSE Answer("error"))
          /\ UNCHANGED archiveVars
  /\ UNCHANGED <<clockVars, ops>>

(* The handlers: any accepted argument.                                      *)
Below == Paths \ {<< >>}
HandleUpdateSiteContent(r) == \E p \in Editable, c \in Contents : UpdateSiteContent(r, p, c)
HandleUploadSiteFile(r) == \E p \in Below, c \in Contents : UploadSiteFile(r, p, c)
HandleDeleteSiteFile(r) == \E p \in Below : DeleteSiteFile(r, p)
HandleCreateSiteDir(r) == \E p \in Below : CreateSiteDirectory(r, p)
HandleDeleteSiteDir(r) == \E p \in Below, recursive \in BOOLEAN : DeleteSiteDirectory(r, p, recursive)
HandleBackupSiteContent(r) == BackupSiteContent(r)

Trees == {t \in [Paths -> {None, Dir} \cup {File(c) : c \in Contents}] :
            /\ t[<< >>].kind # "file"
            /\ \A p \in Below : t[p] # None =>
                 \A n \in 0 .. Len(p) - 1 : t[SubSeq(p, 1, n)] = Dir}

Init ==
  /\ fs \in Trees
  /\ req = [r \in Requests |-> Idle]
  /\ zips = << >>
  /\ tmp = [s \in 1 .. MaxOps |-> 0]
  /\ saved = [s \in 1 .. MaxOps |-> 0]
  /\ now = 0 /\ begun = [s \in 1 .. MaxOps |-> 0] /\ ops = 0 /\ faults = MaxFaults

Handler(r) ==
  \/ HandleUpdateSiteContent(r) \/ HandleUploadSiteFile(r) \/ HandleDeleteSiteFile(r)
  \/ HandleCreateSiteDir(r) \/ HandleDeleteSiteDir(r) \/ HandleBackupSiteContent(r)
Step(r) ==
  \/ EnsureParent(r) \/ MkdirStep(r) \/ OpenFile(r) \/ WriteFile(r) \/ WriteFails(r)
  \/ RemoveStep(r) \/ RemoveAllStep(r) \/ ZipOpen(r) \/ Walk(r) \/ RenameZip(r) \/ CallFails(r)

Next == \E r \in Requests : Handler(r) \/ Step(r)
Spec == Init /\ [][Next]_vars

-----------------------------------------------------------------------------
(* Properties.                                                               *)

Answered(r, op) == req[r].op = op /\ req[r].at # "idle" /\ req'[r].at = "idle" /\ req'[r].reply = "ok"

\* An answer "ok" is true: the file holds exactly the uploaded or edited content,
\* the directory is there, the file is gone, where no other request interfered;
\* after a recursive deletion the whole tree is gone, whoever interfered.
OkMeansDone == [][\A r \in Requests : LET p == req[r].path IN
  /\ (Answered(r, "upload") \/ Answered(r, "content")) /\ p \notin req[r].touched
       => fs'[p] = File(req[r].data)
  /\ Answered(r, "mkdir") /\ p \notin req[r].touched => fs'[p] = Dir
  /\ (Answered(r, "delete") \/ Answered(r, "rmdir")) /\ p \notin req[r].touched => fs'[p] = None
  /\ Answered(r, "rmtree") =>
       \A q \in Paths : IsPrefix(p, q) => fs'[q] = None]_vars

\* Who changed p in this step: recursive deletion below its directory, deletion
\* of exactly that file or empty directory, of the kind the request had seen
\* unless another request changed it since, creation of a missing directory on
\* the way to the target, or a write to the target itself.
Explains(r, p) ==
  LET q == req[r] IN
  \/ fs'[p] = None /\ q.op = "rmtree" /\ IsPrefix(q.path, p)
  \/ /\ fs'[p] = None /\ p = q.path
     /\ \/ q.op = "delete" /\ (IsFile(p) \/ p \in q.touched)
        \/ q.op = "rmdir" /\ (fs[p] = Dir \/ p \in q.touched)
  \/ fs[p] = None /\ fs'[p] = Dir /\ q.op \in {"content", "upload", "mkdir"} /\ IsPrefix(p, q.path)
  \/ fs'[p].kind = "file" /\ fs[p] # Dir /\ q.op \in {"content", "upload"} /\ p = q.path

\* Nothing in the document root appears, changes or disappears but through a
\* request that asks for it.
ChangesOnlyAsked == [][\A p \in Paths : fs'[p] # fs[p] =>
  \E r \in Requests : req[r].at # "idle" /\ Explains(r, p)]_vars

\* A backup that is answered "ok" and was the only one begun in its second holds
\* every file and directory, as it is, that no request changed while it ran.
\* (Two in one second share their temporary file, and each may lose entries.)
BackupComplete == [][\A r \in Requests : Answered(r, "backup") =>
  LET s == req[r].second IN begun[s] = 1 =>
  /\ saved'[s] # 0
  /\ \A p \in Below : p \notin req[r].touched => zips'[saved'[s]][p] = fs[p]]_vars

\* An archive under its final name is finished: it does not change any more,
\* unless another backup begins in the same second.
SavedIsFinal == [][\A s \in 1 .. MaxOps : saved[s] # 0 /\ begun[s] = 1 =>
  saved'[s] = saved[s] /\ zips'[saved[s]] = zips[saved[s]]]_vars
=============================================================================
