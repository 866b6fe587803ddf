--------------------------- MODULE NginxProvision ---------------------------
(***************************************************************************)
(* ProvisionSite and DeprovisionSite of internal/provision, file by file,  *)
(* for one domain: the conf file in sites-available, the entry in          *)
(* sites-enabled, the index file in the document root, and what the        *)
(* running Nginx has loaded.  Every system call and command may fail, the  *)
(* process may die between any two of them, users upload files and other   *)
(* administrators reload Nginx meanwhile.  A rendered configuration is the *)
(* member of Confs that stands for the site it was rendered from (a domain *)
(* that is deleted and created again is rendered differently).             *)
(*                                                                         *)
(* SiteJobs uses the summary of this module: ProvisionWrite there is       *)
(* everything up to the symlink, ProvisionReload the two commands and the  *)
(* rollback, DeprovisionRemove and DeprovisionReload likewise.             *)
(***************************************************************************)
EXTENDS Naturals

CONSTANTS
  Confs,       \* rendered configurations
  BadConfs,    \* those nginx -t refuses
  Absent,      \* no file
  Admin,       \* configuration behind a foreign sites-enabled entry
  MaxFails,    \* bound: system calls and commands that fail by themselves
  MaxCrashes,  \* bound: deaths of the process
  MaxOps       \* bound: calls of ProvisionSite and DeprovisionSite

ASSUME ProvisionAssumption ==
  /\ BadConfs \subseteq Confs
  /\ Absent \notin Confs /\ Admin \notin Confs /\ Absent # Admin
  /\ Absent \notin {"default", "user"}
  /\ MaxFails \in Nat /\ MaxCrashes \in Nat /\ MaxOps \in Nat

VARIABLES
  conf,    \* sites-available/<domain>.conf
  link,    \* sites-enabled/<domain>.conf: a symlink to our conf file ("ours"), to
           \* some "other" file, a plain "file", or "none"
  index,   \* index file of the document root: Absent, "default" or "user"
  loaded,  \* what the running Nginx serves for the domain
  others,  \* TRUE: the rest of the Nginx configuration is valid
  task,    \* the call in progress
  last,    \* the last call that returned
  bound    \* [fails, crashes, ops] so far

vars == <<conf, link, index, loaded, others, task, last, bound>>

Idle == [pc |-> "idle", new |-> Absent, sawIndex |-> FALSE,
         prevConf |-> Absent, prevLink |-> "none",
         before |-> [conf |-> Absent, link |-> "none"]]
Never == [op |-> "none", ok |-> TRUE, new |-> Absent, rolledBack |-> FALSE,
          before |-> Idle.before]

\* What Nginx would load now.  A symlink to a missing file is an error.
Enabled == IF link = "ours" THEN conf
           ELSE IF link = "none" THEN Absent ELSE Admin
ConfigValid == others /\ (link = "ours" => conf \in Confs \ BadConfs)

Init ==
  /\ conf = Absent
  /\ link \in {"none", "other", "file"}
  /\ index \in {Absent, "user"}
  /\ loaded = Enabled
  /\ others = TRUE
  /\ task = Idle
  /\ last = Never
  /\ bound = [fails |-> 0, crashes |-> 0, ops |-> 0]

-----------------------------------------------------------------------------
Goto(pc) == task' = [task EXCEPT !.pc = pc]
Return(op, ok, rolledBack) ==
  /\ task' = Idle
  /\ last' = [op |-> op, ok |-> ok, new |-> task.new, rolledBack |-> rolledBack,
              before |-> task.before]
Fail == bound.fails < MaxFails /\ bound' = [bound EXCEPT !.fails = @ + 1]

\* ProvisionSite: the directories are made (or the call returns an error).
Provision(c) ==
  /\ task.pc = "idle"
  /\ bound.ops < MaxOps
  /\ bound' = [bound EXCEPT !.ops = @ + 1]
  /\ task' = [Idle EXCEPT !.pc = "checkIndex", !.new = c,
                          !.before = [conf |-> conf, link |-> link]]
  /\ UNCHANGED <<conf, link, index, loaded, others, last>>

\* A step before the conf file is replaced returns its error at once.
ProvisionEarlyError ==
  /\ task.pc \in {"checkIndex", "writeIndex", "readPrev", "writeConf"}
  /\ Fail
  /\ Return("provision", FALSE, TRUE)
  /\ UNCHANGED <<conf, link, index, loaded, others>>

\* ensureRuntimeBootstrap: hasAnyIndex, ...
CheckIndex ==
  /\ task.pc = "checkIndex"
  /\ task' = [task EXCEPT !.pc = "writeIndex", !.sawIndex = (index # Absent)]
  /\ UNCHANGED <<conf, link, index, loaded, others, last, bound>>

\* Mutant of WriteIndex: the file is opened without O_EXCL.
WriteIndexTruncating ==
  /\ task.pc = "writeIndex"
  /\ index' = IF task.sawIndex THEN index ELSE "default"
  /\ Goto("readPrev")
  /\ UNCHANGED <<conf, link, loaded, others, last, bound>>

\* ... then writeFileIfNotExists (O_EXCL).
WriteIndex ==
  /\ task.pc = "writeIndex"
  /\ index' = IF ~task.sawIndex /\ index = Absent THEN "default" ELSE index
  /\ Goto("readPrev")
  /\ UNCHANGED <<conf, link, loaded, others, last, bound>>

\* readIfExists and readLinkIfExists.
ReadPrevious ==
  /\ task.pc = "readPrev"
  /\ task' = [task EXCEPT !.pc = "writeConf", !.prevConf = conf,
                          !.prevLink = link]
  /\ UNCHANGED <<conf, link, index, loaded, others, last, bound>>

\* Mutant of WriteConf: an entry that is not our symlink is left in place.
WriteConfKeepsEntry ==
  /\ task.pc = "writeConf"
  /\ conf' = task.new
  /\ Goto(IF link = "none" THEN "symlink" ELSE "test")
  /\ UNCHANGED <<link, index, loaded, others, last, bound>>

\* writeAtomic (temp file and rename).
WriteConf ==
  /\ task.pc = "writeConf"
  /\ conf' = task.new
  /\ Goto(IF link = "ours" THEN "test"
          ELSE IF link = "none" THEN "symlink" ELSE "unlinkOld")
  /\ UNCHANGED <<link, index, loaded, others, last, bound>>

\* upsertSymlink removes an entry that is not our symlink, ...
UnlinkOld ==
  /\ task.pc = "unlinkOld"
  /\ link' = "none"
  /\ Goto("symlink")
  /\ UNCHANGED <<conf, index, loaded, others, last, bound>>

\* ... and creates the symlink.
Symlink ==
  /\ task.pc = "symlink"
  /\ link' = "ours"
  /\ Goto("test")
  /\ UNCHANGED <<conf, index, loaded, others, last, bound>>

\* The test command.
TestCommand ==
  /\ task.pc = "test"
  /\ Goto(IF ConfigValid THEN "reload" ELSE "backConf")
  /\ UNCHANGED <<conf, link, index, loaded, others, last, bound>>

\* The reload command: Nginx keeps what it runs when the configuration is not
\* valid (it may have changed since the test).
ReloadCommand ==
  /\ task.pc = "reload"
  /\ IF ConfigValid
     THEN loaded' = Enabled /\ Return("provision", TRUE, FALSE)
     ELSE UNCHANGED loaded /\ Goto("backConf") /\ UNCHANGED last
  /\ UNCHANGED <<conf, link, index, others, bound>>

\* upsertSymlink or one of the commands fails by itself or is killed with the
\* context; a killed reload may have taken effect.
ProvisionError ==
  /\ task.pc \in {"unlinkOld", "symlink", "test", "reload"}
  /\ Fail
  /\ Goto("backConf")
  /\ loaded' = loaded
       \/ (task.pc = "reload" /\ ConfigValid /\ loaded' = Enabled)
  /\ UNCHANGED <<conf, link, index, others, last>>

\* rollback: the conf file, ...
BackConf ==
  /\ task.pc = "backConf"
  /\ conf' = task.prevConf
  /\ Goto("backUnlink")
  /\ UNCHANGED <<link, index, loaded, others, last, bound>>

\* Mutant of BackUnlink: the previous symlink is forgotten.
BackUnlinkOnly ==
  /\ task.pc = "backUnlink"
  /\ link' = "none"
  /\ Return("provision", FALSE, TRUE)
  /\ UNCHANGED <<conf, index, loaded, others, bound>>

\* ... the symlink away (there is nothing more to do without a previous one, or
\* when the previous entry was no symlink: its target was read as "") ...
BackUnlink ==
  /\ task.pc = "backUnlink"
  /\ link' = "none"
  /\ IF task.prevLink \in {"none", "file"}
     THEN Return("provision", FALSE, TRUE)
     ELSE Goto("backLink") /\ UNCHANGED last
  /\ UNCHANGED <<conf, index, loaded, others, bound>>

\* ... and the previous symlink back.
BackLink ==
  /\ task.pc = "backLink"
  /\ link' = task.prevLink
  /\ Return("provision", FALSE, TRUE)
  /\ UNCHANGED <<conf, index, loaded, others, bound>>

\* An error inside rollback ends it; its caller ignores it.
RollbackError ==
  /\ task.pc \in {"backConf", "backUnlink", "backLink"}
  /\ Fail
  /\ Return("provision", FALSE, FALSE)
  /\ UNCHANGED <<conf, link, index, loaded, others>>

\* DeprovisionSite.
Deprovision ==
  /\ task.pc = "idle"
  /\ bound.ops < MaxOps
  /\ bound' = [bound EXCEPT !.ops = @ + 1]
  /\ task' = [Idle EXCEPT !.pc = "removeLink",
                          !.before = [conf |-> conf, link |-> link]]
  /\ UNCHANGED <<conf, link, index, loaded, others, last>>

RemoveLink ==
  /\ task.pc = "removeLink"
  /\ link' = "none"
  /\ Goto("removeConf")
  /\ UNCHANGED <<conf, index, loaded, others, last, bound>>

RemoveConf ==
  /\ task.pc = "removeConf"
  /\ conf' = Absent
  /\ Goto("testGone")
  /\ UNCHANGED <<link, index, loaded, others, last, bound>>

TestGone ==
  /\ task.pc = "testGone"
  /\ IF ConfigValid THEN Goto("reloadGone") /\ UNCHANGED last
                    ELSE Return("deprovision", FALSE, FALSE)
  /\ UNCHANGED <<conf, link, index, loaded, others, bound>>

ReloadGone ==
  /\ task.pc = "reloadGone"
  /\ loaded' = IF ConfigValid THEN Enabled ELSE loaded
  /\ Return("deprovision", ConfigValid, FALSE)
  /\ UNCHANGED <<conf, link, index, others, bound>>

\* Every error of DeprovisionSite returns at once; nothing is put back.
DeprovisionError ==
  /\ task.pc \in {"removeLink", "removeConf", "testGone", "reloadGone"}
  /\ Fail
  /\ Return("deprovision", FALSE, FALSE)
  /\ loaded' = loaded
       \/ (task.pc = "reloadGone" /\ ConfigValid /\ loaded' = Enabled)
  /\ UNCHANGED <<conf, link, index, others>>

-----------------------------------------------------------------------------
(* The surroundings.                                                         *)

Crash ==
  /\ task.pc # "idle"
  /\ bound.crashes < MaxCrashes
  /\ bound' = [bound EXCEPT !.crashes = @ + 1]
  /\ task' = Idle
  /\ last' = Never
  /\ UNCHANGED <<conf, link, index, loaded, others>>

\* A user uploads an index file (UploadSiteFile, UpdateSiteContent).
UserUpload ==
  /\ index' = "user"
  /\ UNCHANGED <<conf, link, loaded, others, task, last, bound>>

\* Somebody breaks or repairs another part of the Nginx configuration.
OthersChange ==
  /\ others' = ~others
  /\ UNCHANGED <<conf, link, index, loaded, task, last, bound>>

\* Somebody else (an administrator, certbot) reloads Nginx.
OtherReload ==
  /\ ConfigValid
  /\ loaded' = Enabled
  /\ UNCHANGED <<conf, link, index, others, task, last, bound>>

Next ==
  \/ \E c \in Confs : Provision(c)
  \/ ProvisionEarlyError
  \/ CheckIndex
  \/ WriteIndex
  \/ ReadPrevious
  \/ WriteConf
  \/ UnlinkOld
  \/ Symlink
  \/ TestCommand
  \/ ReloadCommand
  \/ ProvisionError
  \/ BackConf
  \/ BackUnlink
  \/ BackLink
  \/ RollbackError
  \/ Deprovision
  \/ RemoveLink
  \/ RemoveConf
  \/ TestGone
  \/ ReloadGone
  \/ DeprovisionError
  \/ Crash
  \/ UserUpload
  \/ OthersChange
  \/ OtherReload

Spec == Init /\ [][Next]_vars

-----------------------------------------------------------------------------
(* Properties.                                                               *)

\* A provisioning that reports an error and whose rollback went through leaves
\* both files as they were, wherever it failed - unless sites-enabled held a
\* plain file, which rollback removes (readLinkIfExists reports target "").
RollbackRestores ==
  (/\ task.pc = "idle" /\ last.op = "provision" /\ ~last.ok
   /\ last.rolledBack /\ last.before.link # "file")
    => conf = last.before.conf /\ link = last.before.link

\* A provisioning that reports success has its own configuration in place, and
\* Nginx runs it, whatever crashes, failed attempts and half rollbacks came
\* before; a deprovisioning that reports success has left nothing behind.
SuccessServed ==
  (task.pc = "idle" /\ last.ok) =>
    /\ last.op = "provision" =>
         conf = last.new /\ link = "ours" /\ loaded = last.new
    /\ last.op = "deprovision" =>
         conf = Absent /\ link = "none" /\ loaded = Absent

\* The bootstrap page never replaces what a user has put there, also when the
\* upload comes between hasAnyIndex and the write.
UserIndexKept == [][index = "user" => index' = "user"]_vars
=============================================================================
