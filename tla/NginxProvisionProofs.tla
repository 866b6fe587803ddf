------------------------ MODULE NginxProvisionProofs ------------------------
(***************************************************************************)
(* Proofs about NginxProvision: where a provisioning stands determines     *)
(* what the two files hold, so that success means served and a rollback    *)
(* that goes through puts back what was there, for any number of calls,    *)
(* failures, crashes and reloads by others.                                *)
(***************************************************************************)
EXTENDS NginxProvision, TLAPS

-----------------------------------------------------------------------------
(* The inductive invariant.                                                  *)

Conf == Confs \cup {Absent}
Link == {"none", "ours", "other", "file"}
Files == [conf : Conf, link : Link]

\* Before the conf file is replaced; from there to the last command; rollback;
\* DeprovisionSite.
Reading == {"checkIndex", "writeIndex", "readPrev", "writeConf"}
Changing == {"unlinkOld", "symlink", "test", "reload"}
RollingBack == {"backConf", "backUnlink", "backLink"}
Removing == {"removeLink", "removeConf", "testGone", "reloadGone"}

TypeOK ==
  /\ conf \in Conf
  /\ link \in Link
  /\ index \in {Absent, "default", "user"}
  /\ loaded \in Conf \cup {Admin}
  /\ others \in BOOLEAN
  /\ task \in [pc : {"idle"} \cup Reading \cup Changing \cup RollingBack \cup Removing,
               new : Conf, sawIndex : BOOLEAN, prevConf : Conf, prevLink : Link,
               before : Files]
  /\ last \in [op : {"none", "provision", "deprovision"}, ok : BOOLEAN,
               new : Conf, rolledBack : BOOLEAN, before : Files]
  /\ bound \in [fails : 0 .. MaxFails, crashes : 0 .. MaxCrashes, ops : 0 .. MaxOps]

\* Nothing is changed before the previous state is read, and what is read is
\* the state at the call.
ReadingSound ==
  /\ task.pc \in Reading => conf = task.before.conf /\ link = task.before.link
  /\ task.pc \in {"writeConf"} \cup Changing \cup RollingBack
       => task.prevConf = task.before.conf /\ task.prevLink = task.before.link

\* The commands run with the new configuration in place and enabled.
ChangingSound ==
  /\ task.pc \in Changing => conf = task.new
  /\ task.pc = "symlink" => link = "none"
  /\ task.pc \in {"test", "reload"} => link = "ours"

\* Rollback has done what comes before the step it is at.
RollbackSound ==
  /\ task.pc \in {"backUnlink", "backLink"} => conf = task.before.conf
  /\ task.pc = "backLink" => task.prevLink \in {"ours", "other"}

RemovingSound ==
  /\ task.pc \in {"removeConf", "testGone", "reloadGone"} => link = "none"
  /\ task.pc \in {"testGone", "reloadGone"} => conf = Absent

ProvisionInv ==
  /\ TypeOK
  /\ ReadingSound
  /\ ChangingSound
  /\ RollbackSound
  /\ RemovingSound
  /\ RollbackRestores
  /\ SuccessServed
-----------------------------------------------------------------------------
(* Steps of a call.                                                          *)

\* Moving on changes nothing else of the call.
LEMMA GotoEffect ==
  ASSUME TypeOK, NEW p, Goto(p)
  PROVE  /\ task'.pc = p
         /\ task'.new = task.new /\ task'.before = task.before
         /\ task'.prevConf = task.prevConf /\ task'.prevLink = task.prevLink
         /\ p \in {"idle"} \cup Reading \cup Changing \cup RollingBack \cup Removing
              => task' \in [pc : {"idle"} \cup Reading \cup Changing \cup RollingBack
                                   \cup Removing,
                            new : Conf, sawIndex : BOOLEAN, prevConf : Conf,
                            prevLink : Link, before : Files]
BY DEF TypeOK, Goto

\* What a call that returns leaves, for its caller and in last.
LEMMA ReturnEffect ==
  ASSUME TypeOK, NEW op \in {"provision", "deprovision"}, NEW ok \in BOOLEAN,
         NEW back \in BOOLEAN, Return(op, ok, back)
  PROVE  /\ task'.pc = "idle"
         /\ task' \in [pc : {"idle"} \cup Reading \cup Changing \cup RollingBack
                              \cup Removing,
                       new : Conf, sawIndex : BOOLEAN, prevConf : Conf,
                       prevLink : Link, before : Files]
         /\ last' \in [op : {"none", "provision", "deprovision"}, ok : BOOLEAN,
                       new : Conf, rolledBack : BOOLEAN, before : Files]
         /\ last'.op = op /\ last'.ok = ok /\ last'.rolledBack = back
         /\ last'.new = task.new /\ last'.before = task.before
BY DEF TypeOK, Return, Idle, Conf, Link, Files

\* The bounds count what may still fail.
LEMMA BoundType ==
  ASSUME TypeOK
  PROVE  /\ Fail => bound' \in [fails : 0 .. MaxFails, crashes : 0 .. MaxCrashes,
                                ops : 0 .. MaxOps]
         /\ bound.ops < MaxOps /\ bound' = [bound EXCEPT !.ops = @ + 1]
              => bound' \in [fails : 0 .. MaxFails, crashes : 0 .. MaxCrashes,
                             ops : 0 .. MaxOps]
         /\ bound.crashes < MaxCrashes /\ bound' = [bound EXCEPT !.crashes = @ + 1]
              => bound' \in [fails : 0 .. MaxFails, crashes : 0 .. MaxCrashes,
                             ops : 0 .. MaxOps]
BY ProvisionAssumption DEF TypeOK, Fail

\* What Nginx would load is a configuration of this domain or a foreign one.
LEMMA EnabledType == TypeOK => Enabled \in Conf \cup {Admin} /\ ConfigValid \in BOOLEAN
BY DEF TypeOK, Enabled, ConfigValid, Conf

Sound == ReadingSound /\ ChangingSound /\ RollbackSound /\ RemovingSound
Outcome == RollbackRestores /\ SuccessServed

\* A call that begins has the two files before it as they are.
LEMMA BeginKeeps ==
  ASSUME ProvisionInv, (\E c \in Confs : Provision(c)) \/ Deprovision
  PROVE  ProvisionInv'
<1>1. /\ conf' = conf /\ link' = link /\ index' = index /\ loaded' = loaded
      /\ others' = others /\ last' = last
      /\ task'.before = [conf |-> conf, link |-> link]
      /\ task'.pc \in {"checkIndex", "removeLink"}
  BY DEF Provision, Deprovision, Idle
<1>2. TypeOK'
  <2>1. task' \in [pc : {"idle"} \cup Reading \cup Changing \cup RollingBack
                          \cup Removing,
                   new : Conf, sawIndex : BOOLEAN, prevConf : Conf,
                   prevLink : Link, before : Files]
    <3>1. [conf |-> conf, link |-> link] \in Files
      BY DEF ProvisionInv, TypeOK, Files
    <3>2. CASE \E c \in Confs : Provision(c)
      BY <3>1, <3>2 DEF Provision, Idle, Reading, Conf, Link
    <3>3. CASE Deprovision
      BY <3>1, <3>3 DEF Deprovision, Idle, Removing, Conf, Link
    <3> QED BY <3>2, <3>3
  <2> QED BY <1>1, <2>1, BoundType DEF Provision, Deprovision, ProvisionInv, TypeOK
<1>3. Sound'
  BY <1>1 DEF Sound, ReadingSound, ChangingSound, RollbackSound, RemovingSound,
              Reading, Changing, RollingBack, Removing
<1>4. Outcome'
  BY <1>1 DEF Outcome, RollbackRestores, SuccessServed
<1> QED BY <1>2, <1>3, <1>4 DEF ProvisionInv, Sound, Outcome

\* ProvisionSite up to its last command.
LEMMA ForwardKeeps ==
  ASSUME ProvisionInv,
         \/ CheckIndex \/ WriteIndex \/ ReadPrevious \/ WriteConf \/ UnlinkOld
         \/ Symlink \/ TestCommand
  PROVE  ProvisionInv'
<1> USE DEF ProvisionInv, ReadingSound, ChangingSound, Reading, Changing,
            RollingBack, Removing
<1>1. /\ loaded' = loaded /\ others' = others /\ last' = last /\ bound' = bound
      /\ index' \in {index, "default"}
  BY DEF CheckIndex, WriteIndex, ReadPrevious, WriteConf, UnlinkOld, Symlink, TestCommand
<1>2. /\ task' \in [pc : {"idle"} \cup Reading \cup Changing \cup RollingBack
                           \cup Removing,
                    new : Conf, sawIndex : BOOLEAN, prevConf : Conf,
                    prevLink : Link, before : Files]
      /\ conf' \in Conf /\ link' \in Link
      /\ task'.before = task.before /\ task'.new = task.new
      /\ task'.pc \in Reading \cup Changing \cup {"backConf"}
      /\ Sound'
  <2> USE DEF TypeOK, Sound, RollbackSound, RemovingSound
  <2>1. CASE CheckIndex
    BY <2>1 DEF CheckIndex
  <2>2. CASE WriteIndex
    BY <2>2, GotoEffect DEF WriteIndex
  <2>3. CASE ReadPrevious
    BY <2>3 DEF ReadPrevious
  <2>4. CASE WriteConf
    BY <2>4, GotoEffect DEF WriteConf
  <2>5. CASE UnlinkOld
    BY <2>5, GotoEffect DEF UnlinkOld, Link
  <2>6. CASE Symlink
    BY <2>6, GotoEffect DEF Symlink, Link
  <2>7. CASE TestCommand
    BY <2>7, GotoEffect DEF TestCommand
  <2> QED BY <2>1, <2>2, <2>3, <2>4, <2>5, <2>6, <2>7
<1>3. Outcome'
  BY <1>2 DEF Outcome, RollbackRestores, SuccessServed
<1>4. TypeOK'
  BY <1>1, <1>2 DEF TypeOK
<1> QED BY <1>2, <1>3, <1>4 DEF Sound, Outcome

\* A step before the conf file is replaced fails: nothing was changed.
LEMMA EarlyErrorKeeps ==
  ASSUME ProvisionInv, ProvisionEarlyError
  PROVE  ProvisionInv'
<1> USE DEF ProvisionInv
<1>1. /\ conf' = conf /\ link' = link /\ index' = index /\ loaded' = loaded
      /\ others' = others
      /\ Return("provision", FALSE, TRUE) /\ Fail
      /\ task.pc \in Reading
  BY DEF ProvisionEarlyError, Reading
<1>2. Sound'
  BY <1>1, ReturnEffect DEF Sound, ReadingSound, ChangingSound, RollbackSound,
       RemovingSound, Reading, Changing, RollingBack, Removing
<1>3. Outcome'
  BY <1>1, ReturnEffect DEF Outcome, RollbackRestores, SuccessServed, ReadingSound
<1>4. TypeOK'
  BY <1>1, ReturnEffect, BoundType DEF TypeOK
<1> QED BY <1>2, <1>3, <1>4 DEF Sound, Outcome

\* The reload, and an error or a kill of the steps that can be rolled back.
LEMMA ReloadKeeps ==
  ASSUME ProvisionInv, ReloadCommand \/ ProvisionError
  PROVE  ProvisionInv'
<1> USE DEF ProvisionInv
<1>1. /\ conf' = conf /\ link' = link /\ index' = index /\ others' = others
      /\ task.pc \in Changing
      /\ loaded' \in {loaded, Enabled}
      /\ bound' = bound \/ Fail
  BY DEF ReloadCommand, ProvisionError, Changing
<1>2. CASE Goto("backConf") /\ last' = last
  <2>1. Sound'
    BY <1>1, <1>2, GotoEffect DEF Sound, ReadingSound, ChangingSound, RollbackSound,
         RemovingSound, Reading, Changing, RollingBack, Removing
  <2>2. Outcome'
    BY <1>2, GotoEffect DEF Outcome, RollbackRestores, SuccessServed
  <2>3. TypeOK'
    BY <1>1, <1>2, GotoEffect, BoundType, EnabledType DEF TypeOK, RollingBack
  <2> QED BY <2>1, <2>2, <2>3 DEF Sound, Outcome
<1>3. CASE /\ task.pc = "reload" /\ loaded' = Enabled
           /\ Return("provision", TRUE, FALSE)
  <2>1. Sound'
    BY <1>1, <1>3, ReturnEffect DEF Sound, ReadingSound, ChangingSound, RollbackSound,
         RemovingSound, Reading, Changing, RollingBack, Removing
  <2>2. conf = task.new /\ link = "ours" /\ loaded' = task.new
    BY <1>1, <1>3 DEF ChangingSound, Enabled
  <2>3. Outcome'
    BY <1>1, <1>3, <2>2, ReturnEffect DEF Outcome, RollbackRestores, SuccessServed
  <2>4. TypeOK'
    BY <1>1, <1>3, ReturnEffect, BoundType, EnabledType DEF TypeOK
  <2> QED BY <2>1, <2>3, <2>4 DEF Sound, Outcome
<1> QED BY <1>2, <1>3 DEF ReloadCommand, ProvisionError

\* Rollback, step by step.
LEMMA RollbackKeeps ==
  ASSUME ProvisionInv, BackConf \/ BackUnlink \/ BackLink \/ RollbackError
  PROVE  ProvisionInv'
<1> USE DEF ProvisionInv
<1>1. /\ index' = index /\ loaded' = loaded /\ others' = others
      /\ task.pc \in RollingBack /\ task.new \in Conf /\ task.prevLink \in Link
      /\ task.prevConf = task.before.conf /\ task.prevLink = task.before.link
      /\ task.before \in Files
      /\ bound' = bound \/ Fail
  BY DEF BackConf, BackUnlink, BackLink, RollbackError, RollingBack, ReadingSound, TypeOK
<1>2. conf' \in Conf /\ link' \in Link
  BY <1>1 DEF BackConf, BackUnlink, BackLink, RollbackError, TypeOK, Link, Files
<1>3. CASE BackConf
  <2>1. Sound'
    BY <1>1, <1>3, GotoEffect DEF BackConf, Sound, ReadingSound, ChangingSound,
         RollbackSound, RemovingSound, Reading, Changing, RollingBack, Removing
  <2>2. Outcome'
    BY <1>3, GotoEffect DEF BackConf, Outcome, RollbackRestores, SuccessServed
  <2>3. TypeOK'
    BY <1>1, <1>2, <1>3, GotoEffect DEF BackConf, TypeOK, RollingBack
  <2> QED BY <2>1, <2>2, <2>3 DEF Sound, Outcome
<1>4. CASE BackUnlink /\ task.prevLink \notin {"none", "file"}
  <2>1. task.prevLink \in {"ours", "other"}
    BY <1>1, <1>4 DEF Link
  <2>2. Sound'
    BY <1>1, <1>4, <2>1, GotoEffect DEF BackUnlink, Sound, ReadingSound, ChangingSound,
         RollbackSound, RemovingSound, Reading, Changing, RollingBack, Removing
  <2>3. Outcome'
    BY <1>4, GotoEffect DEF BackUnlink, Outcome, RollbackRestores, SuccessServed
  <2>4. TypeOK'
    BY <1>1, <1>2, <1>4, GotoEffect DEF BackUnlink, TypeOK, RollingBack
  <2> QED BY <2>2, <2>3, <2>4 DEF Sound, Outcome
<1>5. ASSUME NEW back \in BOOLEAN, Return("provision", FALSE, back),
             back => /\ conf' = task.before.conf
                     /\ task.before.link # "file" => link' = task.before.link
      PROVE  ProvisionInv'
  <2>1. Sound'
    BY <1>5, ReturnEffect DEF Sound, ReadingSound, ChangingSound, RollbackSound,
         RemovingSound, Reading, Changing, RollingBack, Removing
  <2>2. Outcome'
    BY <1>5, ReturnEffect DEF Outcome, RollbackRestores, SuccessServed
  <2>3. TypeOK'
    BY <1>1, <1>2, <1>5, ReturnEffect, BoundType DEF TypeOK
  <2> QED BY <2>1, <2>2, <2>3 DEF Sound, Outcome
<1>6. CASE BackUnlink /\ task.prevLink \in {"none", "file"}
  BY <1>1, <1>5, <1>6 DEF BackUnlink, RollbackSound
<1>7. CASE BackLink
  BY <1>1, <1>5, <1>7 DEF BackLink, RollbackSound
<1>8. CASE RollbackError
  BY <1>5, <1>8 DEF RollbackError
<1> QED BY <1>3, <1>4, <1>6, <1>7, <1>8

\* DeprovisionSite, step by step.
LEMMA RemoveKeeps ==
  ASSUME ProvisionInv,
         RemoveLink \/ RemoveConf \/ TestGone \/ ReloadGone \/ DeprovisionError
  PROVE  ProvisionInv'
<1> USE DEF ProvisionInv
<1>1. /\ index' = index /\ others' = others /\ task.pc \in Removing
      /\ loaded' \in {loaded, Enabled}
      /\ conf' \in Conf /\ link' \in Link
      /\ bound' = bound \/ Fail
  BY DEF RemoveLink, RemoveConf, TestGone, ReloadGone, DeprovisionError, Removing,
         TypeOK, Conf, Link
<1>2. ASSUME NEW p \in Removing, Goto(p), last' = last,
             p \in {"removeConf", "testGone", "reloadGone"} => link' = "none",
             p \in {"testGone", "reloadGone"} => conf' = Absent
      PROVE  ProvisionInv'
  <2>1. Sound'
    BY <1>2, GotoEffect DEF Sound, ReadingSound, ChangingSound, RollbackSound,
         RemovingSound, Reading, Changing, RollingBack, Removing
  <2>2. Outcome'
    BY <1>2, GotoEffect DEF Outcome, RollbackRestores, SuccessServed, Removing
  <2>3. TypeOK'
    BY <1>1, <1>2, GotoEffect, BoundType, EnabledType DEF TypeOK
  <2> QED BY <2>1, <2>2, <2>3 DEF Sound, Outcome
<1>3. ASSUME NEW ok \in BOOLEAN, Return("deprovision", ok, FALSE),
             ok => conf' = Absent /\ link' = "none" /\ loaded' = Absent
      PROVE  ProvisionInv'
  <2>1. Sound'
    BY <1>3, ReturnEffect DEF Sound, ReadingSound, ChangingSound, RollbackSound,
         RemovingSound, Reading, Changing, RollingBack, Removing
  <2>2. Outcome'
    BY <1>3, ReturnEffect DEF Outcome, RollbackRestores, SuccessServed
  <2>3. TypeOK'
    BY <1>1, <1>3, ReturnEffect, BoundType, EnabledType DEF TypeOK
  <2> QED BY <2>1, <2>2, <2>3 DEF Sound, Outcome
<1>4. CASE RemoveLink
  BY <1>2, <1>4 DEF RemoveLink, Removing
<1>5. CASE RemoveConf
  BY <1>2, <1>5 DEF RemoveConf, Removing, RemovingSound
<1>6. CASE TestGone
  BY <1>2, <1>3, <1>6 DEF TestGone, Removing, RemovingSound
<1>7. CASE ReloadGone
  <2>1. ConfigValid => conf' = Absent /\ link' = "none" /\ loaded' = Absent
    BY <1>7 DEF ReloadGone, RemovingSound, Enabled
  <2>2. Return("deprovision", ConfigValid, FALSE)
    BY <1>7 DEF ReloadGone
  <2> QED BY <1>3, <2>1, <2>2, EnabledType
<1>8. CASE DeprovisionError
  BY <1>3, <1>8 DEF DeprovisionError
<1> QED BY <1>4, <1>5, <1>6, <1>7, <1>8

\* The death of the process, users, administrators and other reloads.
LEMMA SurroundingsKeep ==
  ASSUME ProvisionInv,
         Crash \/ UserUpload \/ OthersChange \/ OtherReload \/ UNCHANGED vars
  PROVE  ProvisionInv'
<1> USE DEF ProvisionInv
<1>1. CASE Crash
  <2>1. /\ task'.pc = "idle" /\ last'.op = "none" /\ last'.ok = TRUE
        /\ conf' = conf /\ link' = link /\ index' = index /\ loaded' = loaded
        /\ others' = others
    BY <1>1 DEF Crash, Idle, Never
  <2>2. Sound' /\ Outcome'
    BY <2>1 DEF Sound, ReadingSound, ChangingSound, RollbackSound, RemovingSound,
         Outcome, RollbackRestores, SuccessServed, Reading, Changing, RollingBack, Removing
  <2>3. TypeOK'
    <3>1. task' = Idle /\ last' = Never
      BY <1>1 DEF Crash
    <3>2. Idle.before \in Files /\ Idle.before = [conf |-> Absent, link |-> "none"]
      BY DEF Idle, Files, Conf, Link
    <3> QED BY <1>1, <2>1, <3>1, <3>2, BoundType DEF Crash, TypeOK, Idle, Never, Conf, Link
  <2> QED BY <2>2, <2>3 DEF Sound, Outcome
<1>2. CASE UserUpload \/ OthersChange \/ OtherReload \/ UNCHANGED vars
  <2>1. /\ conf' = conf /\ link' = link /\ task' = task /\ last' = last
        /\ bound' = bound /\ loaded' \in {loaded, Enabled}
        /\ index' \in {index, "user"} /\ others' \in {others, ~others}
    BY <1>2 DEF UserUpload, OthersChange, OtherReload, vars
  <2>2. Sound'
    BY <2>1 DEF Sound, ReadingSound, ChangingSound, RollbackSound, RemovingSound
  <2>3. RollbackRestores'
    BY <2>1 DEF RollbackRestores
  <2>4. SuccessServed'
    BY <2>1 DEF SuccessServed, Enabled
  <2>5. TypeOK'
    <3>1. TypeOK
      OBVIOUS
    <3>2. others' \in BOOLEAN
      <4>1. others \in BOOLEAN
        BY <3>1 DEF TypeOK
      <4>2. others' = others \/ others' = ~others
        BY <2>1
      <4> QED BY <4>1, <4>2, Zenon
    <3>3. index' = index \/ index' = "user"
      BY <2>1
    <3>4. loaded' = loaded \/ loaded' = Enabled
      BY <2>1
    <3>5. loaded' \in Conf \cup {Admin}
      BY <3>1, <3>4, EnabledType DEF TypeOK
    <3>6. /\ conf' = conf /\ link' = link /\ task' = task /\ last' = last
          /\ bound' = bound
      BY <2>1
    <3> QED BY <3>1, <3>2, <3>3, <3>5, <3>6 DEF TypeOK
  <2> QED BY <2>2, <2>3, <2>4, <2>5 DEF Sound
<1> QED BY <1>1, <1>2

-----------------------------------------------------------------------------
(* The theorems.                                                             *)

\* A domain the panel has not touched.
LEMMA ProvisionInit == Init => ProvisionInv
<1> SUFFICES ASSUME Init PROVE ProvisionInv
  OBVIOUS
<1>1. Idle.before = [conf |-> Absent, link |-> "none"]
  BY DEF Idle
<1>2. TypeOK
  BY <1>1, ProvisionAssumption DEF Init, TypeOK, Idle, Never, Enabled, Conf, Link, Files
<1>3. task.pc = "idle" /\ last.op = "none"
  BY DEF Init, Idle, Never
<1> QED BY <1>2, <1>3 DEF ProvisionInv, ReadingSound, ChangingSound, RollbackSound,
      RemovingSound, RollbackRestores, SuccessServed, Reading, Changing, RollingBack,
      Removing

\* The invariant of the provisioner holds in every state.
THEOREM ProvisionInvariant == Spec => []ProvisionInv
<1>1. ProvisionInv /\ [Next]_vars => ProvisionInv'
  BY BeginKeeps, ForwardKeeps, EarlyErrorKeeps, ReloadKeeps, RollbackKeeps,
     RemoveKeeps, SurroundingsKeep DEF Next
<1> QED BY <1>1, ProvisionInit, PTL DEF Spec

\* A ProvisionSite that reports an error and whose rollback went through leaves
\* both files as they were, wherever it failed.
THEOREM RollbackCorrect == Spec => []RollbackRestores
BY ProvisionInvariant, PTL DEF ProvisionInv

\* After a success Nginx runs what was asked for, whatever came before.
THEOREM SuccessCorrect == Spec => []SuccessServed
BY ProvisionInvariant, PTL DEF ProvisionInv

\* The bootstrap page never replaces a user's index file.
THEOREM IndexKept == Spec => UserIndexKept
<1>1. [Next]_vars => [index = "user" => index' = "user"]_vars
  <2> SUFFICES ASSUME [Next]_vars, index = "user"
               PROVE  index' = "user" \/ UNCHANGED vars
    OBVIOUS
  <2>1. CASE WriteIndex
    BY <2>1, ProvisionAssumption DEF WriteIndex
  <2>2. CASE UserUpload
    BY <2>2 DEF UserUpload
  <2>3. CASE ~WriteIndex /\ ~UserUpload
    BY <2>3 DEF Next, vars, Provision, ProvisionEarlyError, CheckIndex, ReadPrevious,
         WriteConf, UnlinkOld, Symlink, TestCommand, ReloadCommand, ProvisionError,
         BackConf, BackUnlink, BackLink, RollbackError, Deprovision, RemoveLink,
         RemoveConf, TestGone, ReloadGone, DeprovisionError, Crash, OthersChange,
         OtherReload
  <2> QED BY <2>1, <2>2, <2>3
<1> QED BY <1>1, PTL DEF Spec, UserIndexKept
=============================================================================
