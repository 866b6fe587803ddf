--------------------------- MODULE SiteJobsProofs ---------------------------
(***************************************************************************)
(* Proofs about SiteJobs for every number of handlers, sites, jobs and     *)
(* domains, every queue capacity and every bound on failures.              *)
(***************************************************************************)
EXTENDS SiteJobs, TLAPS

-----------------------------------------------------------------------------
(* Type correctness.                                                         *)

\* The records used as initial values have their types.
LEMMA IdleTypes == IdleRequest \in Request /\ IdleWorker \in Worker
BY DEF IdleRequest, IdleWorker, Request, Worker, ReqPC, WorkerPC, JobTypes

\* Moving a request along (except to the send), or answering it, keeps the
\* requests well typed.
LEMMA RequestType ==
  ASSUME TypeOK, NEW h \in Handlers,
         Respond(h) \/ \E pc \in ReqPC \ {"send"} : GoTo(h, pc)
  PROVE  /\ req' \in [Handlers -> Request]
         /\ \A g \in Handlers : req'[g].pc = "send" => req'[g].job # None
<1>1. CASE Respond(h)
  BY <1>1, IdleTypes DEF TypeOK, Respond, IdleRequest
<1>2. ASSUME NEW pc \in ReqPC \ {"send"}, GoTo(h, pc)
      PROVE  /\ req' \in [Handlers -> Request]
             /\ \A g \in Handlers : req'[g].pc = "send" => req'[g].job # None
  BY <1>2 DEF TypeOK, GoTo, Request
<1> QED BY <1>1, <1>2

\* Every save leaves a well-typed state file and stays within the bound.
LEMMA SaveType ==
  ASSUME TypeOK, NEW ok \in BOOLEAN, Save(ok),
         sites' \in [Sites -> SiteStatus \cup {"absent"}],
         jobs' \in [Jobs -> JobStatus \cup {"absent"}]
  PROVE  /\ disk' \in [sites : [Sites -> SiteStatus \cup {"absent"}],
                       jobs : [Jobs -> JobStatus \cup {"absent"}]]
         /\ saveFails' \in 0 .. MaxSaveFails
BY ConstantsAssumption DEF TypeOK, Save

\* The steps of a request keep the type invariant.
LEMMA HandlerType ==
  ASSUME TypeOK, NEW h \in Handlers,
         \/ \E s \in Sites, d \in Domains : CreateSite(h, s, d)
         \/ \E s \in Sites : DeleteSite(h, s)
         \/ HandlerStep(h)
         \/ EnqueueCancel(h)
  PROVE  TypeOK'
<1> DEFINE ReqType ==
      /\ req' \in [Handlers -> Request]
      /\ \A g \in Handlers : req'[g].pc = "send" => req'[g].job # None
<1> USE ConstantsAssumption, IdleTypes DEF TypeOK
<1>1. ASSUME NEW s \in Sites, NEW d \in Domains, CreateSite(h, s, d)
      PROVE  TypeOK'
  <2>1. PICK ok \in BOOLEAN : RepoCreateSite(s, d, ok)
    BY <1>1 DEF CreateSite
  <2>2. /\ sites' \in [Sites -> SiteStatus \cup {"absent"}]
        /\ jobs' \in [Jobs -> JobStatus \cup {"absent"}]
        /\ domainIndex' \in [Domains -> Sites \cup {None}]
        /\ siteDomain' \in [Sites -> Domains \cup {None}]
    BY <2>1 DEF RepoCreateSite, SiteStatus
  <2>3. ReqType
    BY <1>1 DEF CreateSite, Request, ReqPC, JobTypes
  <2> QED BY <1>1, <2>1, <2>2, <2>3, SaveType DEF CreateSite, RepoCreateSite
<1>2. ASSUME NEW s \in Sites, DeleteSite(h, s)
      PROVE  TypeOK'
  <2>1. ReqType
    BY <1>2 DEF DeleteSite, Request, ReqPC, JobTypes
  <2> QED BY <1>2, <2>1 DEF DeleteSite, RepoUntouched, repoVars
<1>3. CASE SetDeleting(h)
  <2>1. ReqType
    <3>1. Respond(h) \/ GoTo(h, "enqueue")
      BY <1>3 DEF SetDeleting
    <3> QED BY <3>1, RequestType DEF ReqPC
  <2>2. CASE RepoUntouched
    BY <1>3, <2>1, <2>2 DEF SetDeleting, RepoUntouched, repoVars
  <2>3. ASSUME NEW ok \in BOOLEAN,
               RepoUpdateSiteStatus(req[h].site, "deleting", ok)
        PROVE  TypeOK'
    <3>1. sites' \in [Sites -> SiteStatus \cup {"absent"}] /\ jobs' = jobs
      BY <2>3 DEF RepoUpdateSiteStatus, SiteStatus
    <3> QED BY <1>3, <2>1, <2>3, <3>1, SaveType
            DEF SetDeleting, RepoUpdateSiteStatus
  <2> QED BY <1>3, <2>2, <2>3 DEF SetDeleting
<1>4. CASE EnqueueCheck(h)
  <2>1. ReqType
    BY <1>4, RequestType DEF EnqueueCheck, ReqPC
  <2> QED BY <1>4, <2>1 DEF EnqueueCheck, RepoUntouched, repoVars
<1>5. ASSUME NEW j \in Jobs, EnqueueCreateJob(h, j)
      PROVE  TypeOK'
  <2>1. PICK ok \in BOOLEAN :
          /\ RepoCreateJob(j, req[h].type, req[h].site, ok)
          /\ req' = [req EXCEPT ![h] = [pc |-> IF ok THEN "send" ELSE "fail",
                       type |-> req[h].type, site |-> req[h].site, job |-> j]]
    BY <1>5 DEF EnqueueCreateJob
  <2>2. ReqType
    BY <2>1 DEF Request, ReqPC
  <2>3. req[h].type \in JobTypes /\ req[h].site \in Sites \cup {None}
    BY DEF Request
  <2>4. /\ sites' \in [Sites -> SiteStatus \cup {"absent"}]
        /\ jobs' \in [Jobs -> JobStatus \cup {"absent"}]
        /\ jobType' \in [Jobs -> JobTypes \cup {None}]
        /\ jobSite' \in [Jobs -> Sites \cup {None}]
    BY <2>1, <2>3 DEF RepoCreateJob, JobStatus
  <2> QED BY <1>5, <2>1, <2>2, <2>4, SaveType DEF EnqueueCreateJob, RepoCreateJob
<1>6. CASE EnqueueSend(h)
  <2>1. ReqType
    BY <1>6, RequestType DEF EnqueueSend, ReqPC
  <2>2. req[h].job \in Jobs
    BY <1>6 DEF EnqueueSend, Request
  <2>3. queue' \in Seq(Jobs) /\ Len(queue') <= QueueCap
    BY <1>6, <2>2 DEF EnqueueSend
  <2> QED BY <1>6, <2>1, <2>3 DEF EnqueueSend, RepoUntouched, repoVars
<1>7. CASE EnqueueFailed(h)
  <2>1. ReqType
    BY <1>7, RequestType DEF EnqueueFailed
  <2>2. CASE RepoUntouched
    BY <1>7, <2>1, <2>2 DEF EnqueueFailed, RepoUntouched, repoVars
  <2>3. ASSUME NEW ok \in BOOLEAN,
               RepoUpdateSiteStatus(req[h].site, "failed", ok)
        PROVE  TypeOK'
    <3>1. sites' \in [Sites -> SiteStatus \cup {"absent"}] /\ jobs' = jobs
      BY <2>3 DEF RepoUpdateSiteStatus, SiteStatus
    <3> QED BY <1>7, <2>1, <2>3, <3>1, SaveType
            DEF EnqueueFailed, RepoUpdateSiteStatus
  <2> QED BY <1>7, <2>2, <2>3 DEF EnqueueFailed
<1>8. CASE Accepted(h)
  <2>1. ReqType
    BY <1>8, RequestType DEF Accepted
  <2> QED BY <1>8, <2>1, SaveType DEF Accepted, RepoSaveOnly, repoVars
<1>9. CASE EnqueueCancel(h)
  <2>1. ReqType
    BY <1>9, RequestType DEF EnqueueCancel, ReqPC
  <2> QED BY <1>9, <2>1 DEF EnqueueCancel, RepoUntouched, repoVars
<1> QED BY <1>1, <1>2, <1>3, <1>4, <1>5, <1>6, <1>7, <1>8, <1>9 DEF HandlerStep

\* A busy worker that moves on to another step of its job stays well typed.
LEMMA WorkerMoves ==
  ASSUME TypeOK, worker.job # None,
         \/ \E pc \in WorkerPC \ {"idle", "exited"} : WGoTo(pc)
         \/ \E ok \in BOOLEAN : Finish(ok)
  PROVE  /\ worker' \in Worker
         /\ worker'.pc \in {"idle", "exited"} <=> worker'.job = None
<1>1. ASSUME NEW pc \in WorkerPC \ {"idle", "exited"}, WGoTo(pc)
      PROVE  /\ worker' \in Worker
             /\ worker'.pc \in {"idle", "exited"} <=> worker'.job = None
  BY <1>1 DEF TypeOK, WGoTo, Worker
<1>2. ASSUME NEW ok \in BOOLEAN, Finish(ok)
      PROVE  /\ worker' \in Worker
             /\ worker'.pc \in {"idle", "exited"} <=> worker'.job = None
  BY <1>2 DEF TypeOK, Finish, Worker, WorkerPC
<1> QED BY <1>1, <1>2

\* The steps of the worker keep the type invariant.
LEMMA WorkerType ==
  ASSUME TypeOK, IssuedOK, WorkerStep
  PROVE  TypeOK'
<1> DEFINE WorkerFits ==
      /\ worker' \in Worker
      /\ worker'.pc \in {"idle", "exited"} <=> worker'.job = None
<1>0. worker.job # None =>
        /\ worker.job \in Jobs
        /\ TheSite \in Sites
        /\ TheDomain \in Domains
        /\ worker.prev \in Sites \cup {None}
  <2> SUFFICES ASSUME worker.job # None
               PROVE  /\ worker.job \in Jobs
                      /\ TheSite \in Sites
                      /\ TheDomain \in Domains
                      /\ worker.prev \in Sites \cup {None}
    OBVIOUS
  <2>1. worker.job \in Jobs /\ worker.prev \in Sites \cup {None}
    BY DEF TypeOK, Worker
  <2>2. TheSite \in Sites /\ TheDomain \in Domains
    BY <2>1 DEF TypeOK, IssuedOK, TheSite, TheDomain
  <2> QED BY <2>1, <2>2
<1> USE ConstantsAssumption, IdleTypes DEF TypeOK
<1>1. CASE WorkerTake
  <2>1. Head(queue) \in Jobs /\ queue' \in Seq(Jobs) /\ Len(queue') <= QueueCap
    BY <1>1 DEF WorkerTake
  <2>2. WorkerFits
    BY <1>1, <2>1 DEF WorkerTake, Worker, WorkerPC
  <2> QED BY <1>1, <2>1, <2>2 DEF WorkerTake, RepoUntouched, repoVars
<1>2. CASE WorkerExit
  <2>1. WorkerFits
    BY <1>2 DEF WorkerExit, WGoTo, Worker, WorkerPC
  <2> QED BY <1>2, <2>1 DEF WorkerExit, RepoUntouched, repoVars
<1>3. CASE WorkerStart
  <2>1. WorkerFits
    BY <1>3 DEF WorkerStart, Worker, WorkerPC, IdleWorker
  <2>2. PICK ok \in BOOLEAN : RepoUpdateJob(worker.job, "running", ok)
    BY <1>3 DEF WorkerStart
  <2>3. jobs' \in [Jobs -> JobStatus \cup {"absent"}] /\ sites' = sites
    BY <2>2 DEF RepoUpdateJob, JobStatus
  <2> QED BY <1>3, <2>1, <2>2, <2>3, SaveType DEF WorkerStart, RepoUpdateJob
<1>4. CASE WorkerLoadSite
  <2>1. WorkerFits
    BY <1>4, WorkerMoves DEF WorkerLoadSite, WorkerPC
  <2> QED BY <1>4, <2>1 DEF WorkerLoadSite, RepoUntouched, repoVars
<1>5. CASE ProvisionWrite
  <2>1. conf' \in [Domains -> Sites \cup {None}]
    BY <1>0, <1>5 DEF ProvisionWrite
  <2>2. CASE WGoTo("siteFailed")
    <3>1. WorkerFits
      BY <1>5, <2>2, WorkerMoves DEF ProvisionWrite, WorkerPC
    <3> QED BY <1>5, <2>1, <3>1 DEF ProvisionWrite, RepoUntouched, repoVars
  <2>3. CASE worker' = [worker EXCEPT !.pc = "reload", !.prev = conf[TheDomain]]
    <3>1. conf[TheDomain] \in Sites \cup {None}
      BY <1>0, <1>5 DEF ProvisionWrite
    <3>2. WorkerFits
      BY <1>5, <2>3, <3>1 DEF ProvisionWrite, Worker, WorkerPC
    <3> QED BY <1>5, <2>1, <3>2 DEF ProvisionWrite, RepoUntouched, repoVars
  <2> QED BY <1>5, <2>2, <2>3 DEF ProvisionWrite
<1>6. CASE ProvisionReload
  <2>1. conf' \in [Domains -> Sites \cup {None}]
    BY <1>0, <1>6 DEF ProvisionReload
  <2>2. WorkerFits
    BY <1>6, WorkerMoves DEF ProvisionReload, WorkerPC
  <2> QED BY <1>6, <2>1, <2>2 DEF ProvisionReload, RepoUntouched, repoVars
<1>7. CASE ProvisionSetActive
  <2>1. WorkerFits
    BY <1>7, WorkerMoves DEF ProvisionSetActive, WorkerPC
  <2>2. CASE RepoUntouched
    BY <1>7, <2>1, <2>2 DEF ProvisionSetActive, RepoUntouched, repoVars
  <2>3. ASSUME NEW ok \in BOOLEAN, RepoUpdateSiteStatus(TheSite, "active", ok)
        PROVE  TypeOK'
    <3>1. sites' \in [Sites -> SiteStatus \cup {"absent"}] /\ jobs' = jobs
      BY <2>3 DEF RepoUpdateSiteStatus, SiteStatus
    <3> QED BY <1>7, <2>1, <2>3, <3>1, SaveType
            DEF ProvisionSetActive, RepoUpdateSiteStatus
  <2> QED BY <1>7, <2>2, <2>3 DEF ProvisionSetActive
<1>8. CASE DeprovisionRemove
  <2>1. conf' \in [Domains -> Sites \cup {None}]
    BY <1>8 DEF DeprovisionRemove
  <2>2. WorkerFits
    BY <1>8, WorkerMoves DEF DeprovisionRemove, WorkerPC
  <2> QED BY <1>8, <2>1, <2>2 DEF DeprovisionRemove, RepoUntouched, repoVars
<1>9. CASE DeprovisionReload
  <2>1. WorkerFits
    BY <1>9, WorkerMoves DEF DeprovisionReload, WorkerPC
  <2> QED BY <1>9, <2>1 DEF DeprovisionReload, RepoUntouched, repoVars
<1>10. CASE DeprovisionDeleteSite
  <2>1. WorkerFits
    BY <1>10, WorkerMoves DEF DeprovisionDeleteSite, WorkerPC
  <2>2. CASE RepoUntouched
    BY <1>10, <2>1, <2>2 DEF DeprovisionDeleteSite, RepoUntouched, repoVars
  <2>3. ASSUME NEW ok \in BOOLEAN, RepoDeleteSite(TheSite, ok)
        PROVE  TypeOK'
    <3>1. /\ sites' \in [Sites -> SiteStatus \cup {"absent"}]
          /\ domainIndex' \in [Domains -> Sites \cup {None}]
          /\ jobs' = jobs
      BY <2>3 DEF RepoDeleteSite
    <3> QED BY <1>10, <2>1, <2>3, <3>1, SaveType
            DEF DeprovisionDeleteSite, RepoDeleteSite
  <2> QED BY <1>10, <2>2, <2>3 DEF DeprovisionDeleteSite
<1>11. CASE WorkerSiteFailed
  <2>1. WorkerFits
    BY <1>11, WorkerMoves DEF WorkerSiteFailed, WorkerPC
  <2>2. CASE RepoUntouched
    BY <1>11, <2>1, <2>2 DEF WorkerSiteFailed, RepoUntouched, repoVars
  <2>3. ASSUME NEW ok \in BOOLEAN, RepoUpdateSiteStatus(TheSite, "failed", ok)
        PROVE  TypeOK'
    <3>1. sites' \in [Sites -> SiteStatus \cup {"absent"}] /\ jobs' = jobs
      BY <2>3 DEF RepoUpdateSiteStatus, SiteStatus
    <3> QED BY <1>11, <2>1, <2>3, <3>1, SaveType
            DEF WorkerSiteFailed, RepoUpdateSiteStatus
  <2> QED BY <1>11, <2>2, <2>3 DEF WorkerSiteFailed
<1>12. CASE WorkerFinish
  <2>1. WorkerFits
    BY <1>12 DEF WorkerFinish, IdleWorker
  <2>2. PICK ok \in BOOLEAN :
          RepoUpdateJob(worker.job,
                        IF worker.ok THEN "success" ELSE "failed", ok)
    BY <1>12 DEF WorkerFinish
  <2>3. jobs' \in [Jobs -> JobStatus \cup {"absent"}] /\ sites' = sites
    BY <2>2 DEF RepoUpdateJob, JobStatus
  <2> QED BY <1>12, <2>1, <2>2, <2>3, SaveType DEF WorkerFinish, RepoUpdateJob
<1> QED BY <1>1, <1>2, <1>3, <1>4, <1>5, <1>6, <1>7, <1>8, <1>9, <1>10, <1>11,
           <1>12 DEF WorkerStep

\* The steps of the process keep the type invariant.
LEMMA ProcessType ==
  ASSUME TypeOK, Signal \/ StopJobs \/ CloseRepo \/ Restart
  PROVE  TypeOK'
<1> USE ConstantsAssumption, IdleTypes DEF TypeOK
<1>1. CASE Signal
  BY <1>1 DEF Signal, RepoUntouched, repoVars, Phases
<1>2. CASE StopJobs
  BY <1>2 DEF StopJobs, RepoUntouched, repoVars, Phases
<1>3. CASE CloseRepo
  BY <1>3, SaveType DEF CloseRepo, RepoSaveOnly, repoVars, Phases
<1>4. CASE Restart
  BY <1>4 DEF Restart, Phases, IdleRequest, IdleWorker
<1> QED BY <1>1, <1>2, <1>3, <1>4


-----------------------------------------------------------------------------
(* What a step does to the repository, seen from the invariants: sites only  *)
(* change status, or one fresh site appears, or the worker's site goes; and  *)
(* the state file is left alone or receives the new snapshot.                *)

SameSites ==
  /\ siteDomain' = siteDomain
  /\ domainIndex' = domainIndex
  /\ \A s \in Sites : sites'[s] # "absent" <=> sites[s] # "absent"

AddsSite(s, d) ==
  /\ siteDomain[s] = None
  /\ domainIndex[d] = None
  /\ sites' = [sites EXCEPT ![s] = "provisioning"]
  /\ siteDomain' = [siteDomain EXCEPT ![s] = d]
  /\ domainIndex' = [domainIndex EXCEPT ![d] = s]

DropsSite(s) ==
  /\ worker.pc = "deleteSite"
  /\ worker'.pc = "finish"
  /\ s = TheSite
  /\ siteDomain' = siteDomain
  /\ sites' = [sites EXCEPT ![s] = "absent"]
  /\ domainIndex' = [domainIndex EXCEPT ![siteDomain[s]] = None]

DiskStep == disk' = disk \/ disk' = [sites |-> sites', jobs |-> jobs']

SiteEffect ==
  /\ DiskStep
  /\ \/ SameSites
     \/ \E s \in Sites, d \in Domains : AddsSite(s, d)
     \/ DropsSite(TheSite)

\* Each repository call has one of those effects.
LEMMA CallEffects ==
  ASSUME TypeOK
  PROVE  /\ RepoUntouched => DiskStep /\ SameSites
         /\ \A ok \in BOOLEAN : RepoSaveOnly(ok) => DiskStep /\ SameSites
         /\ \A ok \in BOOLEAN : \A j, st :
              RepoUpdateJob(j, st, ok) => DiskStep /\ SameSites
         /\ \A ok \in BOOLEAN : \A j, t, s :
              RepoCreateJob(j, t, s, ok) => DiskStep /\ SameSites
         /\ \A ok \in BOOLEAN, s \in Sites, st \in SiteStatus :
              sites[s] # "absent" /\ RepoUpdateSiteStatus(s, st, ok)
                => DiskStep /\ SameSites
<1>1. \A ok \in BOOLEAN : Save(ok) => DiskStep
  BY DEF Save, DiskStep
<1>2. RepoUntouched => DiskStep /\ SameSites
  BY DEF RepoUntouched, repoVars, DiskStep, SameSites
<1>3. \A ok \in BOOLEAN : RepoSaveOnly(ok) => DiskStep /\ SameSites
  BY <1>1 DEF RepoSaveOnly, repoVars, SameSites
<1>4. \A ok \in BOOLEAN : \A j, st :
        RepoUpdateJob(j, st, ok) => DiskStep /\ SameSites
  BY <1>1 DEF RepoUpdateJob, SameSites
<1>5. \A ok \in BOOLEAN : \A j, t, s :
        RepoCreateJob(j, t, s, ok) => DiskStep /\ SameSites
  BY <1>1 DEF RepoCreateJob, SameSites
<1>6. ASSUME NEW ok \in BOOLEAN, NEW s \in Sites, NEW st \in SiteStatus,
             sites[s] # "absent", RepoUpdateSiteStatus(s, st, ok)
      PROVE  DiskStep /\ SameSites
  BY <1>1, <1>6 DEF RepoUpdateSiteStatus, SameSites, SiteStatus, TypeOK
<1> QED BY <1>2, <1>3, <1>4, <1>5, <1>6

\* Every step of a request or of the worker has one of those effects.
LEMMA StepEffect ==
  ASSUME TypeOK, IssuedOK, Next, ~Restart
  PROVE  SiteEffect
<1> USE CallEffects DEF SiteEffect
<1>1. ASSUME NEW h \in Handlers, NEW s \in Sites, NEW d \in Domains,
             CreateSite(h, s, d)
      PROVE  SiteEffect
  BY <1>1 DEF CreateSite, RepoCreateSite, Save, AddsSite, DiskStep
<1>2. ASSUME NEW h \in Handlers,
             \/ \E s \in Sites : DeleteSite(h, s)
             \/ EnqueueCancel(h)
             \/ EnqueueCheck(h)
             \/ \E j \in Jobs : EnqueueCreateJob(h, j)
             \/ EnqueueSend(h)
             \/ Accepted(h)
      PROVE  SiteEffect
  BY <1>2 DEF DeleteSite, EnqueueCancel, EnqueueCheck, EnqueueCreateJob,
              EnqueueSend, Accepted
<1>3. ASSUME NEW h \in Handlers, SetDeleting(h) \/ EnqueueFailed(h)
      PROVE  SiteEffect
  <2>1. req[h].site \in Sites
    BY <1>3 DEF SetDeleting, EnqueueFailed, TypeOK, IssuedOK, Request
  <2> QED BY <1>3, <2>1 DEF SetDeleting, EnqueueFailed, SiteStatus
<1>4. CASE WorkerStep
  <2>1. CASE \/ WorkerTake \/ WorkerExit \/ WorkerStart \/ WorkerLoadSite
             \/ ProvisionWrite \/ ProvisionReload \/ DeprovisionRemove
             \/ DeprovisionReload \/ WorkerFinish
    BY <2>1 DEF WorkerTake, WorkerExit, WorkerStart, WorkerLoadSite,
                ProvisionWrite, ProvisionReload, DeprovisionRemove,
                DeprovisionReload, WorkerFinish
  <2>2. CASE ProvisionSetActive \/ WorkerSiteFailed
    <3>1. worker.job \in Jobs
      BY <2>2 DEF ProvisionSetActive, WorkerSiteFailed, TypeOK, Worker
    <3>2. TheSite \in Sites
      BY <3>1, ConstantsAssumption DEF TypeOK, IssuedOK, TheSite
    <3> QED BY <2>2, <3>2 DEF ProvisionSetActive, WorkerSiteFailed, SiteStatus
  <2>3. CASE DeprovisionDeleteSite
    <3>1. \A ok \in BOOLEAN : Finish(ok) => worker'.pc = "finish"
      BY DEF Finish, TypeOK, Worker
    <3> QED BY <2>3, <3>1
            DEF DeprovisionDeleteSite, RepoDeleteSite, Save, DropsSite, DiskStep
  <2> QED BY <1>4, <2>1, <2>2, <2>3 DEF WorkerStep
<1>5. CASE Signal \/ StopJobs \/ CloseRepo
  BY <1>5 DEF Signal, StopJobs, CloseRepo
<1> QED BY <1>1, <1>2, <1>3, <1>4, <1>5 DEF Next, HandlerStep

\* Creating, deleting and updating keep DomainIndex in step with Sites.
LEMMA IndexStep ==
  ASSUME TypeOK, IssuedOK, IndexSound, SiteEffect,
         worker.pc = "deleteSite" =>
           /\ TheSite \in Sites
           /\ TheDomain \in Domains
           /\ sites[TheSite] # "absent"
  PROVE  IndexSound'
<1>1. CASE SameSites
  BY <1>1 DEF SameSites, IndexSound
<1>2. ASSUME NEW s \in Sites, NEW d \in Domains, AddsSite(s, d)
      PROVE  IndexSound'
  <2> SUFFICES ASSUME NEW e \in Domains, NEW t \in Sites
               PROVE  domainIndex'[e] = t <=>
                        (sites'[t] # "absent" /\ siteDomain'[t] = e)
    BY DEF IndexSound
  <2>1. sites[s] = "absent"
    BY <1>2 DEF AddsSite, IssuedOK
  <2>2. CASE t = s
    BY <1>2, <2>1, <2>2 DEF AddsSite, IndexSound, TypeOK
  <2>3. CASE t # s
    BY <1>2, <2>3, ConstantsAssumption DEF AddsSite, IndexSound, TypeOK
  <2> QED BY <2>2, <2>3
<1>3. CASE DropsSite(TheSite)
  <2> SUFFICES ASSUME NEW e \in Domains, NEW t \in Sites
               PROVE  domainIndex'[e] = t <=>
                        (sites'[t] # "absent" /\ siteDomain'[t] = e)
    BY DEF IndexSound
  <2>1. /\ TheSite \in Sites
        /\ TheDomain \in Domains
        /\ sites[TheSite] # "absent"
    BY <1>3 DEF DropsSite
  <2>2. domainIndex[TheDomain] = TheSite
    BY <2>1 DEF IndexSound, TheDomain
  <2> QED BY <1>3, <2>1, <2>2, ConstantsAssumption
          DEF DropsSite, IndexSound, TypeOK, TheDomain
<1> QED BY <1>1, <1>2, <1>3 DEF SiteEffect

\* The snapshot on disk has unique domains because memory has.
LEMMA DiskUniqueStep ==
  ASSUME TypeOK, IssuedOK, DiskUnique, IndexSound', SiteEffect, TypeOK'
  PROVE  DiskUnique'
<1>1. CASE disk' = [sites |-> sites', jobs |-> jobs']
  <2> SUFFICES ASSUME NEW s \in Sites, NEW t \in Sites,
                      sites'[s] # "absent", sites'[t] # "absent",
                      siteDomain'[s] = siteDomain'[t],
                      siteDomain'[s] # None
               PROVE  s = t
    <3>1. \A s \in Sites : sites'[s] # "absent" => siteDomain'[s] # None
      BY ConstantsAssumption DEF SiteEffect, SameSites, AddsSite, DropsSite, IssuedOK, TypeOK
    <3> QED BY <1>1, <3>1 DEF DiskUnique
  <2>1. siteDomain'[s] \in Domains
    BY DEF TypeOK
  <2> QED BY <2>1 DEF IndexSound
<1>2. CASE disk' = disk
  <2>1. \A s \in Sites : disk.sites[s] # "absent" => siteDomain'[s] = siteDomain[s]
    BY DEF SiteEffect, SameSites, AddsSite, DropsSite, IssuedOK, TypeOK
  <2> QED BY <1>2, <2>1 DEF DiskUnique
<1> QED BY <1>1, <1>2 DEF SiteEffect, DiskStep

\* InSync in the next state.
SyncNext(s) == sites'[s] # "absent" => disk'.sites[s] # "absent"

\* A site that was saved once stays known to the state file for as long as
\* memory knows it.
LEMMA InSyncStep ==
  ASSUME TypeOK, SiteEffect, NEW s \in Sites, siteDomain[s] # None, InSync(s)
  PROVE  SyncNext(s) /\ siteDomain'[s] = siteDomain[s]
<1>1. siteDomain'[s] = siteDomain[s]
  BY DEF SiteEffect, SameSites, AddsSite, DropsSite, TypeOK
<1>2. sites'[s] # "absent" => sites[s] # "absent"
  BY DEF SiteEffect, SameSites, AddsSite, DropsSite, TypeOK
<1> QED BY <1>1, <1>2 DEF InSync, SyncNext, SiteEffect, DiskStep

-----------------------------------------------------------------------------
(* What a step does to jobs and to requests.                                 *)

SameJobs == jobs' = jobs /\ jobType' = jobType /\ jobSite' = jobSite

NewJob(h, j) ==
  /\ req[h].pc = "createJob"
  /\ jobType[j] = None
  /\ jobs' = [jobs EXCEPT ![j] = "queued"]
  /\ jobType' = [jobType EXCEPT ![j] = req[h].type]
  /\ jobSite' = [jobSite EXCEPT ![j] = req[h].site]

MovesJob ==
  /\ jobType' = jobType /\ jobSite' = jobSite
  /\ \/ worker.pc = "start" /\ jobs' = [jobs EXCEPT ![worker.job] = "running"]
     \/ /\ worker.pc = "finish"
        /\ \E st \in {"success", "failed"} :
             jobs' = [jobs EXCEPT ![worker.job] = st]

JobEffect ==
  \/ SameJobs
  \/ \E h \in Handlers, j \in Jobs : NewJob(h, j)
  \/ MovesJob

\* Every step but a restart leaves the jobs alone, adds one for a request, or
\* moves the worker's own.
LEMMA StepJobs ==
  ASSUME Next, ~Restart
  PROVE  JobEffect
<1> USE DEF JobEffect
<1>1. ASSUME NEW h \in Handlers,
             \/ \E s \in Sites, d \in Domains : CreateSite(h, s, d)
             \/ \E s \in Sites : DeleteSite(h, s)
             \/ EnqueueCancel(h) \/ SetDeleting(h) \/ EnqueueCheck(h)
             \/ EnqueueSend(h) \/ EnqueueFailed(h) \/ Accepted(h)
      PROVE  SameJobs
  BY <1>1 DEF CreateSite, DeleteSite, EnqueueCancel, SetDeleting, EnqueueCheck,
       EnqueueSend, EnqueueFailed, Accepted, RepoCreateSite, RepoUntouched,
       RepoUpdateSiteStatus, RepoSaveOnly, repoVars, SameJobs
<1>2. ASSUME NEW h \in Handlers, NEW j \in Jobs, EnqueueCreateJob(h, j)
      PROVE  NewJob(h, j)
  BY <1>2 DEF EnqueueCreateJob, RepoCreateJob, NewJob
<1>3. CASE WorkerStep
  <2>1. CASE WorkerStart \/ WorkerFinish
    BY <2>1 DEF WorkerStart, WorkerFinish, RepoUpdateJob, MovesJob
  <2>2. CASE \/ WorkerTake \/ WorkerExit \/ WorkerLoadSite
             \/ ProvisionWrite \/ ProvisionReload \/ DeprovisionRemove
             \/ DeprovisionReload \/ ProvisionSetActive
             \/ DeprovisionDeleteSite \/ WorkerSiteFailed
    BY <2>2 DEF WorkerTake, WorkerExit, WorkerLoadSite, ProvisionWrite,
         ProvisionReload, DeprovisionRemove, DeprovisionReload,
         ProvisionSetActive, DeprovisionDeleteSite, WorkerSiteFailed,
         RepoUntouched, RepoUpdateSiteStatus, RepoDeleteSite, repoVars, SameJobs
  <2> QED BY <1>3, <2>1, <2>2 DEF WorkerStep
<1>4. CASE Signal \/ StopJobs \/ CloseRepo
  BY <1>4 DEF Signal, StopJobs, CloseRepo, RepoUntouched, RepoSaveOnly,
       repoVars, SameJobs
<1> QED BY <1>1, <1>2, <1>3, <1>4 DEF Next, HandlerStep

\* A request is answered, goes on about the same site, or begins: with a site
\* it has just created and saved, or with the deletion of an existing one.
ReqEffect(h) ==
  \/ req'[h] = IdleRequest
  \/ /\ req[h].pc # "idle" \/ req'[h] = req[h]
     /\ req'[h].site = req[h].site
     /\ req'[h].type = req[h].type
  \/ /\ req'[h].type = "deprovision_site"
     /\ req'[h].site \in Sites
     /\ sites[req'[h].site] # "absent"
     /\ SameSites
  \/ /\ req'[h].site \in Sites
     /\ \E d \in Domains : AddsSite(req'[h].site, d)
     /\ disk' = [sites |-> sites', jobs |-> jobs']

\* Every step but a restart does one of these to each request.
LEMMA StepReq ==
  ASSUME TypeOK, Next, ~Restart, NEW h \in Handlers
  PROVE  ReqEffect(h)
<1>1. CASE req'[h] = req[h]
  BY <1>1 DEF ReqEffect
<1>2. ASSUME NEW g \in Handlers, NEW s \in Sites, NEW d \in Domains,
             CreateSite(g, s, d)
      PROVE  ReqEffect(h)
  <2>1. PICK ok \in BOOLEAN :
          /\ RepoCreateSite(s, d, ok)
          /\ req' = IF ok
                    THEN [req EXCEPT ![g] = [pc |-> "enqueue",
                            type |-> "provision_site", site |-> s, job |-> None]]
                    ELSE req
    BY <1>2 DEF CreateSite
  <2>2. CASE h # g \/ ~ok
    BY <1>1, <2>1, <2>2 DEF TypeOK
  <2>3. CASE h = g /\ ok
    <3>1. req'[h].site = s
      BY <2>1, <2>3 DEF TypeOK
    <3>2. AddsSite(s, d) /\ disk' = [sites |-> sites', jobs |-> jobs']
      BY <1>2, <2>1, <2>3 DEF CreateSite, RepoCreateSite, Save, AddsSite
    <3> QED BY <3>1, <3>2 DEF ReqEffect
  <2> QED BY <2>2, <2>3
<1>3. ASSUME NEW g \in Handlers, NEW s \in Sites, DeleteSite(g, s)
      PROVE  ReqEffect(h)
  <2>1. SameSites
    BY <1>3 DEF DeleteSite, RepoUntouched, repoVars, SameSites
  <2> QED BY <1>1, <1>3, <2>1 DEF DeleteSite, ReqEffect, TypeOK
<1>4. ASSUME NEW g \in Handlers, req[g].pc # "idle",
             Respond(g) \/ \E pc \in ReqPC : GoTo(g, pc)
      PROVE  ReqEffect(h)
  <2>1. CASE Respond(g)
    BY <1>1, <2>1 DEF Respond, ReqEffect, TypeOK
  <2>2. ASSUME NEW pc \in ReqPC, GoTo(g, pc)
        PROVE  ReqEffect(h)
    <3>1. req'[g].site = req[g].site /\ req'[g].type = req[g].type
      BY <2>2 DEF GoTo, TypeOK, Request
    <3>2. h # g => req'[h] = req[h]
      BY <2>2 DEF GoTo, TypeOK
    <3> QED BY <1>1, <1>4, <3>1, <3>2 DEF ReqEffect
  <2> QED BY <1>4, <2>1, <2>2
<1>5. ASSUME NEW g \in Handlers,
             \/ SetDeleting(g) \/ EnqueueCheck(g) \/ EnqueueSend(g)
             \/ EnqueueFailed(g) \/ Accepted(g) \/ EnqueueCancel(g)
      PROVE  ReqEffect(h)
  BY <1>4, <1>5 DEF SetDeleting, EnqueueCheck, EnqueueSend, EnqueueFailed,
       Accepted, EnqueueCancel, ReqPC
<1>6. ASSUME NEW g \in Handlers, NEW j \in Jobs, EnqueueCreateJob(g, j)
      PROVE  ReqEffect(h)
  BY <1>1, <1>6 DEF EnqueueCreateJob, ReqEffect, TypeOK
<1>7. CASE WorkerStep \/ Signal \/ StopJobs \/ CloseRepo
  <2>1. req' = req
    BY <1>7 DEF WorkerStep, WorkerTake, WorkerExit, WorkerStart, WorkerLoadSite,
         ProvisionWrite, ProvisionReload, DeprovisionRemove, DeprovisionReload,
         ProvisionSetActive, DeprovisionDeleteSite, WorkerSiteFailed,
         WorkerFinish, Signal, StopJobs, CloseRepo
  <2> QED BY <1>1, <2>1
<1> QED BY <1>2, <1>3, <1>5, <1>6, <1>7 DEF Next, HandlerStep

\* A busy worker keeps its job until it is idle again, and it takes only jobs
\* that exist.
LEMMA StepWorker ==
  ASSUME TypeOK, Next, ~Restart
  PROVE  \/ worker'.job \in {None, worker.job}
         \/ /\ worker.pc = "idle"
            /\ queue # << >>
            /\ worker'.job = Head(queue)
            /\ worker'.pc = "start"
            /\ jobs[worker'.job] # "absent"
<1>1. CASE \/ Signal \/ StopJobs \/ CloseRepo
           \/ \E h \in Handlers :
                \/ \E s \in Sites, d \in Domains : CreateSite(h, s, d)
                \/ \E s \in Sites : DeleteSite(h, s)
                \/ EnqueueCancel(h)
                \/ HandlerStep(h)
  BY <1>1 DEF Signal, StopJobs, CloseRepo, CreateSite, DeleteSite, EnqueueCancel,
       HandlerStep, SetDeleting, EnqueueCheck, EnqueueCreateJob, EnqueueSend,
       EnqueueFailed, Accepted
<1>2. CASE WorkerTake
  BY <1>2 DEF WorkerTake, TypeOK, Worker
<1>3. CASE WorkerStep /\ ~WorkerTake
  <2>1. \A pc : WGoTo(pc) => worker'.job = worker.job
    BY DEF WGoTo, TypeOK, Worker
  <2>2. \A ok : Finish(ok) => worker'.job = worker.job
    BY DEF Finish, TypeOK, Worker
  <2>3. CASE \/ WorkerExit \/ WorkerLoadSite \/ ProvisionReload
             \/ DeprovisionRemove \/ DeprovisionReload \/ ProvisionSetActive
             \/ DeprovisionDeleteSite \/ WorkerSiteFailed
    BY <2>1, <2>2, <2>3 DEF WorkerExit, WorkerLoadSite, ProvisionReload,
         DeprovisionRemove, DeprovisionReload, ProvisionSetActive,
         DeprovisionDeleteSite, WorkerSiteFailed
  <2>4. CASE WorkerStart
    BY <2>4 DEF WorkerStart, IdleWorker, TypeOK, Worker
  <2>5. CASE ProvisionWrite
    BY <2>1, <2>5 DEF ProvisionWrite, TypeOK, Worker
  <2>6. CASE WorkerFinish
    BY <2>6 DEF WorkerFinish, IdleWorker
  <2> QED BY <1>3, <2>3, <2>4, <2>5, <2>6 DEF WorkerStep
<1> QED BY <1>1, <1>2, <1>3 DEF Next

-----------------------------------------------------------------------------
(* The parts of SiteInv, step by step.                                       *)

\* Records, requests and the worker's job refer only to issued ids.
LEMMA IssuedStep ==
  ASSUME TypeOK, IssuedOK, TypeOK', Next, ~Restart
  PROVE  IssuedOK'
<1>1. SiteEffect /\ JobEffect
  BY StepEffect, StepJobs
<1> USE ConstantsAssumption
<1>2. \A s \in Sites : siteDomain[s] # None => siteDomain'[s] # None
  BY <1>1 DEF SiteEffect, SameSites, AddsSite, DropsSite, TypeOK
<1>3. \A s \in Sites : (sites'[s] # "absent" \/ disk'.sites[s] # "absent")
                         => siteDomain'[s] # None
  <2>1. \A s \in Sites : sites'[s] # "absent" => siteDomain'[s] # None
    BY <1>1 DEF SiteEffect, SameSites, AddsSite, DropsSite, TypeOK, IssuedOK
  <2> QED BY <1>1, <1>2, <2>1 DEF SiteEffect, DiskStep, IssuedOK
<1>4. \A j \in Jobs : jobType[j] # None =>
        jobType'[j] = jobType[j] /\ jobSite'[j] = jobSite[j]
  BY <1>1 DEF JobEffect, SameJobs, NewJob, MovesJob, TypeOK
<1>5. \A j \in Jobs : (jobs'[j] # "absent" \/ disk'.jobs[j] # "absent")
                         => jobType'[j] # None
  <2>1. \A h \in Handlers : req[h].type # None
    BY DEF TypeOK, Request
  <2>2. \A j \in Jobs : jobs'[j] # "absent" => jobType'[j] # None
    <3>1. CASE SameJobs
      BY <3>1 DEF SameJobs, IssuedOK
    <3>2. CASE \E h \in Handlers, j \in Jobs : NewJob(h, j)
      BY <2>1, <3>2 DEF NewJob, TypeOK, IssuedOK
    <3>3. CASE MovesJob
      BY <3>3 DEF MovesJob, TypeOK, IssuedOK
    <3> QED BY <1>1, <3>1, <3>2, <3>3 DEF JobEffect
  <2> QED BY <1>1, <1>4, <2>2 DEF SiteEffect, DiskStep, IssuedOK
<1>6. \A j \in Jobs : jobType'[j] # None =>
        jobSite'[j] # None /\ siteDomain'[jobSite'[j]] # None
  <2> SUFFICES ASSUME NEW j \in Jobs, jobType'[j] # None
               PROVE  jobSite'[j] # None /\ siteDomain'[jobSite'[j]] # None
    OBVIOUS
  <2>1. CASE jobType[j] # None
    BY <1>2, <1>4, <2>1 DEF IssuedOK, TypeOK
  <2>2. CASE jobType[j] = None
    <3>1. PICK h \in Handlers, k \in Jobs : NewJob(h, k)
      BY <1>1, <2>2 DEF JobEffect, SameJobs, MovesJob
    <3>2. k = j /\ jobSite'[j] = req[h].site
      BY <2>2, <3>1 DEF NewJob, TypeOK
    <3>3. req[h].site \in Sites /\ siteDomain[req[h].site] # None
      BY <3>1 DEF NewJob, IssuedOK, TypeOK, Request
    <3> QED BY <1>2, <3>2, <3>3
  <2> QED BY <2>1, <2>2
<1>7. \A h \in Handlers : req'[h].pc # "idle" =>
        req'[h].site # None /\ siteDomain'[req'[h].site] # None
  <2> SUFFICES ASSUME NEW h \in Handlers, req'[h].pc # "idle"
               PROVE  req'[h].site # None /\ siteDomain'[req'[h].site] # None
    OBVIOUS
  <2>1. ReqEffect(h)
    BY StepReq
  <2>2. CASE req'[h] = IdleRequest
    BY <2>2 DEF IdleRequest
  <2>3. CASE /\ req[h].pc # "idle" \/ req'[h] = req[h]
             /\ req'[h].site = req[h].site
    BY <1>2, <2>3 DEF IssuedOK, TypeOK, Request
  <2>4. CASE req'[h].site \in Sites /\ sites[req'[h].site] # "absent"
    BY <1>2, <2>4 DEF IssuedOK
  <2>5. CASE /\ req'[h].site \in Sites
             /\ \E d \in Domains : AddsSite(req'[h].site, d)
    BY <2>5 DEF AddsSite, TypeOK
  <2> QED BY <2>1, <2>2, <2>3, <2>4, <2>5 DEF ReqEffect
<1>8. worker'.job # None => jobType'[worker'.job] # None
  <2>1. worker'.job # None => worker'.job \in Jobs
    BY DEF TypeOK, Worker
  <2> QED BY <1>4, <2>1, StepWorker DEF IssuedOK
<1> QED BY <1>3, <1>5, <1>6, <1>7, <1>8 DEF IssuedOK

\* A provision job, from its request on, concerns a site that was saved.
LEMMA PersistedStep ==
  ASSUME TypeOK, IssuedOK, Persisted, TypeOK', Next, ~Restart
  PROVE  Persisted'
<1>1. SiteEffect /\ JobEffect
  BY StepEffect, StepJobs
<1> USE ConstantsAssumption
<1>2. ASSUME NEW h \in Handlers, req'[h].pc # "idle",
             req'[h].type = "provision_site"
      PROVE  SyncNext(req'[h].site)
  <2>1. ReqEffect(h)
    BY StepReq
  <2>2. CASE /\ req[h].pc # "idle" \/ req'[h] = req[h]
             /\ req'[h].site = req[h].site
             /\ req'[h].type = req[h].type
    <3>1. req[h].pc # "idle" /\ req[h].type = "provision_site"
      BY <1>2, <2>2
    <3>2. req[h].site \in Sites /\ siteDomain[req[h].site] # None
      BY <3>1 DEF IssuedOK, TypeOK, Request
    <3>3. SyncNext(req[h].site)
      BY <1>1, <3>1, <3>2, InSyncStep DEF Persisted
    <3> QED BY <2>2, <3>3
  <2>3. CASE disk' = [sites |-> sites', jobs |-> jobs']
    BY <2>3 DEF SyncNext
  <2> QED BY <1>2, <2>1, <2>2, <2>3 DEF ReqEffect, IdleRequest
<1>3. ASSUME NEW j \in Jobs, jobType'[j] = "provision_site"
      PROVE  SyncNext(jobSite'[j])
  <2>1. CASE jobType[j] # None
    <3>1. jobType[j] = "provision_site" /\ jobSite'[j] = jobSite[j]
      BY <1>1, <1>3, <2>1 DEF JobEffect, SameJobs, NewJob, MovesJob, TypeOK
    <3>2. jobSite[j] \in Sites /\ siteDomain[jobSite[j]] # None
      BY <2>1 DEF IssuedOK, TypeOK
    <3> QED BY <1>1, <3>1, <3>2, InSyncStep DEF Persisted
  <2>2. CASE jobType[j] = None
    <3>1. PICK h \in Handlers, k \in Jobs : NewJob(h, k)
      BY <1>1, <1>3, <2>2 DEF JobEffect, SameJobs, MovesJob, JobTypes
    <3>2. /\ k = j
          /\ jobSite'[j] = req[h].site
          /\ req[h].type = "provision_site"
      BY <1>3, <2>2, <3>1 DEF NewJob, TypeOK, JobTypes
    <3>3. req[h].site \in Sites /\ siteDomain[req[h].site] # None
      BY <3>1 DEF NewJob, IssuedOK, TypeOK, Request
    <3>4. InSync(req[h].site)
      BY <3>1, <3>2 DEF NewJob, Persisted
    <3> QED BY <1>1, <3>2, <3>3, <3>4, InSyncStep
  <2> QED BY <2>1, <2>2
<1> QED BY <1>2, <1>3 DEF Persisted, InSync, SyncNext

\* The worker's site cannot go while the worker is on it, what it would roll
\* back to is its own conf file or none, and the site's record goes only after
\* its conf file.
LEMMA WorkerSoundStep ==
  ASSUME SiteInv, TypeOK', Next, ~Restart
  PROVE  WorkerSound'
<1> USE ConstantsAssumption DEF SiteInv
<1>1. SiteEffect /\ JobEffect
  BY StepEffect, StepJobs
<1>2. worker.job # None =>
        /\ worker.job \in Jobs
        /\ TheSite \in Sites
        /\ TheDomain \in Domains
        /\ jobType'[worker.job] = jobType[worker.job]
        /\ jobSite'[worker.job] = TheSite
        /\ siteDomain'[TheSite] = TheDomain
  <2> SUFFICES ASSUME worker.job # None
               PROVE  /\ worker.job \in Jobs
                      /\ TheSite \in Sites
                      /\ TheDomain \in Domains
                      /\ jobType'[worker.job] = jobType[worker.job]
                      /\ jobSite'[worker.job] = TheSite
                      /\ siteDomain'[TheSite] = TheDomain
    OBVIOUS
  <2>1. worker.job \in Jobs /\ jobType[worker.job] # None
    BY DEF TypeOK, Worker, IssuedOK
  <2>2. /\ jobType'[worker.job] = jobType[worker.job]
        /\ jobSite'[worker.job] = TheSite
    BY <1>1, <2>1 DEF JobEffect, SameJobs, NewJob, MovesJob, TypeOK, TheSite
  <2>3. TheSite \in Sites /\ TheDomain \in Domains
    BY <2>1 DEF IssuedOK, TypeOK, TheSite, TheDomain
  <2>4. siteDomain'[TheSite] = TheDomain
    BY <1>1, <2>3 DEF SiteEffect, SameSites, AddsSite, DropsSite, TypeOK, TheDomain
  <2> QED BY <2>1, <2>2, <2>3, <2>4
<1> DEFINE Site2 == jobSite'[worker'.job]
           Goal ==
             /\ worker'.pc \in {"write", "reload", "setActive", "remove",
                                "reloadGone", "deleteSite", "siteFailed"}
                  => sites'[Site2] # "absent"
             /\ worker'.pc \in {"write", "reload", "setActive"}
                  => jobType'[worker'.job] = "provision_site"
             /\ worker'.pc = "reload" => worker'.prev \in {None, Site2}
             /\ worker'.pc \in {"reloadGone", "deleteSite"}
                  => conf'[siteDomain'[Site2]] = None
<1> SUFFICES Goal
  BY DEF WorkerSound, TheSite, TheDomain
<1>3. (worker.job # None /\ sites[TheSite] # "absent" /\ worker'.pc # "finish")
        => sites'[TheSite] # "absent"
  BY <1>1, <1>2 DEF SiteEffect, SameSites, AddsSite, DropsSite, TypeOK
<1>4. CASE worker' = worker /\ conf' = conf
  <2>1. CASE worker.job = None
    BY <1>4, <2>1 DEF TypeOK
  <2>2. CASE worker.job # None
    <3>1. Site2 = TheSite
      BY <1>2, <1>4, <2>2
    <3> QED BY <1>2, <1>3, <1>4, <2>2, <3>1
            DEF WorkerSound, TypeOK, TheSite, TheDomain
  <2> QED BY <2>1, <2>2
<1>5. CASE worker'.pc \in {"idle", "exited", "start", "loadSite", "finish"}
  BY <1>5
<1>6. CASE WorkerLoadSite /\ sites[TheSite] # "absent"
  <2>1. worker.job # None /\ worker'.job = worker.job
    BY <1>6 DEF WorkerLoadSite, WGoTo, TypeOK, Worker
  <2>2. /\ worker'.pc \in {"write", "remove"}
        /\ worker'.pc = "write" => jobType[worker.job] = "provision_site"
    BY <1>6 DEF WorkerLoadSite, WGoTo, TypeOK, Worker
  <2> QED BY <1>2, <1>3, <1>6, <2>1, <2>2
<1>7. CASE ProvisionWrite
  <2>1. /\ worker.pc = "write" /\ worker.job # None
        /\ sites[TheSite] # "absent"
        /\ jobType[worker.job] = "provision_site"
    BY <1>7 DEF ProvisionWrite, WorkerSound, TypeOK
  <2>2. CASE WGoTo("siteFailed")
    <3>1. worker'.job = worker.job /\ worker'.pc = "siteFailed"
      BY <2>2 DEF WGoTo, TypeOK, Worker
    <3> QED BY <1>2, <1>3, <2>1, <3>1
  <2>3. CASE worker' = [worker EXCEPT !.pc = "reload", !.prev = conf[TheDomain]]
    <3>1. /\ worker'.job = worker.job /\ worker'.pc = "reload"
          /\ worker'.prev = conf[TheDomain]
      BY <2>3 DEF TypeOK, Worker
    <3>2. conf[TheDomain] \in {None, TheSite}
      <4> SUFFICES ASSUME conf[TheDomain] # None PROVE conf[TheDomain] = TheSite
        OBVIOUS
      <4>1. conf[TheDomain] \in Sites
        BY <1>2, <2>1 DEF TypeOK
      <4>2. domainIndex[TheDomain] = conf[TheDomain]
        BY <1>2, <2>1, <4>1 DEF NoOrphanConf, IndexSound
      <4>3. domainIndex[TheDomain] = TheSite
        BY <1>2, <2>1 DEF IndexSound, TheDomain
      <4> QED BY <4>2, <4>3
    <3> QED BY <1>2, <1>3, <2>1, <3>1, <3>2
  <2> QED BY <1>7, <2>2, <2>3 DEF ProvisionWrite
<1>8. CASE ProvisionReload \/ DeprovisionReload \/ DeprovisionRemove
  <2>1. worker.job # None /\ sites[TheSite] # "absent"
    BY <1>8 DEF ProvisionReload, DeprovisionReload, DeprovisionRemove,
                WorkerSound, TypeOK
  <2>2. \A pc : WGoTo(pc) => worker'.job = worker.job /\ worker'.pc = pc
    BY DEF WGoTo, TypeOK, Worker
  <2>3. CASE worker'.pc = "siteFailed" /\ worker'.job = worker.job
    BY <1>2, <1>3, <2>1, <2>3
  <2>4. CASE worker.pc = "reload" /\ WGoTo("setActive")
    BY <1>2, <1>3, <2>1, <2>2, <2>4 DEF WorkerSound
  <2>5. CASE conf' = [conf EXCEPT ![TheDomain] = None] /\ WGoTo("reloadGone")
    <3>1. conf'[TheDomain] = None
      BY <1>2, <2>1, <2>5 DEF TypeOK
    <3> QED BY <1>2, <1>3, <2>1, <2>2, <2>5, <3>1
  <2>6. CASE worker.pc = "reloadGone" /\ conf' = conf /\ WGoTo("deleteSite")
    BY <1>2, <1>3, <2>1, <2>2, <2>6 DEF WorkerSound
  <2> QED BY <1>8, <2>2, <2>3, <2>4, <2>5, <2>6
          DEF ProvisionReload, DeprovisionReload, DeprovisionRemove
<1>9. CASE WorkerStep
  <2>1. \A pc : WGoTo(pc) => worker'.pc = pc
    BY DEF WGoTo, TypeOK, Worker
  <2>2. \A ok : Finish(ok) => worker'.pc = "finish"
    BY DEF Finish, TypeOK, Worker
  <2>3. CASE WorkerTake
    BY <1>4, <1>5, <2>3 DEF WorkerTake, TypeOK, Worker
  <2>4. CASE WorkerStart
    BY <1>5, <2>4 DEF WorkerStart, IdleWorker, TypeOK, Worker
  <2>5. CASE WorkerFinish
    BY <1>5, <2>5 DEF WorkerFinish, IdleWorker
  <2>6. CASE \/ WorkerExit \/ ProvisionSetActive \/ DeprovisionDeleteSite
             \/ WorkerSiteFailed
             \/ WorkerLoadSite /\ sites[TheSite] = "absent"
    BY <1>5, <2>1, <2>2, <2>6 DEF WorkerExit, ProvisionSetActive,
         DeprovisionDeleteSite, WorkerSiteFailed, WorkerLoadSite
  <2> QED BY <1>6, <1>7, <1>8, <1>9, <2>3, <2>4, <2>5, <2>6 DEF WorkerStep
<1>10. CASE ~WorkerStep
  BY <1>4, <1>10 DEF Next, Signal, StopJobs, CloseRepo, CreateSite, DeleteSite,
       EnqueueCancel, HandlerStep, SetDeleting, EnqueueCheck, EnqueueCreateJob,
       EnqueueSend, EnqueueFailed, Accepted
<1> QED BY <1>9, <1>10

\* A conf file is written only for the worker's site, which is saved, and a
\* site leaves memory only when no conf file names it.
LEMMA NoOrphanStep ==
  ASSUME SiteInv, TypeOK', Next, ~Restart
  PROVE  NoOrphanConf'
<1> USE ConstantsAssumption DEF SiteInv
<1>1. SiteEffect
  BY StepEffect
<1>2. worker.job # None =>
        worker.job \in Jobs /\ TheSite \in Sites /\ TheDomain \in Domains
  <2>1. worker.job # None => worker.job \in Jobs /\ jobType[worker.job] # None
    BY DEF TypeOK, Worker, IssuedOK
  <2> QED BY <2>1 DEF IssuedOK, TypeOK, TheSite, TheDomain
<1>3. \A d \in Domains : conf'[d] # None =>
        conf'[d] = conf[d] \/ /\ worker.pc \in {"write", "reload"}
                              /\ conf'[d] = TheSite
                              /\ d = TheDomain
  <2>1. CASE ProvisionWrite
    BY <1>2, <2>1 DEF ProvisionWrite, TypeOK
  <2>2. CASE ProvisionReload
    BY <1>2, <2>2 DEF ProvisionReload, TypeOK, WorkerSound
  <2>3. CASE DeprovisionRemove
    BY <1>2, <2>3 DEF DeprovisionRemove, TypeOK
  <2>4. CASE ~ProvisionWrite /\ ~ProvisionReload /\ ~DeprovisionRemove
    BY <2>4 DEF Next, Signal, StopJobs, CloseRepo, CreateSite, DeleteSite,
         EnqueueCancel, HandlerStep, SetDeleting, EnqueueCheck,
         EnqueueCreateJob, EnqueueSend, EnqueueFailed, Accepted, WorkerStep,
         WorkerTake, WorkerExit, WorkerStart, WorkerLoadSite,
         DeprovisionReload, ProvisionSetActive, DeprovisionDeleteSite,
         WorkerSiteFailed, WorkerFinish
  <2> QED BY <2>1, <2>2, <2>3, <2>4
<1>4. ASSUME NEW d \in Domains, conf'[d] # None
      PROVE  /\ conf'[d] \in Sites
             /\ siteDomain[conf'[d]] = d
             /\ sites[conf'[d]] # "absent"
             /\ disk.sites[conf'[d]] # "absent"
             /\ worker.pc = "deleteSite" => conf'[d] # TheSite
  <2>1. CASE conf'[d] = conf[d]
    BY <1>2, <1>4, <2>1 DEF NoOrphanConf, WorkerSound, TheDomain, TypeOK
  <2>2. CASE /\ worker.pc \in {"write", "reload"}
             /\ conf'[d] = TheSite
             /\ d = TheDomain
    <3>1. /\ worker.job # None
          /\ sites[TheSite] # "absent"
          /\ jobType[worker.job] = "provision_site"
      BY <2>2 DEF WorkerSound, TypeOK
    <3>2. InSync(TheSite)
      BY <1>2, <3>1 DEF Persisted, TheSite
    <3> QED BY <1>2, <2>2, <3>1, <3>2 DEF InSync, TheDomain
  <2> QED BY <1>3, <1>4, <2>1, <2>2
<1>5. ASSUME NEW d \in Domains, conf'[d] # None
      PROVE  /\ siteDomain'[conf'[d]] = d
             /\ sites'[conf'[d]] # "absent"
             /\ disk'.sites[conf'[d]] # "absent"
  <2>1. siteDomain[conf'[d]] # None
    BY <1>4, <1>5
  <2>2. siteDomain'[conf'[d]] = d /\ sites'[conf'[d]] # "absent"
    BY <1>1, <1>4, <1>5, <2>1
    DEF SiteEffect, SameSites, AddsSite, DropsSite, TypeOK
  <2> QED BY <1>1, <1>4, <1>5, <2>2 DEF SiteEffect, DiskStep
<1> QED BY <1>5 DEF NoOrphanConf

\* A restart reloads the state file: memory then is what disk was.
LEMMA RestartStep ==
  ASSUME SiteInv, TypeOK', Restart
  PROVE  SiteInv'
<1> USE ConstantsAssumption DEF SiteInv
<1>1. /\ sites' = disk.sites /\ jobs' = disk.jobs /\ disk' = disk
      /\ siteDomain' = siteDomain /\ jobType' = jobType /\ jobSite' = jobSite
      /\ worker' = IdleWorker /\ conf' = conf
      /\ \A h \in Handlers : req'[h] = IdleRequest
      /\ RebuiltIndex(domainIndex')
  BY DEF Restart
<1>2. IssuedOK'
  BY <1>1 DEF IssuedOK, IdleRequest, IdleWorker
<1>3. IndexSound'
  <2> SUFFICES ASSUME NEW d \in Domains, NEW s \in Sites
               PROVE  domainIndex'[d] = s <=>
                        (disk.sites[s] # "absent" /\ siteDomain[s] = d)
    BY <1>1 DEF IndexSound
  <2> DEFINE owners ==
        {t \in Sites : disk.sites[t] # "absent" /\ siteDomain[t] = d}
  <2>1. IF owners = {} THEN domainIndex'[d] = None ELSE domainIndex'[d] \in owners
    BY <1>1 DEF RebuiltIndex
  <2>2. \A t, u \in owners : t = u
    BY DEF DiskUnique
  <2> QED BY <2>1, <2>2
<1>4. DiskUnique' /\ Persisted' /\ WorkerSound' /\ NoOrphanConf'
  BY <1>1 DEF DiskUnique, Persisted, InSync, WorkerSound, NoOrphanConf,
              IdleRequest, IdleWorker
<1> QED BY <1>2, <1>3, <1>4

\* SiteInv is an inductive invariant of the core.
THEOREM SiteInvariance == Spec => []SiteInv
<1>1. Init => SiteInv
  <2> SUFFICES ASSUME Init PROVE SiteInv
    OBVIOUS
  <2>1. TypeOK
    BY ConstantsAssumption, IdleTypes
    DEF Init, TypeOK, IdleRequest, IdleWorker, Phases
  <2>2. IssuedOK /\ DiskUnique /\ WorkerSound /\ Persisted
    BY DEF Init, IssuedOK, DiskUnique, WorkerSound, Persisted, InSync,
           IdleRequest, IdleWorker
  <2>3. IndexSound /\ NoOrphanConf
    BY ConstantsAssumption DEF Init, IndexSound, NoOrphanConf
  <2> QED BY <2>1, <2>2, <2>3 DEF SiteInv
<1>2. SiteInv /\ [Next]_vars => SiteInv'
  <2> SUFFICES ASSUME SiteInv, [Next]_vars PROVE SiteInv'
    OBVIOUS
  <2>1. CASE UNCHANGED vars
    BY <2>1 DEF vars, SiteInv, TypeOK, IssuedOK, IndexSound, DiskUnique,
         Persisted, InSync, WorkerSound, NoOrphanConf, TheSite, TheDomain
  <2>2. CASE Next
    <3>1. TypeOK'
      BY <2>2, HandlerType, WorkerType, ProcessType DEF Next, SiteInv
    <3>2. CASE Restart
      BY <3>1, <3>2, RestartStep
    <3>3. CASE ~Restart
      <4>1. SiteEffect /\ IssuedOK'
        BY <2>2, <3>1, <3>3, StepEffect, IssuedStep DEF SiteInv
      <4>2. IndexSound'
        <5>1. worker.pc = "deleteSite" =>
                /\ TheSite \in Sites
                /\ TheDomain \in Domains
                /\ sites[TheSite] # "absent"
          <6> SUFFICES ASSUME worker.pc = "deleteSite"
                       PROVE  /\ TheSite \in Sites
                              /\ TheDomain \in Domains
                              /\ sites[TheSite] # "absent"
            OBVIOUS
          <6>1. worker.job \in Jobs /\ jobType[worker.job] # None
            BY ConstantsAssumption DEF SiteInv, TypeOK, Worker, IssuedOK
          <6> QED BY <6>1, ConstantsAssumption
                  DEF SiteInv, IssuedOK, TypeOK, WorkerSound, TheSite, TheDomain
        <5> QED BY <4>1, <5>1, IndexStep DEF SiteInv
      <4>3. DiskUnique'
        BY <3>1, <4>1, <4>2, DiskUniqueStep DEF SiteInv
      <4>4. Persisted'
        BY <2>2, <3>1, <3>3, PersistedStep DEF SiteInv
      <4>5. WorkerSound' /\ NoOrphanConf'
        BY <2>2, <3>1, <3>3, WorkerSoundStep, NoOrphanStep
      <4> QED BY <3>1, <4>1, <4>2, <4>3, <4>4, <4>5 DEF SiteInv
    <3> QED BY <3>2, <3>3
  <2> QED BY <2>1, <2>2
<1> QED BY <1>1, <1>2, PTL DEF Spec

\* Type correctness of the core: the repository's maps, the channel (never
\* above its capacity), every request and the worker keep their types through
\* failed saves, shutdowns and restarts.
THEOREM TypeCorrect == Spec => []TypeOK
BY SiteInvariance, PTL DEF SiteInv

\* No conf file in sites-available without a site record, in memory and in the
\* state file, that can still be used to remove it (runDeprovisionSite deletes
\* the record only after DeprovisionSite succeeded).
THEOREM NoOrphanConfiguration == Spec => []NoOrphanConf
BY SiteInvariance, PTL DEF SiteInv

\* DomainIndex and Sites agree, so no two sites share a domain.
THEOREM DomainsUnique == Spec => []IndexSound
BY SiteInvariance, PTL DEF SiteInv

-----------------------------------------------------------------------------
(* The jobs: what is in the channel, in the hands of a request or of the      *)
(* worker, is recorded in the state file, once.  The proofs rest on SiteInv.  *)

JobPart == WorkerJobStatus /\ SendSound /\ QueueSound

\* A step that leaves the jobs and the channel alone, brings no request to its
\* send and does not take, start or finish a job keeps the records in order.
QuietStep ==
  /\ DiskStep
  /\ jobs' = jobs
  /\ queue' = queue
  /\ \A h \in Handlers : req'[h].pc = "send" => req'[h] = req[h]
  /\ worker'.job = worker.job
  /\ worker'.pc = "start" => worker.pc = "start"
  /\ worker'.pc \notin {"idle", "exited", "start"}
       => worker.pc \notin {"idle", "exited", "start"}

\* A saved status stays saved when the job does not change.
LEMMA StaysSaved ==
  ASSUME TypeOK, DiskStep, NEW j \in Jobs, NEW v,
         disk.jobs[j] = v, jobs'[j] = v
  PROVE  disk'.jobs[j] = v
BY DEF DiskStep, TypeOK

\* The ids the invariant speaks of are ids of jobs.
LEMMA JobIds ==
  ASSUME TypeOK
  PROVE  /\ \A i \in 1 .. Len(queue) : queue[i] \in Jobs
         /\ \A h \in Handlers : req[h].pc = "send" => req[h].job \in Jobs
         /\ worker.pc \notin {"idle", "exited"} => worker.job \in Jobs
BY ConstantsAssumption DEF TypeOK, Request, Worker

\* The records stay in order through such a step.
LEMMA QuietKeeps ==
  ASSUME TypeOK, JobPart, QuietStep
  PROVE  JobPart'
<1> USE JobIds DEF JobPart, QuietStep
<1>1. WorkerJobStatus'
  BY StaysSaved DEF WorkerJobStatus
<1>2. SendSound'
  BY StaysSaved DEF SendSound
<1>3. QueueSound'
  BY StaysSaved DEF QueueSound
<1> QED BY <1>1, <1>2, <1>3

\* A job that is created is new to the channel, to every request and to the
\* worker, and the request goes on to its send only when it was saved.
LEMMA CreateJobKeeps ==
  ASSUME SiteInv, TypeOK', JobPart, NEW h \in Handlers, NEW j \in Jobs,
         EnqueueCreateJob(h, j)
  PROVE  JobPart'
<1> USE JobIds DEF SiteInv, JobPart
<1>1. PICK ok \in BOOLEAN :
        /\ RepoCreateJob(j, req[h].type, req[h].site, ok)
        /\ req' = [req EXCEPT ![h] = [pc |-> IF ok THEN "send" ELSE "fail",
                     type |-> req[h].type, site |-> req[h].site, job |-> j]]
  BY DEF EnqueueCreateJob
<1>2. /\ queue' = queue /\ worker' = worker
      /\ jobs' = [jobs EXCEPT ![j] = "queued"]
      /\ disk' = IF ok THEN [sites |-> sites', jobs |-> jobs'] ELSE disk
      /\ DiskStep
  BY <1>1 DEF EnqueueCreateJob, RepoCreateJob, Save, DiskStep
<1>3. jobs[j] = "absent" /\ worker.job # j
  BY ConstantsAssumption DEF EnqueueCreateJob, IssuedOK, TypeOK
<1>4. \A i \in 1 .. Len(queue) : queue[i] # j
  BY <1>3 DEF QueueSound
<1>5. \A g \in Handlers : req[g].pc = "send" => req[g].job # j
  BY <1>3 DEF SendSound
<1>6. \A k \in Jobs : k # j => jobs'[k] = jobs[k]
  BY <1>2 DEF TypeOK
<1>7. WorkerJobStatus'
  BY <1>2, <1>3, <1>6, StaysSaved DEF WorkerJobStatus
<1>8. QueueSound'
  BY <1>2, <1>4, <1>6, StaysSaved DEF QueueSound
<1>9. SendSound'
  <2>1. \A g \in Handlers : g # h => req'[g] = req[g]
    BY <1>1 DEF TypeOK
  <2>2. req'[h].job = j /\ (req'[h].pc = "send" => ok)
    BY <1>1 DEF TypeOK
  <2>3. ok => jobs'[j] = "queued" /\ disk'.jobs[j] = "queued"
    BY <1>2 DEF TypeOK
  <2>4. ASSUME NEW g \in Handlers, req'[g].pc = "send", g # h
        PROVE  /\ jobs'[req'[g].job] = "queued"
               /\ disk'.jobs[req'[g].job] = "queued"
               /\ worker'.job # req'[g].job
               /\ \A i \in 1 .. Len(queue) : queue[i] # req'[g].job
               /\ req'[g].job # j
    BY <1>2, <1>5, <1>6, <2>1, <2>4, StaysSaved DEF SendSound
  <2> QED BY <1>2, <1>3, <1>4, <2>1, <2>2, <2>3, <2>4 DEF SendSound
<1> QED BY <1>7, <1>8, <1>9

\* The id that is sent was the sender's alone.
LEMMA SendKeeps ==
  ASSUME SiteInv, TypeOK', JobPart, NEW h \in Handlers, EnqueueSend(h)
  PROVE  JobPart'
<1> USE JobIds DEF SiteInv, JobPart
<1> DEFINE j == req[h].job
<1>1. /\ req[h].pc = "send" /\ j \in Jobs
      /\ queue \in Seq(Jobs) /\ queue' = Append(queue, j)
      /\ worker' = worker /\ jobs' = jobs /\ disk' = disk
  BY DEF EnqueueSend, RepoUntouched, repoVars, TypeOK
<1>2. \A g \in Handlers : req'[g].pc = "send" => g # h /\ req'[g] = req[g]
  BY DEF EnqueueSend, GoTo, TypeOK, Request
<1>3. /\ Len(queue') = Len(queue) + 1
      /\ \A i \in 1 .. Len(queue) : queue'[i] = queue[i]
      /\ queue'[Len(queue) + 1] = j
  BY <1>1
<1>4. WorkerJobStatus'
  BY <1>1 DEF WorkerJobStatus
<1>5. QueueSound'
  <2>1. /\ jobs[j] = "queued" /\ disk.jobs[j] = "queued" /\ worker.job # j
        /\ \A i \in 1 .. Len(queue) : queue[i] # j
    BY <1>1 DEF SendSound
  <2>2. \A i \in 1 .. Len(queue') : i \in 1 .. Len(queue) \/ i = Len(queue) + 1
    BY <1>1, <1>3
  <2> QED BY <1>1, <1>3, <2>1, <2>2 DEF QueueSound
<1>6. SendSound'
  <2>1. \A i \in 1 .. Len(queue') : queue'[i] = j
                                  \/ \E k \in 1 .. Len(queue) : queue'[i] = queue[k]
    BY <1>1, <1>3
  <2> QED BY <1>1, <1>2, <2>1 DEF SendSound
<1> QED BY <1>4, <1>5, <1>6

\* The id the worker takes is in the channel no more.
LEMMA TakeKeeps ==
  ASSUME SiteInv, TypeOK', JobPart, WorkerTake
  PROVE  JobPart'
<1> USE JobIds DEF SiteInv, JobPart
<1> DEFINE j == queue[1]
<1>1. /\ queue \in Seq(Jobs) /\ queue # << >> /\ queue' = Tail(queue)
      /\ jobs' = jobs /\ disk' = disk /\ req' = req
  BY DEF WorkerTake, RepoUntouched, repoVars, TypeOK
<1>2. /\ 1 \in 1 .. Len(queue) /\ Head(queue) = j
      /\ \A i \in 1 .. Len(queue') :
           i + 1 \in 1 .. Len(queue) /\ i + 1 # 1 /\ queue'[i] = queue[i + 1]
  BY <1>1
<1>3. jobs[j] = "queued" /\ disk.jobs[j] = "queued"
  BY <1>2 DEF QueueSound
<1>4. worker'.pc = "start" /\ worker'.job = j
  BY <1>2, <1>3 DEF WorkerTake, TypeOK, Worker
<1>5. WorkerJobStatus'
  BY <1>1, <1>3, <1>4 DEF WorkerJobStatus
<1>6. QueueSound'
  <2>1. ASSUME NEW i \in 1 .. Len(queue')
        PROVE  /\ jobs[queue'[i]] = "queued" /\ disk.jobs[queue'[i]] = "queued"
               /\ queue'[i] # j
               /\ \A k \in 1 .. Len(queue') : queue'[k] = queue'[i] => k = i
    <3>1. \A k \in 1 .. Len(queue') : queue'[k] = queue'[i] => k + 1 = i + 1
      BY <1>2 DEF QueueSound
    <3> QED BY <1>2, <3>1 DEF QueueSound
  <2> QED BY <1>1, <1>4, <2>1 DEF QueueSound
<1>7. SendSound'
  BY <1>1, <1>2, <1>4 DEF SendSound
<1> QED BY <1>5, <1>6, <1>7

\* Starting and finishing change the worker's own job only, and work goes on
\* only when the start was saved.
LEMMA WorkKeeps ==
  ASSUME SiteInv, TypeOK', JobPart, WorkerStart \/ WorkerFinish
  PROVE  JobPart'
<1> USE JobIds DEF SiteInv, JobPart
<1> DEFINE j == worker.job
<1>1. worker.pc \in {"start", "finish"} /\ j \in Jobs
  BY DEF WorkerStart, WorkerFinish
<1>2. /\ queue' = queue /\ req' = req /\ DiskStep
      /\ \A k \in Jobs : k # j => jobs'[k] = jobs[k]
  BY DEF WorkerStart, WorkerFinish, RepoUpdateJob, Save, DiskStep, TypeOK
<1>3. worker' = IdleWorker \/
        (/\ worker' = [worker EXCEPT !.pc = "loadSite"]
         /\ jobs'[j] = "running" /\ disk'.jobs[j] = "running")
  BY <1>1 DEF WorkerStart, WorkerFinish, RepoUpdateJob, Save, TypeOK
<1>4. worker'.job \in {None, j}
      /\ (worker'.pc = "idle" \/ (worker'.pc = "loadSite" /\ worker'.job = j))
  BY <1>3 DEF IdleWorker, TypeOK, Worker
<1>5. WorkerJobStatus'
  BY <1>3, <1>4 DEF WorkerJobStatus, IdleWorker
<1>6. QueueSound'
  BY <1>2, <1>4, ConstantsAssumption, StaysSaved DEF QueueSound
<1>7. SendSound'
  BY <1>2, <1>4, ConstantsAssumption, StaysSaved DEF SendSound
<1> QED BY <1>5, <1>6, <1>7

\* All other steps of requests, worker and process are quiet.
LEMMA OtherQuiet ==
  ASSUME SiteInv, TypeOK', Next, ~Restart, ~WorkerTake, ~WorkerStart, ~WorkerFinish,
         \A h \in Handlers :
           ~EnqueueSend(h) /\ \A j \in Jobs : ~EnqueueCreateJob(h, j)
  PROVE  QuietStep
<1> USE DEF SiteInv, QuietStep
<1>1. DiskStep
  BY StepEffect DEF SiteEffect
<1>2. ASSUME NEW h \in Handlers,
             \/ \E s \in Sites, d \in Domains : CreateSite(h, s, d)
             \/ \E s \in Sites : DeleteSite(h, s)
             \/ EnqueueCancel(h) \/ SetDeleting(h) \/ EnqueueCheck(h)
             \/ EnqueueFailed(h) \/ Accepted(h)
      PROVE  QuietStep
  <2>1. jobs' = jobs /\ queue' = queue /\ worker' = worker
    BY <1>2 DEF CreateSite, DeleteSite, EnqueueCancel, SetDeleting, EnqueueCheck,
         EnqueueFailed, Accepted, RepoCreateSite, RepoUntouched,
         RepoUpdateSiteStatus, RepoSaveOnly, repoVars
  <2>2. \A g \in Handlers : req'[g].pc = "send" => req'[g] = req[g]
    <3>1. ASSUME NEW s \in Sites, NEW d \in Domains, CreateSite(h, s, d)
          PROVE  \A g \in Handlers : req'[g].pc = "send" => req'[g] = req[g]
      BY <3>1 DEF CreateSite, TypeOK
    <3>2. ASSUME NEW s \in Sites, DeleteSite(h, s)
          PROVE  \A g \in Handlers : req'[g].pc = "send" => req'[g] = req[g]
      BY <3>2 DEF DeleteSite, TypeOK
    <3>3. CASE Respond(h)
      BY <3>3 DEF Respond, IdleRequest, TypeOK
    <3>4. ASSUME NEW pc \in ReqPC \ {"send"}, GoTo(h, pc)
          PROVE  \A g \in Handlers : req'[g].pc = "send" => req'[g] = req[g]
      BY <3>4 DEF GoTo, TypeOK, Request
    <3>5. CASE \/ EnqueueCancel(h) \/ SetDeleting(h) \/ EnqueueCheck(h)
               \/ EnqueueFailed(h) \/ Accepted(h)
      BY <3>3, <3>4, <3>5 DEF EnqueueCancel, SetDeleting, EnqueueCheck,
           EnqueueFailed, Accepted, ReqPC
    <3> QED BY <1>2, <3>1, <3>2, <3>5
  <2> QED BY <1>1, <2>1, <2>2
<1>3. CASE Signal \/ StopJobs \/ CloseRepo
  BY <1>1, <1>3 DEF Signal, StopJobs, CloseRepo, RepoUntouched, RepoSaveOnly,
       repoVars
<1>4. CASE WorkerStep
  <2>1. jobs' = jobs /\ queue' = queue /\ req' = req
    BY <1>4 DEF WorkerStep, WorkerExit, WorkerLoadSite, ProvisionWrite,
         ProvisionReload, ProvisionSetActive, DeprovisionRemove,
         DeprovisionReload, DeprovisionDeleteSite, WorkerSiteFailed,
         RepoUntouched, RepoUpdateSiteStatus, RepoDeleteSite, repoVars
  <2>2. \A pc : WGoTo(pc) => worker'.pc = pc /\ worker'.job = worker.job
    BY DEF WGoTo, TypeOK, Worker
  <2>3. \A ok : Finish(ok) => worker'.pc = "finish" /\ worker'.job = worker.job
    BY DEF Finish, TypeOK, Worker
  <2>4. CASE WorkerExit
    BY <1>1, <2>1, <2>2, <2>4 DEF WorkerExit
  <2>5. ASSUME worker.pc \notin {"idle", "exited", "start"},
               worker'.pc # "start", worker'.job = worker.job
        PROVE  QuietStep
    BY <1>1, <2>1, <2>5
  <2>6. CASE ProvisionWrite
    <3>1. worker'.pc \in {"reload", "siteFailed"} /\ worker'.job = worker.job
      BY <2>2, <2>6 DEF ProvisionWrite, TypeOK, Worker
    <3> QED BY <2>5, <2>6, <3>1 DEF ProvisionWrite
  <2>7. CASE \/ WorkerLoadSite \/ ProvisionReload \/ ProvisionSetActive
             \/ DeprovisionRemove \/ DeprovisionReload
             \/ DeprovisionDeleteSite \/ WorkerSiteFailed
    <3>1. worker'.pc # "start" /\ worker'.job = worker.job
      <4>1. WGoTo("write") \/ WGoTo("remove") \/ WGoTo("setActive")
              \/ WGoTo("siteFailed") \/ WGoTo("reloadGone") \/ WGoTo("deleteSite")
              \/ \E ok \in BOOLEAN : Finish(ok)
        <5>1. CASE WorkerLoadSite
          BY <5>1 DEF WorkerLoadSite
        <5>2. CASE ProvisionReload \/ DeprovisionRemove \/ DeprovisionReload
          BY <5>2 DEF ProvisionReload, DeprovisionRemove, DeprovisionReload
        <5>3. CASE ProvisionSetActive \/ DeprovisionDeleteSite \/ WorkerSiteFailed
          BY <5>3 DEF ProvisionSetActive, DeprovisionDeleteSite, WorkerSiteFailed
        <5> QED BY <2>7, <5>1, <5>2, <5>3
      <4> QED BY <2>2, <2>3, <4>1
    <3>2. worker.pc \notin {"idle", "exited", "start"}
      BY <2>7 DEF WorkerLoadSite, ProvisionReload, ProvisionSetActive,
           DeprovisionRemove, DeprovisionReload, DeprovisionDeleteSite,
           WorkerSiteFailed
    <3> QED BY <2>5, <3>1, <3>2
  <2> QED BY <1>4, <2>4, <2>6, <2>7 DEF WorkerStep
<1> QED BY <1>2, <1>3, <1>4 DEF Next, HandlerStep

-----------------------------------------------------------------------------
(* The theorems.                                                             *)

\* JobInv, with SiteInv, is an inductive invariant of the core.
THEOREM JobInvariance == Spec => []JobInv
<1>1. Init => JobPart
  BY DEF Init, JobPart, WorkerJobStatus, SendSound, QueueSound, IdleRequest,
         IdleWorker
<1>2. ASSUME SiteInv, SiteInv', JobPart, [Next]_vars
      PROVE  JobPart'
  <2>1. CASE UNCHANGED vars
    BY <1>2, <2>1 DEF vars, JobPart, WorkerJobStatus, SendSound, QueueSound
  <2>2. CASE Restart
    BY <2>2 DEF Restart, JobPart, WorkerJobStatus, SendSound, QueueSound,
         IdleRequest, IdleWorker
  <2>3. CASE \E h \in Handlers : EnqueueSend(h) \/ \E j \in Jobs : EnqueueCreateJob(h, j)
    BY <1>2, <2>3, SendKeeps, CreateJobKeeps DEF SiteInv
  <2>4. CASE WorkerTake \/ WorkerStart \/ WorkerFinish
    BY <1>2, <2>4, TakeKeeps, WorkKeeps DEF SiteInv
  <2>5. ASSUME Next, ~Restart, ~WorkerTake, ~WorkerStart, ~WorkerFinish,
               \A h \in Handlers :
                 ~EnqueueSend(h) /\ \A j \in Jobs : ~EnqueueCreateJob(h, j)
        PROVE  JobPart'
    BY <1>2, <2>5, OtherQuiet, QuietKeeps DEF SiteInv
  <2> QED BY <1>2, <2>1, <2>2, <2>3, <2>4, <2>5
<1>3. SiteInv /\ JobPart => JobInv
  BY DEF SiteInv, JobPart, JobInv
<1> QED BY <1>1, <1>2, <1>3, SiteInvariance, PTL DEF Spec

\* Write-ahead of the queue: Enqueue stores a job before it sends the id, so
\* every id in the channel is in the state file as queued, is in the channel
\* once and not in the worker's hands.
THEOREM QueueIsSound == Spec => []QueueSound
BY JobInvariance, PTL DEF JobInv

\* While the process lives a job goes from queued to running to success or
\* failed and no other way: handleJob is the only one to move it.
THEOREM JobsOnlyAdvance == Spec => JobsAdvance
<1>1. ASSUME SiteInv, JobInv, [Next]_vars
      PROVE  [restarts' = restarts =>
                \A j \in Jobs :
                  \/ jobs'[j] = jobs[j]
                  \/ <<jobs[j], jobs'[j]>> \in
                       {<<"absent", "queued">>, <<"queued", "running">>,
                        <<"running", "success">>, <<"running", "failed">>}]_vars
  <2> SUFFICES ASSUME Next, restarts' = restarts, NEW j \in Jobs,
                      jobs'[j] # jobs[j]
               PROVE  <<jobs[j], jobs'[j]>> \in
                       {<<"absent", "queued">>, <<"queued", "running">>,
                        <<"running", "success">>, <<"running", "failed">>}
    BY <1>1
  <2>1. ~Restart
    BY <1>1, ConstantsAssumption DEF Restart, SiteInv, TypeOK
  <2>2. JobEffect
    BY <2>1, StepJobs
  <2>3. ASSUME NEW h \in Handlers, NEW k \in Jobs, NewJob(h, k)
        PROVE  jobs[j] = "absent" /\ jobs'[j] = "queued"
    BY <1>1, <2>3 DEF NewJob, SiteInv, TypeOK, IssuedOK
  <2>4. CASE MovesJob
    <3>1. worker.pc \in {"start", "finish"} /\ worker.job \in Jobs /\ j = worker.job
      BY <1>1, <2>4, JobIds DEF MovesJob, SiteInv, TypeOK
    <3>2. IF worker.pc = "start" THEN jobs[j] = "queued" ELSE jobs[j] = "running"
      BY <1>1, <3>1 DEF JobInv, WorkerJobStatus
    <3>3. IF worker.pc = "start" THEN jobs'[j] = "running"
          ELSE jobs'[j] \in {"success", "failed"}
      BY <1>1, <2>4, <3>1 DEF MovesJob, SiteInv, TypeOK
    <3> QED BY <3>1, <3>2, <3>3
  <2> QED BY <2>2, <2>3, <2>4 DEF JobEffect, SameJobs
<1> QED BY <1>1, SiteInvariance, JobInvariance, PTL DEF Spec, JobsAdvance

\* The Nginx configuration changes only while a job is recorded as running in
\* the state file: handleJob saves that status before it calls the
\* provisioner, and gives up when the save fails.
THEOREM EffectsAreRecorded == Spec => EffectsRecorded
<1>1. ASSUME SiteInv, JobInv, [Next]_vars
      PROVE  [conf' # conf =>
                worker.job # None /\ disk.jobs[worker.job] = "running"]_vars
  <2> SUFFICES ASSUME Next, conf' # conf
               PROVE  worker.job # None /\ disk.jobs[worker.job] = "running"
    BY <1>1
  <2>1. ProvisionWrite \/ ProvisionReload \/ DeprovisionRemove
    BY DEF Next, HandlerStep, WorkerStep, CreateSite, DeleteSite, EnqueueCancel,
         SetDeleting, EnqueueCheck, EnqueueCreateJob, EnqueueSend,
         EnqueueFailed, Accepted, WorkerTake, WorkerExit, WorkerStart,
         WorkerLoadSite, ProvisionSetActive, DeprovisionReload,
         DeprovisionDeleteSite, WorkerSiteFailed, WorkerFinish, Signal,
         StopJobs, CloseRepo, Restart
  <2>2. worker.pc \in {"write", "reload", "remove"}
    BY <2>1 DEF ProvisionWrite, ProvisionReload, DeprovisionRemove
  <2> QED BY <1>1, <2>2 DEF JobInv, TypeOK, WorkerJobStatus
<1> QED BY <1>1, SiteInvariance, JobInvariance, PTL DEF Spec, EffectsRecorded
-----------------------------------------------------------------------------
(* Active sites are served.                                                  *)

\* A deprovision job for the site is on record that has run at least in part.
Excused(js, s) ==
  \E j \in Jobs : /\ jobType[j] = "deprovision_site"
                  /\ jobSite[j] = s
                  /\ js[j] \in {"running", "failed"}

\* ActiveServed for the records of memory or of the state file, with what the
\* worker relies on there: a rollback to nothing takes the conf file from no site that
\* counts as served, and a deprovision job succeeds only when its site is gone.
ServedBy(ss, js) ==
  /\ \A s \in Sites :
       ss[s] = "active" => conf[siteDomain[s]] = s \/ Excused(js, s)
  /\ (worker.pc = "reload" /\ worker.prev = None /\ ss[TheSite] = "active")
       => Excused(js, TheSite)
  /\ (/\ worker.pc = "finish" /\ worker.ok
      /\ jobType[worker.job] = "deprovision_site") => ss[TheSite] = "absent"

ServeInv ==
  /\ ServedBy(sites, jobs)
  /\ ServedBy(disk.sites, disk.jobs)
  /\ worker.pc \in {"reload", "setActive"} => conf[TheDomain] = TheSite
  /\ worker.pc = "remove" => jobType[worker.job] = "deprovision_site"

\* What was issued keeps its fields, the worker's job and its site included.
LEMMA IdsStay ==
  ASSUME SiteInv, Next, ~Restart
  PROVE  /\ \A k \in Jobs : jobType[k] # None =>
              jobType'[k] = jobType[k] /\ jobSite'[k] = jobSite[k]
         /\ \A s \in Sites : siteDomain[s] # None => siteDomain'[s] = siteDomain[s]
         /\ worker.job # None =>
              /\ worker.job \in Jobs /\ jobType[worker.job] # None
              /\ TheSite \in Sites /\ TheDomain \in Domains
              /\ siteDomain[TheSite] # None
<1> USE ConstantsAssumption DEF SiteInv
<1>1. SiteEffect /\ JobEffect
  BY StepEffect, StepJobs
<1>2. \A k \in Jobs : jobType[k] # None =>
        jobType'[k] = jobType[k] /\ jobSite'[k] = jobSite[k]
  BY <1>1 DEF JobEffect, SameJobs, NewJob, MovesJob, TypeOK
<1>3. \A s \in Sites : siteDomain[s] # None => siteDomain'[s] = siteDomain[s]
  BY <1>1 DEF SiteEffect, SameSites, AddsSite, DropsSite, TypeOK
<1>4. worker.job # None => worker.job \in Jobs /\ jobType[worker.job] # None
  BY DEF TypeOK, Worker, IssuedOK
<1>5. worker.job # None => TheSite \in Sites /\ TheDomain \in Domains
                           /\ siteDomain[TheSite] # None
  BY <1>4 DEF IssuedOK, TypeOK, TheSite, TheDomain
<1> QED BY <1>2, <1>3, <1>4, <1>5

\* The worker's job and its site are the same after a step that keeps the job.
LEMMA TheSiteStays ==
  ASSUME SiteInv, Next, ~Restart, worker.job # None, worker'.job = worker.job
  PROVE  /\ TheSite' = TheSite /\ TheDomain' = TheDomain
         /\ jobType'[worker'.job] = jobType[worker.job]
BY IdsStay DEF TheSite, TheDomain

\* A deprovision job that has run in part stays on record as such, unless it
\* succeeds.
LEMMA ExcuseStays ==
  ASSUME SiteInv, JobPart, TypeOK', Next, ~Restart, NEW s \in Sites,
         Excused(jobs, s)
  PROVE  \/ Excused(jobs, s)'
         \/ /\ WorkerFinish /\ worker.ok
            /\ jobType[worker.job] = "deprovision_site" /\ TheSite = s
<1> USE ConstantsAssumption, IdsStay DEF SiteInv, JobPart
<1>1. PICK k \in Jobs : /\ jobType[k] = "deprovision_site" /\ jobSite[k] = s
                        /\ jobs[k] \in {"running", "failed"}
  BY DEF Excused
<1>2. jobType'[k] = "deprovision_site" /\ jobSite'[k] = s
  BY <1>1 DEF JobTypes
<1>3. CASE jobs'[k] \in {"running", "failed"}
  BY <1>2, <1>3 DEF Excused
<1>4. CASE \E h \in Handlers : EnqueueSend(h) \/ \E j \in Jobs : EnqueueCreateJob(h, j)
  <2>1. ASSUME NEW h \in Handlers, NEW j \in Jobs, EnqueueCreateJob(h, j)
        PROVE  jobs'[k] = jobs[k]
    BY <1>1, <2>1 DEF EnqueueCreateJob, RepoCreateJob, IssuedOK, TypeOK
  <2>2. ASSUME NEW h \in Handlers, EnqueueSend(h)
        PROVE  jobs'[k] = jobs[k]
    BY <2>2 DEF EnqueueSend, RepoUntouched, repoVars
  <2> QED BY <1>1, <1>3, <1>4, <2>1, <2>2
<1>5. CASE WorkerTake
  BY <1>1, <1>3, <1>5 DEF WorkerTake, RepoUntouched, repoVars
<1>6. CASE WorkerStart
  BY <1>1, <1>3, <1>6 DEF WorkerStart, RepoUpdateJob, TypeOK
<1>7. CASE WorkerFinish
  <2>1. CASE k = worker.job
    <3>1. ~worker.ok => jobs'[k] = "failed"
      BY <1>7, <2>1 DEF WorkerFinish, RepoUpdateJob, TypeOK
    <3> QED BY <1>1, <1>3, <1>7, <2>1, <3>1 DEF TheSite
  <2>2. CASE k # worker.job
    BY <1>1, <1>3, <1>7, <2>2 DEF WorkerFinish, RepoUpdateJob, TypeOK
  <2> QED BY <2>1, <2>2
<1>8. CASE /\ ~WorkerTake /\ ~WorkerStart /\ ~WorkerFinish
           /\ \A h \in Handlers :
                ~EnqueueSend(h) /\ \A j \in Jobs : ~EnqueueCreateJob(h, j)
  BY <1>1, <1>3, <1>8, OtherQuiet DEF QuietStep
<1> QED BY <1>4, <1>5, <1>6, <1>7, <1>8

\* So it does in the state file as long as that is not rewritten.
LEMMA DiskExcuseStays ==
  ASSUME SiteInv, Next, ~Restart, disk' = disk, NEW s \in Sites,
         Excused(disk.jobs, s)
  PROVE  Excused(disk.jobs, s)'
<1>1. PICK k \in Jobs : /\ jobType[k] = "deprovision_site" /\ jobSite[k] = s
                        /\ disk.jobs[k] \in {"running", "failed"}
  BY DEF Excused
<1>2. jobType[k] # None
  BY <1>1, ConstantsAssumption DEF JobTypes
<1> QED BY <1>1, <1>2, IdsStay DEF Excused

\* Only the worker makes a site active, at the end of ProvisionSite.
LEMMA ActiveStays ==
  ASSUME SiteInv, Next, ~Restart, NEW s \in Sites, sites'[s] = "active"
  PROVE  sites[s] = "active" \/ (worker.pc = "setActive" /\ s = TheSite)
<1> USE DEF SiteInv, TypeOK
<1>1. ASSUME NEW t, NEW st, NEW ok \in BOOLEAN, RepoUpdateSiteStatus(t, st, ok),
             st # "active"
      PROVE  sites[s] = "active"
  BY <1>1 DEF RepoUpdateSiteStatus
<1>2. CASE UNCHANGED sites
  BY <1>2
<1>3. ASSUME NEW h \in Handlers,
             \/ \E r \in Sites, d \in Domains : CreateSite(h, r, d)
             \/ SetDeleting(h) \/ EnqueueFailed(h)
      PROVE  sites[s] = "active"
  <2>1. ASSUME NEW r \in Sites, NEW d \in Domains, CreateSite(h, r, d)
        PROVE  sites[s] = "active"
    BY <2>1 DEF CreateSite, RepoCreateSite
  <2>2. CASE SetDeleting(h) \/ EnqueueFailed(h)
    BY <1>1, <1>2, <2>2
    DEF SetDeleting, EnqueueFailed, RepoUntouched, repoVars
  <2> QED BY <1>3, <2>1, <2>2
<1>4. CASE WorkerSiteFailed \/ DeprovisionDeleteSite
  <2>1. CASE WorkerSiteFailed
    BY <1>1, <1>2, <2>1 DEF WorkerSiteFailed, RepoUntouched, repoVars
  <2>2. CASE DeprovisionDeleteSite
    BY <1>2, <2>2 DEF DeprovisionDeleteSite, RepoDeleteSite, RepoUntouched, repoVars
  <2> QED BY <1>4, <2>1, <2>2
<1>5. CASE ProvisionSetActive
  BY <1>5 DEF ProvisionSetActive, RepoUpdateSiteStatus, RepoUntouched, repoVars
<1>6. ASSUME NEW h \in Handlers,
             \/ \E r \in Sites : DeleteSite(h, r)
             \/ EnqueueCancel(h) \/ EnqueueCheck(h) \/ EnqueueSend(h)
             \/ Accepted(h) \/ \E j \in Jobs : EnqueueCreateJob(h, j)
      PROVE  sites[s] = "active"
  BY <1>2, <1>6 DEF DeleteSite, EnqueueCancel, EnqueueCheck, EnqueueSend, Accepted,
       EnqueueCreateJob, RepoCreateJob, RepoUntouched, RepoSaveOnly, repoVars
<1>7. CASE \/ WorkerTake \/ WorkerExit \/ WorkerStart \/ WorkerLoadSite
           \/ ProvisionWrite \/ ProvisionReload \/ DeprovisionRemove
           \/ DeprovisionReload \/ WorkerFinish
           \/ Signal \/ StopJobs \/ CloseRepo
  BY <1>2, <1>7 DEF WorkerTake, WorkerExit, WorkerStart, WorkerLoadSite,
       ProvisionWrite, ProvisionReload, DeprovisionRemove, DeprovisionReload,
       WorkerFinish, Signal, StopJobs, CloseRepo, RepoUpdateJob, RepoUntouched,
       RepoSaveOnly, repoVars
<1> QED BY <1>3, <1>4, <1>5, <1>6, <1>7 DEF Next, HandlerStep, WorkerStep
\* The steps that leave the conf files alone: the worker stays where it is, or
\* it gets neither to the commands of ProvisionSite nor past them, and a
\* deprovision job, which alone comes to remove files, ends well only with its
\* site gone and saved.
ConfUntouched ==
  /\ conf' = conf
  /\ \/ worker' = worker
     \/ /\ worker'.pc \notin {"reload", "setActive"}
        /\ worker'.pc = "remove" =>
             /\ worker.job # None /\ worker'.job = worker.job
             /\ jobType[worker.job] = "deprovision_site"
        /\ (worker'.pc = "finish" /\ worker'.ok) =>
             /\ worker.job # None /\ worker'.job = worker.job
             /\ \/ jobType[worker.job] # "deprovision_site"
                \/ sites'[TheSite] = "absent" /\ disk'.sites[TheSite] = "absent"

\* Every step of a request, of the worker and of the process but the three that
\* write conf files is of that kind.
LEMMA StepConf ==
  ASSUME SiteInv, Next, ~Restart,
         ~ProvisionWrite, ~ProvisionReload, ~DeprovisionRemove
  PROVE  ConfUntouched
<1> USE DEF SiteInv, ConfUntouched
<1>1. \A pc : WGoTo(pc) => worker'.pc = pc /\ worker'.job = worker.job
  BY DEF WGoTo, TypeOK, Worker
<1>2. \A ok : Finish(ok) =>
        worker'.pc = "finish" /\ worker'.ok = ok /\ worker'.job = worker.job
  BY DEF Finish, TypeOK, Worker
<1>3. CASE conf' = conf /\ worker' = worker
  BY <1>3
<1>4. CASE /\ conf' = conf
           /\ worker'.pc \notin {"reload", "setActive", "remove", "finish"}
  BY <1>4
<1>5. CASE conf' = conf /\ Finish(FALSE)
  BY <1>2, <1>5
<1>6. CASE WorkerTake
  BY <1>3, <1>4, <1>6 DEF WorkerTake, TypeOK, Worker
<1>7. CASE WorkerExit \/ DeprovisionReload
  BY <1>1, <1>4, <1>7 DEF WorkerExit, DeprovisionReload
<1>8. CASE WorkerStart
  BY <1>4, <1>8 DEF WorkerStart, IdleWorker, TypeOK, Worker
<1>9. CASE WorkerLoadSite
  <2>1. worker.job # None /\ conf' = conf
    BY <1>9 DEF WorkerLoadSite, TypeOK
  <2>2. jobType[worker.job] \in JobTypes
    BY <2>1, IdsStay DEF TypeOK
  <2>3. \/ Finish(FALSE) \/ WGoTo("write")
        \/ WGoTo("remove") /\ jobType[worker.job] = "deprovision_site"
    BY <1>9, <2>2 DEF WorkerLoadSite, JobTypes
  <2>4. CASE WGoTo("remove") /\ jobType[worker.job] = "deprovision_site"
    BY <1>1, <2>1, <2>4
  <2>5. CASE WGoTo("write")
    BY <1>1, <1>4, <2>1, <2>5
  <2> QED BY <1>5, <2>1, <2>3, <2>4, <2>5
<1>10. CASE ProvisionSetActive
  <2>1. jobType[worker.job] = "provision_site" /\ worker.job # None
    BY <1>10 DEF ProvisionSetActive, WorkerSound, TypeOK
  <2>2. PICK ok \in BOOLEAN : Finish(ok)
    BY <1>10 DEF ProvisionSetActive
  <2> QED BY <1>2, <1>10, <2>1, <2>2 DEF ProvisionSetActive
<1>11. CASE DeprovisionDeleteSite
  <2>1. worker.job # None /\ conf' = conf
    BY <1>11 DEF DeprovisionDeleteSite, TypeOK
  <2>2. CASE Finish(FALSE)
    BY <1>5, <2>1, <2>2
  <2>3. ASSUME NEW ok \in BOOLEAN, RepoDeleteSite(TheSite, ok), Finish(ok), ok
        PROVE  ConfUntouched
    <3>1. sites'[TheSite] = "absent" /\ disk'.sites[TheSite] = "absent"
      BY <2>1, <2>3, IdsStay DEF RepoDeleteSite, Save, TypeOK
    <3> QED BY <1>2, <2>1, <2>3, <3>1
  <2> QED BY <1>11, <2>2, <2>3 DEF DeprovisionDeleteSite
<1>12. CASE WorkerSiteFailed
  BY <1>5, <1>12 DEF WorkerSiteFailed
<1>13. CASE WorkerFinish
  BY <1>4, <1>13 DEF WorkerFinish, IdleWorker
<1>14. CASE ~WorkerStep
  BY <1>3, <1>14 DEF Next, Signal, StopJobs, CloseRepo, CreateSite, DeleteSite,
       EnqueueCancel, HandlerStep, SetDeleting, EnqueueCheck, EnqueueCreateJob,
       EnqueueSend, EnqueueFailed, Accepted
<1> QED BY <1>6, <1>7, <1>8, <1>9, <1>10, <1>11, <1>12, <1>13, <1>14
        DEF WorkerStep

\* A site that is gone stays gone: ids are not issued twice.
LEMMA GoneStays ==
  ASSUME SiteInv, Next, ~Restart, NEW s \in Sites, siteDomain[s] # None,
         sites[s] = "absent"
  PROVE  sites'[s] = "absent"
BY StepEffect DEF SiteInv, SiteEffect, SameSites, AddsSite, DropsSite, TypeOK

\* What holds of memory holds of the state file that was just written.
LEMMA SavedServed ==
  ASSUME disk' = [sites |-> sites', jobs |-> jobs'], ServedBy(sites, jobs)'
  PROVE  ServedBy(disk.sites, disk.jobs)'
BY DEF ServedBy, Excused

\* Active sites stay served through the steps that leave the conf files alone.
LEMMA UntouchedServes ==
  ASSUME SiteInv, JobPart, ServeInv, TypeOK', Next, ~Restart, ConfUntouched
  PROVE  ServeInv'
<1> USE ConstantsAssumption DEF SiteInv
<1>0. /\ conf' = conf
      /\ worker.pc \notin {"idle", "exited"} => worker.job # None
      /\ worker'.pc \in {"reload", "setActive"} => worker' = worker
  BY DEF ConfUntouched, TypeOK
<1>1. \A s \in Sites : (sites[s] # "absent" \/ disk.sites[s] # "absent") =>
        siteDomain'[s] = siteDomain[s]
  BY IdsStay DEF IssuedOK
<1>2. ServedBy(sites, jobs)'
  <2>1. ASSUME NEW s \in Sites, sites'[s] = "active"
        PROVE  conf'[siteDomain'[s]] = s \/ Excused(jobs, s)'
    <3>1. CASE worker.pc = "setActive" /\ s = TheSite
      <4>1. conf[siteDomain[s]] = s /\ siteDomain'[s] = siteDomain[s]
        BY <1>0, <3>1, IdsStay DEF ServeInv, TheDomain
      <4> QED BY <1>0, <4>1
    <3>2. CASE sites[s] = "active"
      <4>1. siteDomain'[s] = siteDomain[s]
        BY <1>1, <3>2
      <4>2. CASE conf[siteDomain[s]] = s
        BY <1>0, <4>1, <4>2
      <4>3. CASE Excused(jobs, s)
        <5>1. ~(/\ WorkerFinish /\ worker.ok
                /\ jobType[worker.job] = "deprovision_site" /\ TheSite = s)
          BY <3>2 DEF ServeInv, ServedBy, WorkerFinish
        <5> QED BY <4>3, <5>1, ExcuseStays
      <4> QED BY <3>2, <4>2, <4>3 DEF ServeInv, ServedBy
    <3> QED BY <2>1, <3>1, <3>2, ActiveStays
  <2>2. ASSUME worker'.pc = "reload", worker'.prev = None, sites'[TheSite'] = "active"
        PROVE  Excused(jobs, TheSite)'
    <3>1. worker' = worker /\ worker.pc = "reload" /\ worker.prev = None
      BY <1>0, <2>2
    <3>2. TheSite' = TheSite /\ TheSite \in Sites
      BY <1>0, <3>1, TheSiteStays, IdsStay
    <3>3. sites[TheSite] = "active"
      BY <2>2, <3>1, <3>2, ActiveStays
    <3>4. Excused(jobs, TheSite) /\ ~WorkerFinish
      BY <3>1, <3>3 DEF ServeInv, ServedBy, WorkerFinish
    <3>5. \E k \in Jobs : /\ jobType'[k] = "deprovision_site"
                          /\ jobSite'[k] = TheSite
                          /\ jobs'[k] \in {"running", "failed"}
      BY <3>2, <3>4, ExcuseStays DEF Excused
    <3> QED BY <3>2, <3>5 DEF Excused
  <2>3. ASSUME worker'.pc = "finish", worker'.ok,
               jobType'[worker'.job] = "deprovision_site"
        PROVE  sites'[TheSite'] = "absent"
    <3>1. worker.job # None /\ worker'.job = worker.job
      BY <1>0, <2>3 DEF ConfUntouched
    <3>2. /\ TheSite' = TheSite /\ TheSite \in Sites /\ siteDomain[TheSite] # None
          /\ jobType[worker.job] = "deprovision_site"
      BY <2>3, <3>1, TheSiteStays, IdsStay
    <3>3. sites[TheSite] = "absent" \/ sites'[TheSite] = "absent"
      BY <2>3, <3>2 DEF ConfUntouched, ServeInv, ServedBy
    <3> QED BY <3>2, <3>3, GoneStays
  <2> QED BY <2>1, <2>2, <2>3 DEF ServedBy
<1>3. ServedBy(disk.sites, disk.jobs)'
  <2>1. CASE disk' = [sites |-> sites', jobs |-> jobs']
    BY <1>2, <2>1, SavedServed
  <2>2. CASE disk' = disk
    <3>1. ASSUME NEW s \in Sites, disk'.sites[s] = "active"
          PROVE  conf'[siteDomain'[s]] = s \/ Excused(disk.jobs, s)'
      <4>1. conf[siteDomain[s]] = s \/ Excused(disk.jobs, s)
        BY <2>2, <3>1 DEF ServeInv, ServedBy
      <4>2. siteDomain'[s] = siteDomain[s]
        BY <1>1, <2>2, <3>1
      <4> QED BY <1>0, <2>2, <4>1, <4>2, DiskExcuseStays
    <3>2. ASSUME worker'.pc = "reload", worker'.prev = None,
                 disk'.sites[TheSite'] = "active"
          PROVE  Excused(disk.jobs, TheSite)'
      <4>1. worker' = worker /\ worker.pc = "reload" /\ worker.prev = None
        BY <1>0, <3>2
      <4>2. TheSite' = TheSite /\ TheSite \in Sites
        BY <1>0, <4>1, TheSiteStays, IdsStay
      <4>3. Excused(disk.jobs, TheSite)
        BY <2>2, <3>2, <4>1, <4>2 DEF ServeInv, ServedBy
      <4>4. \E k \in Jobs : /\ jobType'[k] = "deprovision_site"
                            /\ jobSite'[k] = TheSite
                            /\ disk'.jobs[k] \in {"running", "failed"}
        BY <2>2, <4>2, <4>3, DiskExcuseStays DEF Excused
      <4> QED BY <4>2, <4>4 DEF Excused
    <3>3. ASSUME worker'.pc = "finish", worker'.ok,
                 jobType'[worker'.job] = "deprovision_site"
          PROVE  disk'.sites[TheSite'] = "absent"
      <4>1. worker.job # None /\ worker'.job = worker.job
        BY <1>0, <3>3 DEF ConfUntouched
      <4>2. TheSite' = TheSite /\ jobType[worker.job] = "deprovision_site"
        BY <3>3, <4>1, TheSiteStays
      <4> QED BY <2>2, <3>3, <4>2 DEF ConfUntouched, ServeInv, ServedBy
    <3> QED BY <3>1, <3>2, <3>3 DEF ServedBy
  <2> QED BY <2>1, <2>2, StepEffect DEF SiteEffect, DiskStep
<1>4. ASSUME worker'.pc \in {"reload", "setActive"}
      PROVE  conf'[TheDomain'] = TheSite'
  <2>1. worker' = worker /\ worker.job # None
    BY <1>0, <1>4
  <2> QED BY <1>0, <1>4, <2>1, TheSiteStays DEF ServeInv
<1>5. ASSUME worker'.pc = "remove"
      PROVE  jobType'[worker'.job] = "deprovision_site"
  BY <1>0, <1>5, TheSiteStays DEF ConfUntouched, ServeInv
<1> QED BY <1>2, <1>3, <1>4, <1>5 DEF ServeInv
\* The conf file at the worker's domain is its site's or nobody's.
LEMMA OwnConf ==
  ASSUME SiteInv, worker.job # None, sites[TheSite] # "absent"
  PROVE  /\ worker.job \in Jobs /\ TheSite \in Sites /\ TheDomain \in Domains
         /\ conf[TheDomain] \in {None, TheSite}
<1> USE ConstantsAssumption DEF SiteInv
<1>1. worker.job \in Jobs /\ jobType[worker.job] # None
  BY DEF TypeOK, Worker, IssuedOK
<1>2. TheSite \in Sites /\ TheDomain \in Domains
  BY <1>1 DEF IssuedOK, TypeOK, TheSite, TheDomain
<1>3. ASSUME conf[TheDomain] # None PROVE conf[TheDomain] = TheSite
  <2>1. conf[TheDomain] \in Sites
    BY <1>2, <1>3 DEF TypeOK
  <2>2. domainIndex[TheDomain] = conf[TheDomain]
    BY <1>2, <1>3, <2>1 DEF NoOrphanConf, IndexSound
  <2>3. domainIndex[TheDomain] = TheSite
    BY <1>2 DEF IndexSound, TheDomain
  <2> QED BY <2>2, <2>3
<1> QED BY <1>1, <1>2, <1>3

\* A step of the provisioner that changes the conf file of the worker's site
\* keeps the served sites served, if that site keeps its conf file or has a
\* deprovision job on record that began, in memory and in the state file.
LEMMA ConfServes ==
  ASSUME SiteInv, ServeInv, worker.job # None, sites[TheSite] # "absent",
         RepoUntouched, worker'.job = worker.job,
         \/ conf' = [conf EXCEPT ![TheDomain] = TheSite]
         \/ /\ conf' = [conf EXCEPT ![TheDomain] = None]
            /\ sites[TheSite] = "active" => Excused(jobs, TheSite)
            /\ disk.sites[TheSite] = "active" => Excused(disk.jobs, TheSite)
         \/ conf' = conf,
         worker'.pc # "finish",
         worker'.pc = "reload" => worker'.prev = conf[TheDomain],
         worker'.pc \in {"reload", "setActive"} => conf'[TheDomain] = TheSite,
         worker'.pc # "remove"
  PROVE  ServeInv'
<1> USE ConstantsAssumption, OwnConf DEF SiteInv
<1>1. /\ sites' = sites /\ jobs' = jobs /\ disk' = disk /\ siteDomain' = siteDomain
      /\ jobType' = jobType /\ jobSite' = jobSite
  BY DEF RepoUntouched, repoVars
<1>2. TheSite' = TheSite /\ TheDomain' = TheDomain
  BY <1>1 DEF TheSite, TheDomain
<1>3. \A s \in Sites : /\ Excused(jobs, s)' <=> Excused(jobs, s)
                       /\ Excused(disk.jobs, s)' <=> Excused(disk.jobs, s)
  BY <1>1 DEF Excused
<1>4. ASSUME NEW s \in Sites, conf[siteDomain[s]] = s,
             sites[s] # "absent" \/ disk.sites[s] # "absent"
      PROVE  \/ conf'[siteDomain[s]] = s
             \/ /\ s = TheSite
                /\ sites[s] = "active" => Excused(jobs, s)
                /\ disk.sites[s] = "active" => Excused(disk.jobs, s)
  <2>1. siteDomain[s] \in Domains
    BY <1>4 DEF IssuedOK, TypeOK
  <2>2. siteDomain[s] = TheDomain => s = TheSite
    BY <1>4
  <2>3. CASE conf' = [conf EXCEPT ![TheDomain] = TheSite] \/ conf' = conf
    BY <1>4, <2>1, <2>2, <2>3 DEF TypeOK
  <2>4. CASE /\ conf' = [conf EXCEPT ![TheDomain] = None]
             /\ sites[TheSite] = "active" => Excused(jobs, TheSite)
             /\ disk.sites[TheSite] = "active" => Excused(disk.jobs, TheSite)
    <3>1. CASE siteDomain[s] = TheDomain
      BY <2>2, <2>4, <3>1
    <3>2. CASE siteDomain[s] # TheDomain
      BY <1>4, <2>1, <2>4, <3>2 DEF TypeOK
    <3> QED BY <3>1, <3>2
  <2> QED BY <2>3, <2>4
<1>5. ServedBy(sites, jobs)'
  <2>1. ASSUME NEW s \in Sites, sites[s] = "active"
        PROVE  conf'[siteDomain[s]] = s \/ Excused(jobs, s)
    BY <1>4, <2>1 DEF ServeInv, ServedBy
  <2>2. ASSUME worker'.pc = "reload", worker'.prev = None, sites[TheSite] = "active"
        PROVE  Excused(jobs, TheSite)
    BY <2>2 DEF ServeInv, ServedBy, TheDomain
  <2>3. \A s \in Sites : sites'[s] = "active" =>
          conf'[siteDomain'[s]] = s \/ Excused(jobs, s)'
    BY <1>1, <1>3, <2>1
  <2>4. (worker'.pc = "reload" /\ worker'.prev = None /\ sites'[TheSite'] = "active")
          => Excused(jobs, TheSite)'
    BY <1>1, <1>2, <2>2 DEF Excused
  <2> QED BY <2>3, <2>4 DEF ServedBy
<1>6. ServedBy(disk.sites, disk.jobs)'
  <2>1. ASSUME NEW s \in Sites, disk.sites[s] = "active"
        PROVE  conf'[siteDomain[s]] = s \/ Excused(disk.jobs, s)
    BY <1>4, <2>1 DEF ServeInv, ServedBy
  <2>2. ASSUME worker'.pc = "reload", worker'.prev = None,
               disk.sites[TheSite] = "active"
        PROVE  Excused(disk.jobs, TheSite)
    BY <2>2 DEF ServeInv, ServedBy, TheDomain
  <2>3. \A s \in Sites : disk'.sites[s] = "active" =>
          conf'[siteDomain'[s]] = s \/ Excused(disk.jobs, s)'
    BY <1>1, <1>3, <2>1
  <2>4. (/\ worker'.pc = "reload" /\ worker'.prev = None
         /\ disk'.sites[TheSite'] = "active") => Excused(disk.jobs, TheSite)'
    BY <1>1, <1>2, <2>2 DEF Excused
  <2> QED BY <2>3, <2>4 DEF ServedBy
<1> QED BY <1>2, <1>5, <1>6 DEF ServeInv

\* The three steps of the provisioner that write conf files are of that kind:
\* a rollback to nothing leaves the site as unserved as it was, and a removal
\* is done for a deprovision job that is recorded as running.
LEMMA ProvisionerServes ==
  ASSUME SiteInv, JobPart, ServeInv,
         ProvisionWrite \/ ProvisionReload \/ DeprovisionRemove
  PROVE  ServeInv'
<1> USE DEF SiteInv
<1>1. /\ worker.pc \in {"write", "reload", "remove"}
      /\ worker.job # None /\ sites[TheSite] # "absent" /\ RepoUntouched
  BY DEF ProvisionWrite, ProvisionReload, DeprovisionRemove, WorkerSound, TypeOK
<1>2. /\ worker.job \in Jobs /\ TheSite \in Sites /\ TheDomain \in Domains
      /\ conf \in [Domains -> Sites \cup {None}]
  BY <1>1, OwnConf DEF TypeOK
<1>3. \A pc : WGoTo(pc) => worker'.pc = pc /\ worker'.job = worker.job
  BY DEF WGoTo, TypeOK, Worker
<1>4. CASE WGoTo("siteFailed") /\ conf' = conf
  BY <1>1, <1>3, <1>4, ConfServes
<1>5. CASE ProvisionWrite
  <2>1. CASE /\ conf' = [conf EXCEPT ![TheDomain] = TheSite]
             /\ worker' = [worker EXCEPT !.pc = "reload", !.prev = conf[TheDomain]]
    <3>1. /\ worker'.pc = "reload" /\ worker'.job = worker.job
          /\ worker'.prev = conf[TheDomain]
      BY <2>1 DEF TypeOK, Worker
    <3>2. conf'[TheDomain] = TheSite
      BY <1>2, <2>1
    <3> QED BY <1>1, <2>1, <3>1, <3>2, ConfServes
  <2> QED BY <1>4, <1>5, <2>1 DEF ProvisionWrite
<1>6. CASE ProvisionReload
  <2>1. CASE WGoTo("setActive") /\ conf' = conf
    <3>1. conf[TheDomain] = TheSite
      BY <1>6 DEF ProvisionReload, ServeInv
    <3> QED BY <1>1, <1>3, <2>1, <3>1, ConfServes
  <2>2. CASE WGoTo("siteFailed") /\ conf' = [conf EXCEPT ![TheDomain] = worker.prev]
    <3>1. CASE worker.prev = TheSite
      BY <1>1, <1>3, <2>2, <3>1, ConfServes
    <3>2. CASE worker.prev = None
      <4>1. /\ sites[TheSite] = "active" => Excused(jobs, TheSite)
            /\ disk.sites[TheSite] = "active" => Excused(disk.jobs, TheSite)
        BY <1>6, <3>2 DEF ProvisionReload, ServeInv, ServedBy
      <4> QED BY <1>1, <1>3, <2>2, <3>2, <4>1, ConfServes
    <3> QED BY <1>6, <3>1, <3>2 DEF ProvisionReload, WorkerSound
  <2> QED BY <1>4, <1>6, <2>1, <2>2 DEF ProvisionReload
<1>7. CASE DeprovisionRemove
  <2>1. Excused(jobs, TheSite) /\ Excused(disk.jobs, TheSite)
    <3>1. worker.pc = "remove" /\ jobType[worker.job] = "deprovision_site"
      BY <1>7 DEF DeprovisionRemove, ServeInv
    <3>2. jobs[worker.job] = "running" /\ disk.jobs[worker.job] = "running"
      BY <3>1 DEF JobPart, WorkerJobStatus
    <3> QED BY <1>2, <3>1, <3>2 DEF Excused, TheSite
  <2>2. CASE WGoTo("reloadGone") /\ conf' = [conf EXCEPT ![TheDomain] = None]
    BY <1>1, <1>3, <2>1, <2>2, ConfServes
  <2> QED BY <1>4, <1>7, <2>2 DEF DeprovisionRemove
<1> QED BY <1>5, <1>6, <1>7

\* After a restart memory is what the state file was, and nothing is under way.
LEMMA RestartServes ==
  ASSUME ServeInv, Restart
  PROVE  ServeInv'
BY DEF Restart, ServeInv, ServedBy, Excused, IdleWorker

\* ServeInv is an inductive invariant of the core, given SiteInv and JobInv.
THEOREM ServeInvariance == Spec => []ServeInv
<1>1. Init => ServeInv
  BY DEF Init, ServeInv, ServedBy, IdleWorker
<1>2. ASSUME SiteInv, SiteInv', JobInv, ServeInv, [Next]_vars
      PROVE  ServeInv'
  <2>1. CASE UNCHANGED vars
    BY <1>2, <2>1 DEF vars, ServeInv, ServedBy, Excused, TheSite, TheDomain
  <2>2. CASE Restart
    BY <1>2, <2>2, RestartServes
  <2>3. CASE ProvisionWrite \/ ProvisionReload \/ DeprovisionRemove
    BY <1>2, <2>3, ProvisionerServes DEF JobInv, JobPart
  <2>4. CASE Next /\ ~Restart /\ ~(ProvisionWrite \/ ProvisionReload \/ DeprovisionRemove)
    BY <1>2, <2>4, StepConf, UntouchedServes DEF SiteInv, JobInv, JobPart
  <2> QED BY <1>2, <2>1, <2>2, <2>3, <2>4
<1> QED BY <1>1, <1>2, SiteInvariance, JobInvariance, PTL DEF Spec

\* A site shown as active is served, unless a deprovision job for it is on
\* record that has run at least in part: through failed saves, failed reloads
\* with their rollbacks, and restarts between any two steps of a job.
THEOREM ActiveIsServed == Spec => []ActiveServed
<1>1. ServeInv => ActiveServed
  BY DEF ServeInv, ServedBy, Excused, ActiveServed
<1> QED BY <1>1, ServeInvariance, PTL
-----------------------------------------------------------------------------
(* Sites in a transient status are being worked on.                          *)

Transient == {"provisioning", "deleting"}
Working == {"enqueue", "createJob", "send", "fail"}

ReqWork(s) == \E h \in Handlers : req[h].site = s /\ req[h].pc \in Working
QueueWork(s) == \E i \in 1 .. Len(queue) : jobSite[queue[i]] = s
WorkerWork(s) == worker.job # None /\ TheSite = s /\ worker.pc # "finish"

Unharmed == saveFails = 0 /\ restarts = 0

\* TransientHasWork, with the link that carries the work from a request to the
\* channel: the job a request sends is about the request's site.
WorkInv ==
  /\ \A h \in Handlers : req[h].pc = "send" => jobSite[req[h].job] = req[h].site
  /\ Unharmed => \A s \in Sites : sites[s] \in Transient =>
                   ReqWork(s) \/ QueueWork(s) \/ WorkerWork(s)

\* The jobs in the channel stay about the sites they are about.
LEMMA QueuedSites ==
  ASSUME SiteInv, JobPart, Next, ~Restart
  PROVE  /\ \A i \in 1 .. Len(queue) : jobSite'[queue[i]] = jobSite[queue[i]]
         /\ \A h \in Handlers : req[h].pc = "send" =>
              jobSite'[req[h].job] = jobSite[req[h].job]
<1> USE JobIds, IdsStay DEF SiteInv, JobPart, IssuedOK
<1>1. ASSUME NEW i \in 1 .. Len(queue)
      PROVE  jobSite'[queue[i]] = jobSite[queue[i]]
  BY DEF QueueSound
<1>2. ASSUME NEW h \in Handlers, req[h].pc = "send"
      PROVE  jobSite'[req[h].job] = jobSite[req[h].job]
  BY <1>2 DEF SendSound
<1> QED BY <1>1, <1>2

\* The job a request sends stays the one it created for its site.
LEMMA SendSiteStep ==
  ASSUME SiteInv, JobPart, WorkInv, TypeOK', Next, ~Restart, NEW h \in Handlers,
         req'[h].pc = "send"
  PROVE  jobSite'[req'[h].job] = req'[h].site
<1> USE DEF SiteInv
<1>1. CASE req'[h] = req[h]
  BY <1>1, QueuedSites DEF WorkInv
<1>2. ASSUME NEW g \in Handlers, NEW j \in Jobs, EnqueueCreateJob(g, j)
      PROVE  jobSite'[req'[h].job] = req'[h].site
  <2>1. CASE h = g
    BY <1>2, <2>1 DEF EnqueueCreateJob, RepoCreateJob, TypeOK
  <2>2. CASE h # g
    BY <1>1, <1>2, <2>2 DEF EnqueueCreateJob, TypeOK
  <2> QED BY <2>1, <2>2
<1>3. ASSUME NEW g \in Handlers, EnqueueSend(g)
      PROVE  jobSite'[req'[h].job] = req'[h].site
  BY <1>1, <1>3 DEF EnqueueSend, GoTo, TypeOK, Request
<1>4. CASE WorkerTake \/ WorkerStart \/ WorkerFinish
  BY <1>1, <1>4 DEF WorkerTake, WorkerStart, WorkerFinish
<1>5. CASE /\ ~WorkerTake /\ ~WorkerStart /\ ~WorkerFinish
           /\ \A g \in Handlers :
                ~EnqueueSend(g) /\ \A j \in Jobs : ~EnqueueCreateJob(g, j)
  BY <1>1, <1>5, OtherQuiet DEF QuietStep
<1> QED BY <1>2, <1>3, <1>4, <1>5

\* A save that succeeds or is not made leaves the count of failed ones at 0.
LEMMA SaveSucceeds ==
  ASSUME TypeOK, NEW ok \in BOOLEAN, Save(ok), saveFails' = 0
  PROVE  ok /\ saveFails = 0
BY ConstantsAssumption DEF Save, TypeOK

\* A request that was not working, or goes on working for its site, takes no
\* work from any site.
LEMMA ReqWorkStays ==
  ASSUME NEW h \in Handlers, NEW s, ReqWork(s),
         \A g \in Handlers : g # h => req'[g] = req[g],
         \/ req[h].pc \notin Working
         \/ req'[h].pc \in Working /\ req'[h].site = req[h].site
         \/ req[h].site # s
  PROVE  ReqWork(s)'
BY DEF ReqWork

\* A step of a request leaves every transient site with work.
LEMMA HandlerWork ==
  ASSUME SiteInv, JobPart, WorkInv, TypeOK', ~Restart, Unharmed',
         NEW h \in Handlers,
         \/ \E s \in Sites, d \in Domains : CreateSite(h, s, d)
         \/ \E s \in Sites : DeleteSite(h, s)
         \/ HandlerStep(h)
         \/ EnqueueCancel(h),
         NEW s \in Sites, sites'[s] \in Transient
  PROVE  ReqWork(s)' \/ QueueWork(s)' \/ WorkerWork(s)'
<1> USE DEF SiteInv
<1>0. Next /\ worker' = worker /\ restarts' = restarts
  BY DEF Next, CreateSite, DeleteSite, EnqueueCancel, HandlerStep, SetDeleting,
     EnqueueCheck, EnqueueCreateJob, EnqueueSend, EnqueueFailed, Accepted
<1>1. WorkerWork(s) => WorkerWork(s)'
  BY <1>0, TheSiteStays DEF WorkerWork
<1>2. queue' = queue => (QueueWork(s) => QueueWork(s)')
  BY <1>0, QueuedSites DEF QueueWork
<1>3. ASSUME queue' = queue, saveFails = 0, sites[s] \in Transient,
             ReqWork(s) => ReqWork(s)'
      PROVE  ReqWork(s)' \/ QueueWork(s)' \/ WorkerWork(s)'
  BY <1>0, <1>1, <1>2, <1>3 DEF WorkInv, Unharmed
<1>4. ASSUME NEW pc \in ReqPC, GoTo(h, pc)
      PROVE  /\ req'[h].pc = pc /\ req'[h].site = req[h].site
             /\ \A g \in Handlers : g # h => req'[g] = req[g]
  BY <1>4 DEF GoTo, TypeOK, Request
<1>5. ASSUME Respond(h)
      PROVE  \A g \in Handlers : g # h => req'[g] = req[g]
  BY <1>5 DEF Respond, TypeOK
<1>6. ASSUME NEW r \in Sites, NEW d \in Domains, CreateSite(h, r, d)
      PROVE  ReqWork(s)' \/ QueueWork(s)' \/ WorkerWork(s)'
  <2>1. PICK ok \in BOOLEAN :
          /\ RepoCreateSite(r, d, ok)
          /\ req' = IF ok
                    THEN [req EXCEPT ![h] = [pc |-> "enqueue",
                            type |-> "provision_site", site |-> r, job |-> None]]
                    ELSE req
    BY <1>6 DEF CreateSite
  <2>2. ok /\ saveFails = 0
    BY <2>1, SaveSucceeds DEF RepoCreateSite, Unharmed
  <2>3. /\ req'[h].site = r /\ req'[h].pc = "enqueue"
        /\ \A g \in Handlers : g # h => req'[g] = req[g]
    BY <2>1, <2>2 DEF TypeOK
  <2>4. CASE s = r
    BY <2>3, <2>4 DEF ReqWork, Working
  <2>5. CASE s # r
    <3>1. sites[s] \in Transient
      BY <2>1, <2>5 DEF RepoCreateSite, TypeOK
    <3>2. req[h].pc \notin Working /\ queue' = queue
      BY <1>6 DEF CreateSite, Working
    <3> QED BY <1>3, <2>2, <2>3, <3>1, <3>2, ReqWorkStays
  <2> QED BY <2>4, <2>5
<1>7. ASSUME NEW r \in Sites, DeleteSite(h, r)
      PROVE  ReqWork(s)' \/ QueueWork(s)' \/ WorkerWork(s)'
  <2>1. /\ sites' = sites /\ saveFails' = saveFails /\ queue' = queue
        /\ req[h].pc \notin Working
        /\ \A g \in Handlers : g # h => req'[g] = req[g]
    BY <1>7 DEF DeleteSite, RepoUntouched, repoVars, Working, TypeOK
  <2> QED BY <1>3, <2>1, ReqWorkStays DEF Unharmed
<1>8. CASE SetDeleting(h)
  <2>1. queue' = queue /\ req[h].pc \notin Working
    BY <1>8 DEF SetDeleting, Working
  <2>2. CASE RepoUntouched /\ Respond(h)
    <3>1. sites' = sites /\ saveFails' = saveFails
      BY <2>2 DEF RepoUntouched, repoVars
    <3> QED BY <1>3, <1>5, <2>1, <2>2, <3>1, ReqWorkStays DEF Unharmed
  <2>3. ASSUME NEW ok \in BOOLEAN,
               RepoUpdateSiteStatus(req[h].site, "deleting", ok),
               IF ok THEN GoTo(h, "enqueue") ELSE Respond(h)
        PROVE  ReqWork(s)' \/ QueueWork(s)' \/ WorkerWork(s)'
    <3>1. ok /\ saveFails = 0
      BY <2>3, SaveSucceeds DEF RepoUpdateSiteStatus, Unharmed
    <3>2. /\ req'[h].pc = "enqueue" /\ req'[h].site = req[h].site
          /\ \A g \in Handlers : g # h => req'[g] = req[g]
      BY <1>4, <2>3, <3>1 DEF ReqPC
    <3>3. CASE s = req[h].site
      BY <3>2, <3>3 DEF ReqWork, Working
    <3>4. CASE s # req[h].site
      <4>1. sites[s] \in Transient
        BY <2>3, <3>4 DEF RepoUpdateSiteStatus, TypeOK
      <4> QED BY <1>3, <2>1, <3>1, <3>2, <4>1, ReqWorkStays
    <3> QED BY <3>3, <3>4
  <2> QED BY <1>8, <2>2, <2>3 DEF SetDeleting
<1>9. CASE EnqueueCheck(h) \/ EnqueueCancel(h)
  <2>1. /\ sites' = sites /\ saveFails' = saveFails /\ queue' = queue
    BY <1>9 DEF EnqueueCheck, EnqueueCancel, RepoUntouched, repoVars
  <2>2. GoTo(h, "fail") \/ GoTo(h, "createJob")
    BY <1>9 DEF EnqueueCheck, EnqueueCancel
  <2>3. /\ req'[h].pc \in Working /\ req'[h].site = req[h].site
        /\ \A g \in Handlers : g # h => req'[g] = req[g]
    BY <1>4, <2>2 DEF ReqPC, Working
  <2> QED BY <1>3, <2>1, <2>3, ReqWorkStays DEF Unharmed
<1>10. ASSUME NEW j \in Jobs, EnqueueCreateJob(h, j)
      PROVE  ReqWork(s)' \/ QueueWork(s)' \/ WorkerWork(s)'
  <2>1. PICK ok \in BOOLEAN :
          /\ RepoCreateJob(j, req[h].type, req[h].site, ok)
          /\ req' = [req EXCEPT ![h] = [pc |-> IF ok THEN "send" ELSE "fail",
                       type |-> req[h].type, site |-> req[h].site, job |-> j]]
    BY <1>10 DEF EnqueueCreateJob
  <2>2. /\ sites' = sites /\ saveFails = 0 /\ queue' = queue
    BY <1>10, <2>1, SaveSucceeds DEF EnqueueCreateJob, RepoCreateJob, Unharmed
  <2>3. /\ req'[h].pc \in Working /\ req'[h].site = req[h].site
        /\ \A g \in Handlers : g # h => req'[g] = req[g]
    BY <2>1 DEF TypeOK, Working
  <2> QED BY <1>3, <2>2, <2>3, ReqWorkStays
<1>11. CASE EnqueueSend(h)
  <2>1. /\ sites' = sites /\ saveFails' = saveFails
        /\ req[h].pc = "send" /\ queue' = Append(queue, req[h].job)
        /\ queue \in Seq(Jobs) /\ req[h].job \in Jobs
        /\ GoTo(h, "audit")
    BY <1>11, JobIds DEF EnqueueSend, RepoUntouched, repoVars, TypeOK
  <2>2. /\ Len(queue') = Len(queue) + 1 /\ Len(queue) \in Nat
        /\ \A i \in 1 .. Len(queue) : i \in 1 .. Len(queue') /\ queue'[i] = queue[i]
        /\ queue'[Len(queue) + 1] = req[h].job
    BY <2>1
  <2>3. QueueWork(s) => QueueWork(s)'
    BY <1>0, <2>2, QueuedSites DEF QueueWork
  <2>4. CASE ReqWork(s) /\ req[h].site = s
    <3>1. jobSite'[queue'[Len(queue) + 1]] = s
      BY <1>0, <2>1, <2>2, <2>4, QueuedSites DEF WorkInv
    <3>2. Len(queue) + 1 \in 1 .. Len(queue')
      BY <2>2
    <3> QED BY <3>1, <3>2 DEF QueueWork
  <2>5. CASE req[h].site # s
    <3>1. ReqWork(s) => ReqWork(s)'
      BY <1>4, <2>1, <2>5, ReqWorkStays DEF ReqPC
    <3> QED BY <1>0, <1>1, <2>1, <2>3, <3>1 DEF WorkInv, Unharmed
  <2>6. CASE ~ReqWork(s)
    BY <1>0, <1>1, <2>1, <2>3, <2>6 DEF WorkInv, Unharmed
  <2> QED BY <2>4, <2>5, <2>6
<1>12. CASE EnqueueFailed(h)
  <2>1. queue' = queue /\ Respond(h)
    BY <1>12 DEF EnqueueFailed
  <2>2. sites[s] \in Transient /\ saveFails = 0 /\ req[h].site # s
    <3>1. CASE sites[req[h].site] = "absent" /\ RepoUntouched
      BY <3>1 DEF RepoUntouched, repoVars, Unharmed, Transient
    <3>2. ASSUME NEW ok \in BOOLEAN,
                 RepoUpdateSiteStatus(req[h].site, "failed", ok)
          PROVE  sites[s] \in Transient /\ saveFails = 0 /\ req[h].site # s
      BY <3>2, SaveSucceeds DEF RepoUpdateSiteStatus, Unharmed, Transient, TypeOK
    <3> QED BY <1>12, <3>1, <3>2 DEF EnqueueFailed
  <2> QED BY <1>3, <1>5, <2>1, <2>2, ReqWorkStays
<1>13. CASE Accepted(h)
  <2>1. /\ queue' = queue /\ Respond(h) /\ req[h].pc \notin Working
        /\ sites' = sites /\ saveFails = 0
    BY <1>13, SaveSucceeds DEF Accepted, RepoSaveOnly, repoVars, Working, Unharmed
  <2> QED BY <1>3, <1>5, <2>1, ReqWorkStays
<1> QED BY <1>6, <1>7, <1>8, <1>9, <1>10, <1>11, <1>12, <1>13 DEF HandlerStep
\* A step of the worker leaves every transient site with work: it lets go of its
\* site only when that is no longer transient.
LEMMA WorkerWorks ==
  ASSUME SiteInv, JobPart, WorkInv, TypeOK', ~Restart, Unharmed', WorkerStep,
         NEW s \in Sites, sites'[s] \in Transient
  PROVE  ReqWork(s)' \/ QueueWork(s)' \/ WorkerWork(s)'
<1> USE DEF SiteInv
<1>0. Next /\ req' = req /\ restarts' = restarts
  BY DEF Next, WorkerStep, WorkerTake, WorkerExit, WorkerStart, WorkerLoadSite,
     ProvisionWrite, ProvisionReload, ProvisionSetActive, DeprovisionRemove,
     DeprovisionReload, DeprovisionDeleteSite, WorkerSiteFailed, WorkerFinish
<1>1. ReqWork(s) => ReqWork(s)'
  BY <1>0 DEF ReqWork
<1>2. ASSUME queue' = queue, saveFails = 0, sites[s] \in Transient,
             WorkerWork(s) => worker'.job = worker.job /\ worker'.pc # "finish"
      PROVE  ReqWork(s)' \/ QueueWork(s)' \/ WorkerWork(s)'
  <2>1. QueueWork(s) => QueueWork(s)'
    BY <1>0, <1>2, QueuedSites DEF QueueWork
  <2>2. WorkerWork(s) => WorkerWork(s)'
    BY <1>0, <1>2, TheSiteStays DEF WorkerWork
  <2> QED BY <1>0, <1>1, <1>2, <2>1, <2>2 DEF WorkInv, Unharmed
<1>3. \A pc : WGoTo(pc) => worker'.pc = pc /\ worker'.job = worker.job
  BY DEF WGoTo, TypeOK, Worker
<1>4. worker.pc \in {"idle", "exited", "finish"} => ~WorkerWork(s)
  BY DEF WorkerWork, TypeOK
<1>5. CASE WorkerTake
  <2>1. /\ sites' = sites /\ saveFails' = saveFails /\ worker.pc = "idle"
        /\ queue \in Seq(Jobs) /\ queue # << >> /\ queue' = Tail(queue)
    BY <1>5 DEF WorkerTake, RepoUntouched, repoVars, TypeOK
  <2>2. /\ 1 \in 1 .. Len(queue) /\ Head(queue) = queue[1]
        /\ \A i \in 1 .. Len(queue) : i # 1 =>
             i - 1 \in 1 .. Len(queue') /\ queue'[i - 1] = queue[i]
    BY <2>1
  <2>3. worker'.pc = "start" /\ worker'.job = queue[1] /\ worker'.job # None
    BY <1>5, <2>2, JobIds, ConstantsAssumption
    DEF WorkerTake, JobPart, QueueSound, TypeOK, Worker
  <2>4. ASSUME NEW i \in 1 .. Len(queue), jobSite[queue[i]] = s
        PROVE  QueueWork(s)' \/ WorkerWork(s)'
    <3>1. jobSite'[queue[i]] = s
      BY <1>0, <2>4, QueuedSites
    <3>2. CASE i = 1
      BY <2>3, <3>1, <3>2 DEF WorkerWork, TheSite
    <3>3. CASE i # 1
      BY <2>2, <3>1, <3>3 DEF QueueWork
    <3> QED BY <3>2, <3>3
  <2>5. QueueWork(s) => QueueWork(s)' \/ WorkerWork(s)'
    BY <2>4 DEF QueueWork
  <2> QED BY <1>0, <1>1, <1>4, <2>1, <2>5 DEF WorkInv, Unharmed
<1>6. CASE WorkerExit
  BY <1>2, <1>4, <1>6 DEF WorkerExit, RepoUntouched, repoVars, Unharmed
<1>7. CASE WorkerStart
  <2>1. PICK ok \in BOOLEAN :
          /\ RepoUpdateJob(worker.job, "running", ok)
          /\ worker' = IF ok THEN [worker EXCEPT !.pc = "loadSite"]
                             ELSE IdleWorker
    BY <1>7 DEF WorkerStart
  <2>2. ok /\ saveFails = 0 /\ sites' = sites
    BY <2>1, SaveSucceeds DEF RepoUpdateJob, Unharmed
  <2>3. worker'.pc = "loadSite" /\ worker'.job = worker.job
    BY <2>1, <2>2 DEF TypeOK, Worker
  <2> QED BY <1>2, <1>7, <2>2, <2>3 DEF WorkerStart
<1>8. CASE WorkerLoadSite
  <2>1. sites' = sites /\ saveFails = 0 /\ queue' = queue
    BY <1>8 DEF WorkerLoadSite, RepoUntouched, repoVars, Unharmed
  <2>2. \/ sites[TheSite] = "absent"
        \/ worker'.job = worker.job /\ worker'.pc # "finish"
    <3>1. sites[TheSite] = "absent" \/ WGoTo("write") \/ WGoTo("remove")
      BY <1>8 DEF WorkerLoadSite
    <3> QED BY <1>3, <3>1
  <2> QED BY <1>2, <2>1, <2>2 DEF WorkerWork, Transient
<1>9. CASE ProvisionWrite \/ ProvisionReload \/ DeprovisionRemove \/ DeprovisionReload
  <2>1. sites' = sites /\ saveFails = 0 /\ queue' = queue
    BY <1>9 DEF ProvisionWrite, ProvisionReload, DeprovisionRemove,
         DeprovisionReload, RepoUntouched, repoVars, Unharmed
  <2>2. worker'.job = worker.job /\ worker'.pc # "finish"
    <3>1. CASE ProvisionWrite
      <4>1. \/ WGoTo("siteFailed")
            \/ worker' = [worker EXCEPT !.pc = "reload", !.prev = conf[TheDomain]]
        BY <3>1 DEF ProvisionWrite
      <4>2. CASE worker' = [worker EXCEPT !.pc = "reload", !.prev = conf[TheDomain]]
        BY <4>2 DEF TypeOK, Worker
      <4> QED BY <1>3, <4>1, <4>2
    <3>2. CASE ProvisionReload \/ DeprovisionRemove \/ DeprovisionReload
      BY <1>3, <3>2 DEF ProvisionReload, DeprovisionRemove, DeprovisionReload
    <3> QED BY <1>9, <3>1, <3>2
  <2> QED BY <1>2, <2>1, <2>2
<1>10. CASE ProvisionSetActive \/ DeprovisionDeleteSite \/ WorkerSiteFailed
  <2>1. queue' = queue
    BY <1>10 DEF ProvisionSetActive, DeprovisionDeleteSite, WorkerSiteFailed
  <2>2. sites[s] \in Transient /\ saveFails = 0 /\ TheSite # s
    <3>1. CASE sites[TheSite] = "absent" /\ RepoUntouched
      BY <3>1 DEF RepoUntouched, repoVars, Unharmed, Transient
    <3>2. ASSUME NEW ok \in BOOLEAN, NEW st \in {"active", "failed"},
                 RepoUpdateSiteStatus(TheSite, st, ok)
          PROVE  sites[s] \in Transient /\ saveFails = 0 /\ TheSite # s
      BY <3>2, SaveSucceeds DEF RepoUpdateSiteStatus, Unharmed, Transient, TypeOK
    <3>3. ASSUME NEW ok \in BOOLEAN, RepoDeleteSite(TheSite, ok)
          PROVE  sites[s] \in Transient /\ saveFails = 0 /\ TheSite # s
      BY <3>3, SaveSucceeds DEF RepoDeleteSite, Unharmed, Transient, TypeOK
    <3> QED BY <1>10, <3>1, <3>2, <3>3
            DEF ProvisionSetActive, DeprovisionDeleteSite, WorkerSiteFailed
  <2> QED BY <1>2, <2>1, <2>2 DEF WorkerWork
<1>11. CASE WorkerFinish
  <2>1. sites' = sites /\ saveFails = 0 /\ queue' = queue /\ worker.pc = "finish"
    BY <1>11, SaveSucceeds DEF WorkerFinish, RepoUpdateJob, Unharmed
  <2> QED BY <1>2, <1>4, <2>1
<1> QED BY <1>5, <1>6, <1>7, <1>8, <1>9, <1>10, <1>11 DEF WorkerStep

\* Signals and the two steps of a shutdown leave sites and work alone.
LEMMA ProcessWork ==
  ASSUME SiteInv, WorkInv, Unharmed', Signal \/ StopJobs \/ CloseRepo,
         NEW s \in Sites, sites'[s] \in Transient
  PROVE  ReqWork(s)' \/ QueueWork(s)' \/ WorkerWork(s)'
<1>1. /\ UNCHANGED <<sites, jobSite, queue, req, worker, restarts>>
      /\ saveFails = 0
  BY SaveSucceeds DEF SiteInv, Signal, StopJobs, CloseRepo, RepoUntouched,
     RepoSaveOnly, repoVars, Unharmed
<1> QED BY <1>1 DEF WorkInv, Unharmed, ReqWork, QueueWork, WorkerWork, TheSite

\* WorkInv is an inductive invariant of the core, given SiteInv and JobInv.
THEOREM WorkInvariance == Spec => []WorkInv
<1>1. Init => WorkInv
  BY DEF Init, WorkInv, Transient, IdleRequest
<1>2. ASSUME SiteInv, SiteInv', JobInv, WorkInv, [Next]_vars
      PROVE  WorkInv'
  <2>1. CASE UNCHANGED vars
    <3>1. UNCHANGED <<sites, jobSite, queue, req, worker, saveFails, restarts>>
      BY <2>1 DEF vars
    <3>2. \A s \in Sites : /\ ReqWork(s) => ReqWork(s)'
                           /\ QueueWork(s) => QueueWork(s)'
                           /\ WorkerWork(s) => WorkerWork(s)'
      BY <3>1 DEF ReqWork, QueueWork, WorkerWork, TheSite
    <3> QED BY <1>2, <3>1, <3>2 DEF WorkInv, Unharmed
  <2>2. CASE Restart
    <3>1. restarts' # 0
      BY <1>2, <2>2, ConstantsAssumption DEF Restart, SiteInv, TypeOK
    <3>2. \A h \in Handlers : req'[h].pc # "send"
      BY <2>2 DEF Restart, IdleRequest
    <3> QED BY <3>1, <3>2 DEF WorkInv, Unharmed
  <2>3. ASSUME Next, ~Restart PROVE WorkInv'
    <3> USE <1>2, <2>3 DEF JobInv, JobPart
    <3>1. \A h \in Handlers : req'[h].pc = "send" =>
            jobSite'[req'[h].job] = req'[h].site
      BY SendSiteStep DEF SiteInv
    <3>2. ASSUME Unharmed', NEW s \in Sites, sites'[s] \in Transient
          PROVE  ReqWork(s)' \/ QueueWork(s)' \/ WorkerWork(s)'
      BY <3>2, HandlerWork, WorkerWorks, ProcessWork DEF Next, SiteInv
    <3> QED BY <3>1, <3>2 DEF WorkInv
  <2> QED BY <1>2, <2>1, <2>2, <2>3
<1> QED BY <1>1, <1>2, SiteInvariance, JobInvariance, PTL DEF Spec

\* As long as no save failed and the process did not die, no site is left in
\* provisioning or deleting: a request, the channel or the worker has it.
THEOREM TransientIsWorkedOn == Spec => []TransientHasWork
<1>1. WorkInv => TransientHasWork
  BY DEF WorkInv, TransientHasWork, Unharmed, Transient, Working, ReqWork, QueueWork,
     WorkerWork
<1> QED BY <1>1, WorkInvariance, PTL
=============================================================================
