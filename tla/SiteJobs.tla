------------------------------ MODULE SiteJobs ------------------------------
(***************************************************************************)
(* The core of the panel: HTTP requests that create and delete sites       *)
(* (service/sites), the job queue with its single worker (jobs), the       *)
(* repository that keeps every record in memory and rewrites one state     *)
(* file after each mutation (store/filedb), and the life of the process    *)
(* (app): serving, graceful shutdown, crash and restart by systemd.        *)
(*                                                                         *)
(* Every repository method runs under one mutex, so each is one atomic     *)
(* step: it changes memory first and then saves.  A failed save returns an *)
(* error and leaves memory changed (there is no rollback).  The file       *)
(* protocol inside save is the subject of module StateFile, the file       *)
(* protocol inside ProvisionSite/DeprovisionSite of NginxProvision; here a *)
(* save either replaces the file or fails, and conf[d] is the site whose   *)
(* configuration stands in sites-available for domain d.                   *)
(*                                                                         *)
(* Identifiers come from idgen (random): an id is issued once and never    *)
(* reused, also not across restarts.  The Domain of a site, and the Type   *)
(* and Payload (site_id) of a job, never change after creation, so they    *)
(* are functions written when the id is issued.                            *)
(***************************************************************************)
EXTENDS Naturals, Sequences, FiniteSets

CONSTANTS
  Handlers,       \* HTTP requests in flight
  Sites,          \* site ids idgen can issue
  Jobs,           \* job ids idgen can issue
  Domains,        \* normalised domain names
  None,           \* no site / no job / no domain
  QueueCap,       \* capacity of the jobs channel (256 in the code)
  MaxSaveFails,   \* bound: how many saves may fail
  MaxRestarts,    \* bound: how many times the process may die and come back
  MayCancel,      \* TRUE: clients may disconnect while a request waits
  MayStop         \* TRUE: the process may receive SIGTERM

SiteStatus == {"provisioning", "active", "failed", "deleting"}
JobStatus  == {"queued", "running", "success", "failed"}
JobTypes   == {"provision_site", "deprovision_site"}

ASSUME ConstantsAssumption ==
  /\ QueueCap \in Nat \ {0}
  /\ MaxSaveFails \in Nat
  /\ MaxRestarts \in Nat
  /\ MayCancel \in BOOLEAN
  /\ MayStop \in BOOLEAN
  /\ None \notin Sites
  /\ None \notin Jobs
  /\ None \notin Domains
  /\ None \notin JobTypes

VARIABLES
  sites,       \* Repository.data.Sites: status of each site, or "absent"
  siteDomain,  \* the Domain field, fixed when the id is issued
  jobs,        \* Repository.data.Jobs: status of each job, or "absent"
  jobType,     \* the Type field, fixed when the id is issued
  jobSite,     \* Payload["site_id"], fixed when the id is issued
  domainIndex, \* Repository.data.DomainIndex
  disk,        \* what the state file holds of Sites and Jobs
  saveFails,   \* saves that failed so far
  queue,       \* the jobs channel
  req,         \* per handler: where the request stands
  worker,      \* the worker goroutine
  conf,        \* per domain: whose conf file is in sites-available
  phase,       \* life of the process
  restarts     \* restarts so far

repoVars == <<sites, siteDomain, jobs, jobType, jobSite, domainIndex>>
vars == <<sites, siteDomain, jobs, jobType, jobSite, domainIndex, disk,
          saveFails, queue, req, worker, conf, phase, restarts>>

-----------------------------------------------------------------------------
ReqPC == {"idle", "setDeleting", "enqueue", "createJob", "send", "fail",
          "audit"}
Request == [pc : ReqPC, type : JobTypes, site : Sites \cup {None},
            job : Jobs \cup {None}]

WorkerPC == {"idle", "start", "loadSite", "write", "reload", "setActive",
             "remove", "reloadGone", "deleteSite", "siteFailed", "finish",
             "exited"}
Worker == [pc : WorkerPC, job : Jobs \cup {None}, prev : Sites \cup {None},
           ok : BOOLEAN]

Phases == {"serving", "draining", "stopping", "closed"}

IdleRequest == [pc |-> "idle", type |-> "provision_site", site |-> None,
                job |-> None]
IdleWorker  == [pc |-> "idle", job |-> None, prev |-> None, ok |-> FALSE]

\* Types: the channel keeps its capacity, and a request that is to send has the
\* job it created.
TypeOK ==
  /\ sites \in [Sites -> SiteStatus \cup {"absent"}]
  /\ siteDomain \in [Sites -> Domains \cup {None}]
  /\ jobs \in [Jobs -> JobStatus \cup {"absent"}]
  /\ jobType \in [Jobs -> JobTypes \cup {None}]
  /\ jobSite \in [Jobs -> Sites \cup {None}]
  /\ domainIndex \in [Domains -> Sites \cup {None}]
  /\ disk \in [sites : [Sites -> SiteStatus \cup {"absent"}],
               jobs : [Jobs -> JobStatus \cup {"absent"}]]
  /\ saveFails \in 0 .. MaxSaveFails
  /\ queue \in Seq(Jobs)
  /\ Len(queue) <= QueueCap
  /\ req \in [Handlers -> Request]
  /\ \A h \in Handlers : req[h].pc = "send" => req[h].job # None
  /\ worker \in Worker
  /\ worker.pc \in {"idle", "exited"} <=> worker.job = None
  /\ conf \in [Domains -> Sites \cup {None}]
  /\ phase \in Phases
  /\ restarts \in 0 .. MaxRestarts

Stopped == phase \in {"stopping", "closed"}

Init ==
  /\ sites = [s \in Sites |-> "absent"]
  /\ siteDomain = [s \in Sites |-> None]
  /\ jobs = [j \in Jobs |-> "absent"]
  /\ jobType = [j \in Jobs |-> None]
  /\ jobSite = [j \in Jobs |-> None]
  /\ domainIndex = [d \in Domains |-> None]
  /\ disk = [sites |-> sites, jobs |-> jobs]
  /\ saveFails = 0
  /\ queue = << >>
  /\ req = [h \in Handlers |-> IdleRequest]
  /\ worker = IdleWorker
  /\ conf = [d \in Domains |-> None]
  /\ phase = "serving"
  /\ restarts = 0

-----------------------------------------------------------------------------
(* The repository.  save() writes the whole snapshot: whatever memory holds *)
(* after the mutation, earlier mutations whose own save failed included.    *)

Save(ok) ==
  /\ ok \/ saveFails < MaxSaveFails
  /\ disk' = IF ok THEN [sites |-> sites', jobs |-> jobs'] ELSE disk
  /\ saveFails' = IF ok THEN saveFails ELSE saveFails + 1

\* CreateSite stores the record and its DomainIndex entry.
RepoCreateSite(s, d, ok) ==
  /\ sites' = [sites EXCEPT ![s] = "provisioning"]
  /\ siteDomain' = [siteDomain EXCEPT ![s] = d]
  /\ domainIndex' = [domainIndex EXCEPT ![d] = s]
  /\ UNCHANGED <<jobs, jobType, jobSite>>
  /\ Save(ok)

\* UpdateSiteStatus on an existing site; err is the error it returns.
RepoUpdateSiteStatus(s, status, ok) ==
  /\ sites' = [sites EXCEPT ![s] = status]
  /\ UNCHANGED <<siteDomain, jobs, jobType, jobSite, domainIndex>>
  /\ Save(ok)

\* Mutant of RepoDeleteSite: the DomainIndex entry is left behind.
RepoDeleteSiteKeepsIndex(s, ok) ==
  /\ sites' = [sites EXCEPT ![s] = "absent"]
  /\ UNCHANGED <<domainIndex, siteDomain, jobs, jobType, jobSite>>
  /\ Save(ok)

RepoDeleteSite(s, ok) ==
  /\ domainIndex' = [domainIndex EXCEPT ![siteDomain[s]] = None]
  /\ sites' = [sites EXCEPT ![s] = "absent"]
  /\ UNCHANGED <<siteDomain, jobs, jobType, jobSite>>
  /\ Save(ok)

RepoCreateJob(j, type, s, ok) ==
  /\ jobs' = [jobs EXCEPT ![j] = "queued"]
  /\ jobType' = [jobType EXCEPT ![j] = type]
  /\ jobSite' = [jobSite EXCEPT ![j] = s]
  /\ UNCHANGED <<sites, siteDomain, domainIndex>>
  /\ Save(ok)

RepoUpdateJob(j, status, ok) ==
  /\ jobs' = [jobs EXCEPT ![j] = status]
  /\ UNCHANGED <<sites, siteDomain, jobType, jobSite, domainIndex>>
  /\ Save(ok)

\* Nothing in the modelled part of the snapshot changes, but it is saved:
\* CreateAuditLog, and Close at shutdown.
RepoSaveOnly(ok) == UNCHANGED repoVars /\ Save(ok)

\* A repository call that fails before it mutates anything.
RepoUntouched == UNCHANGED <<repoVars, disk, saveFails>>

-----------------------------------------------------------------------------
(* HTTP handlers: POST /v1/sites and DELETE /v1/sites/{id}.                  *)

Respond(h) == req' = [req EXCEPT ![h] = IdleRequest]
GoTo(h, pc) == req' = [req EXCEPT ![h].pc = pc]

\* Bound: a request is admitted only while a job id is left for it (idgen never
\* runs out).
JobIdLeft ==
  Cardinality({h \in Handlers :
                 req[h].pc \in {"setDeleting", "enqueue", "createJob"}})
    < Cardinality({j \in Jobs : jobType[j] = None})

\* CreateSite, up to repo.CreateSite: a domain that is indexed is a conflict
\* and changes nothing; a failed save is reported to the client, the site
\* stays in memory.
CreateSite(h, s, d) ==
  /\ phase = "serving"
  /\ JobIdLeft
  /\ req[h].pc = "idle"
  /\ siteDomain[s] = None
  /\ domainIndex[d] = None
  /\ \E ok \in BOOLEAN :
       /\ RepoCreateSite(s, d, ok)
       /\ req' = IF ok
                 THEN [req EXCEPT ![h] = [pc |-> "enqueue",
                         type |-> "provision_site", site |-> s, job |-> None]]
                 ELSE req
  /\ UNCHANGED <<queue, worker, conf, phase, restarts>>

\* DeleteSite, its first read: the id must exist.
DeleteSite(h, s) ==
  /\ phase = "serving"
  /\ JobIdLeft
  /\ req[h].pc = "idle"
  /\ sites[s] # "absent"
  /\ req' = [req EXCEPT ![h] = [pc |-> "setDeleting",
               type |-> "deprovision_site", site |-> s, job |-> None]]
  /\ RepoUntouched
  /\ UNCHANGED <<queue, worker, conf, phase, restarts>>

\* DeleteSite, UpdateSiteStatus(deleting): the site may have gone since the
\* read, and the save may fail; both answer the client with an error.
SetDeleting(h) ==
  /\ req[h].pc = "setDeleting"
  /\ IF sites[req[h].site] = "absent"
     THEN RepoUntouched /\ Respond(h)
     ELSE \E ok \in BOOLEAN :
            /\ RepoUpdateSiteStatus(req[h].site, "deleting", ok)
            /\ IF ok THEN GoTo(h, "enqueue") ELSE Respond(h)
  /\ UNCHANGED <<queue, worker, conf, phase, restarts>>

\* Enqueue reads started and stopped under the read lock and releases it.
\* (Start runs before the server listens, so started is TRUE here.)
EnqueueCheck(h) ==
  /\ req[h].pc = "enqueue"
  /\ GoTo(h, IF Stopped THEN "fail" ELSE "createJob")
  /\ RepoUntouched
  /\ UNCHANGED <<queue, worker, conf, phase, restarts>>

\* Mutant of EnqueueCreateJob: the error of CreateJob is ignored.
EnqueueCreateJobUnchecked(h, j) ==
  /\ req[h].pc = "createJob"
  /\ jobType[j] = None
  /\ \E ok \in BOOLEAN :
       /\ RepoCreateJob(j, req[h].type, req[h].site, ok)
       /\ req' = [req EXCEPT ![h] = [pc |-> "send", type |-> req[h].type,
                                     site |-> req[h].site, job |-> j]]
  /\ UNCHANGED <<queue, worker, conf, phase, restarts>>

\* Enqueue stores the job as queued before it sends the id.
EnqueueCreateJob(h, j) ==
  /\ req[h].pc = "createJob"
  /\ jobType[j] = None
  /\ \E ok \in BOOLEAN :
       /\ RepoCreateJob(j, req[h].type, req[h].site, ok)
       /\ req' = [req EXCEPT ![h] = [pc |-> IF ok THEN "send" ELSE "fail",
                    type |-> req[h].type, site |-> req[h].site, job |-> j]]
  /\ UNCHANGED <<queue, worker, conf, phase, restarts>>

\* Mutant of EnqueueSend: an unbounded queue in place of the channel.
EnqueueSendUnbounded(h) ==
  /\ req[h].pc = "send"
  /\ queue' = Append(queue, req[h].job)
  /\ GoTo(h, "audit")
  /\ RepoUntouched
  /\ UNCHANGED <<worker, conf, phase, restarts>>

\* The channel send blocks while the queue is full.
EnqueueSend(h) ==
  /\ req[h].pc = "send"
  /\ Len(queue) < QueueCap
  /\ queue' = Append(queue, req[h].job)
  /\ GoTo(h, "audit")
  /\ RepoUntouched
  /\ UNCHANGED <<worker, conf, phase, restarts>>

\* ctx.Done: the client has gone.  The stored job keeps its status queued.
EnqueueCancel(h) ==
  /\ MayCancel
  /\ req[h].pc = "send"
  /\ GoTo(h, "fail")
  /\ RepoUntouched
  /\ UNCHANGED <<queue, worker, conf, phase, restarts>>

\* Mutant of EnqueueFailed: the site keeps its transient status.
EnqueueFailedSilently(h) ==
  /\ req[h].pc = "fail"
  /\ RepoUntouched
  /\ Respond(h)
  /\ UNCHANGED <<queue, worker, conf, phase, restarts>>

\* CreateSite/DeleteSite after an Enqueue error: UpdateSiteStatus(failed),
\* its own error ignored.
EnqueueFailed(h) ==
  /\ req[h].pc = "fail"
  /\ IF sites[req[h].site] = "absent"
     THEN RepoUntouched
     ELSE \E ok \in BOOLEAN :
            RepoUpdateSiteStatus(req[h].site, "failed", ok)
  /\ Respond(h)
  /\ UNCHANGED <<queue, worker, conf, phase, restarts>>

\* The API handler records the audit entry and answers the client.
Accepted(h) ==
  /\ req[h].pc = "audit"
  /\ \E ok \in BOOLEAN : RepoSaveOnly(ok)
  /\ Respond(h)
  /\ UNCHANGED <<queue, worker, conf, phase, restarts>>

-----------------------------------------------------------------------------
(* The worker goroutine.                                                     *)

WGoTo(pc) == worker' = [worker EXCEPT !.pc = pc]
Finish(ok) == worker' = [worker EXCEPT !.pc = "finish", !.ok = ok]
TheSite == jobSite[worker.job]
TheDomain == siteDomain[TheSite]

\* select: receive, then GetJobByID.  When Stop has cancelled the context and
\* a job waits as well, select takes either branch.
WorkerTake ==
  /\ worker.pc = "idle"
  /\ queue # << >>
  /\ queue' = Tail(queue)
  /\ worker' = IF jobs[Head(queue)] = "absent"
               THEN worker
               ELSE [worker EXCEPT !.pc = "start", !.job = Head(queue)]
  /\ RepoUntouched
  /\ UNCHANGED <<req, conf, phase, restarts>>

WorkerExit ==
  /\ worker.pc = "idle"
  /\ Stopped
  /\ WGoTo("exited")
  /\ RepoUntouched
  /\ UNCHANGED <<queue, req, conf, phase, restarts>>

\* Mutant of WorkerStart: the job goes on although its status was not saved.
WorkerStartUnchecked ==
  /\ worker.pc = "start"
  /\ \E ok \in BOOLEAN : RepoUpdateJob(worker.job, "running", ok)
  /\ WGoTo("loadSite")
  /\ UNCHANGED <<queue, req, conf, phase, restarts>>

\* Mutant of WorkerStart: the job is never marked running.
WorkerStartUnmarked ==
  /\ worker.pc = "start"
  /\ WGoTo("loadSite")
  /\ RepoUntouched
  /\ UNCHANGED <<queue, req, conf, phase, restarts>>

\* UpdateJob(running).  If it reports an error the job is dropped.
WorkerStart ==
  /\ worker.pc = "start"
  /\ \E ok \in BOOLEAN :
       /\ RepoUpdateJob(worker.job, "running", ok)
       /\ worker' = IF ok THEN [worker EXCEPT !.pc = "loadSite"]
                          ELSE IdleWorker
  /\ UNCHANGED <<queue, req, conf, phase, restarts>>

\* GetSiteByID of the payload's site_id.
WorkerLoadSite ==
  /\ worker.pc = "loadSite"
  /\ IF sites[TheSite] = "absent" THEN Finish(FALSE)
     ELSE WGoTo(IF jobType[worker.job] = "provision_site"
                THEN "write" ELSE "remove")
  /\ RepoUntouched
  /\ UNCHANGED <<queue, req, conf, phase, restarts>>

\* ProvisionSite up to the new conf file and its symlink, remembering what
\* stood there, or an error before the conf file is replaced.
ProvisionWrite ==
  /\ worker.pc = "write"
  /\ \/ /\ conf' = [conf EXCEPT ![TheDomain] = TheSite]
        /\ worker' = [worker EXCEPT !.pc = "reload", !.prev = conf[TheDomain]]
     \/ WGoTo("siteFailed") /\ UNCHANGED conf
  /\ RepoUntouched
  /\ UNCHANGED <<queue, req, phase, restarts>>

\* Mutant of ProvisionReload: the error of the commands is lost after the
\* rollback.
ProvisionReloadErrorLost ==
  /\ worker.pc = "reload"
  /\ \/ ~Stopped /\ WGoTo("setActive") /\ UNCHANGED conf
     \/ /\ WGoTo("setActive")
        /\ conf' = [conf EXCEPT ![TheDomain] = worker.prev]
  /\ RepoUntouched
  /\ UNCHANGED <<queue, req, phase, restarts>>

\* nginx -t and reload.  A cancelled context makes the commands fail.  A
\* failure rolls the conf file back; the rollback may fail too, unnoticed.
ProvisionReload ==
  /\ worker.pc = "reload"
  /\ \/ ~Stopped /\ WGoTo("setActive") /\ UNCHANGED conf
     \/ /\ WGoTo("siteFailed")
        /\ \/ conf' = [conf EXCEPT ![TheDomain] = worker.prev]
           \/ UNCHANGED conf
  /\ RepoUntouched
  /\ UNCHANGED <<queue, req, phase, restarts>>

\* UpdateSiteStatus(active), whatever the status is by now.
ProvisionSetActive ==
  /\ worker.pc = "setActive"
  /\ IF sites[TheSite] = "absent" THEN RepoUntouched /\ Finish(FALSE)
     ELSE \E ok \in BOOLEAN :
            RepoUpdateSiteStatus(TheSite, "active", ok) /\ Finish(ok)
  /\ UNCHANGED <<queue, req, conf, phase, restarts>>

\* Mutant of DeprovisionRemove: the error of the removal is ignored.
DeprovisionRemoveUnchecked ==
  /\ worker.pc = "remove"
  /\ \/ conf' = [conf EXCEPT ![TheDomain] = None]
     \/ UNCHANGED conf
  /\ WGoTo("reloadGone")
  /\ RepoUntouched
  /\ UNCHANGED <<queue, req, phase, restarts>>

\* DeprovisionSite removes the symlink and the conf file; either removal may
\* fail, and then the conf file is still there.
DeprovisionRemove ==
  /\ worker.pc = "remove"
  /\ \/ conf' = [conf EXCEPT ![TheDomain] = None] /\ WGoTo("reloadGone")
     \/ UNCHANGED conf /\ WGoTo("siteFailed")
  /\ RepoUntouched
  /\ UNCHANGED <<queue, req, phase, restarts>>

\* nginx -t and reload; nothing is put back on failure.
DeprovisionReload ==
  /\ worker.pc = "reloadGone"
  /\ \/ ~Stopped /\ WGoTo("deleteSite")
     \/ WGoTo("siteFailed")
  /\ RepoUntouched
  /\ UNCHANGED <<queue, req, conf, phase, restarts>>

DeprovisionDeleteSite ==
  /\ worker.pc = "deleteSite"
  /\ IF sites[TheSite] = "absent" THEN RepoUntouched /\ Finish(FALSE)
     ELSE \E ok \in BOOLEAN : RepoDeleteSite(TheSite, ok) /\ Finish(ok)
  /\ UNCHANGED <<queue, req, conf, phase, restarts>>

\* A provisioner error: UpdateSiteStatus(failed), its error ignored.
WorkerSiteFailed ==
  /\ worker.pc = "siteFailed"
  /\ IF sites[TheSite] = "absent" THEN RepoUntouched
     ELSE \E ok \in BOOLEAN : RepoUpdateSiteStatus(TheSite, "failed", ok)
  /\ Finish(FALSE)
  /\ UNCHANGED <<queue, req, conf, phase, restarts>>

\* Mutant of WorkerFinish: the worker returns from its loop when a job fails.
WorkerFinishReturns ==
  /\ worker.pc = "finish"
  /\ \E ok \in BOOLEAN :
       RepoUpdateJob(worker.job, IF worker.ok THEN "success" ELSE "failed", ok)
  /\ worker' = IF worker.ok THEN IdleWorker
                            ELSE [IdleWorker EXCEPT !.pc = "exited"]
  /\ UNCHANGED <<queue, req, conf, phase, restarts>>

\* UpdateJob(success | failed); a failed save is at most logged.
WorkerFinish ==
  /\ worker.pc = "finish"
  /\ \E ok \in BOOLEAN :
       RepoUpdateJob(worker.job, IF worker.ok THEN "success" ELSE "failed", ok)
  /\ worker' = IdleWorker
  /\ UNCHANGED <<queue, req, conf, phase, restarts>>

-----------------------------------------------------------------------------
(* The process (App.Run).                                                    *)

\* SIGTERM: server.Shutdown refuses new requests and waits for those running.
Signal ==
  /\ MayStop
  /\ phase = "serving"
  /\ phase' = "draining"
  /\ RepoUntouched
  /\ UNCHANGED <<queue, req, worker, conf, restarts>>

\* The deferred jobService.Stop, once the requests have drained or the
\* shutdown timeout has passed (requests then still run).
StopJobs ==
  /\ phase = "draining"
  /\ phase' = "stopping"
  /\ RepoUntouched
  /\ UNCHANGED <<queue, req, worker, conf, restarts>>

\* The deferred repo.Close, once the worker has exited or 5 seconds passed.
CloseRepo ==
  /\ phase = "stopping"
  /\ phase' = "closed"
  /\ \E ok \in BOOLEAN : RepoSaveOnly(ok)
  /\ UNCHANGED <<queue, req, worker, conf, restarts>>

\* rebuildIndexes ranges over a map: of several sites with one domain any may
\* win.
RebuiltIndex(f) ==
  \A d \in Domains :
    LET owners == {s \in Sites : disk.sites[s] # "absent" /\ siteDomain[s] = d}
    IN  IF owners = {} THEN f[d] = None ELSE f[d] \in owners

\* The process dies, at any moment or at the end of a shutdown, and systemd
\* (Restart=always) starts it again: New loads the state file, Start begins
\* with an empty queue and does not look for unfinished jobs.
Restart ==
  /\ restarts < MaxRestarts
  /\ restarts' = restarts + 1
  /\ sites' = disk.sites
  /\ jobs' = disk.jobs
  /\ domainIndex' \in {f \in [Domains -> Sites \cup {None}] : RebuiltIndex(f)}
  /\ queue' = << >>
  /\ req' = [h \in Handlers |-> IdleRequest]
  /\ worker' = IdleWorker
  /\ phase' = "serving"
  /\ UNCHANGED <<siteDomain, jobType, jobSite, disk, saveFails, conf>>

-----------------------------------------------------------------------------
HandlerStep(h) ==
  \/ SetDeleting(h)
  \/ EnqueueCheck(h)
  \/ \E j \in Jobs : EnqueueCreateJob(h, j)
  \/ EnqueueSend(h)
  \/ EnqueueFailed(h)
  \/ Accepted(h)

WorkerStep ==
  \/ WorkerTake
  \/ WorkerExit
  \/ WorkerStart
  \/ WorkerLoadSite
  \/ ProvisionWrite
  \/ ProvisionReload
  \/ ProvisionSetActive
  \/ DeprovisionRemove
  \/ DeprovisionReload
  \/ DeprovisionDeleteSite
  \/ WorkerSiteFailed
  \/ WorkerFinish

Next ==
  \/ \E h \in Handlers :
       \/ \E s \in Sites, d \in Domains : CreateSite(h, s, d)
       \/ \E s \in Sites : DeleteSite(h, s)
       \/ HandlerStep(h)
       \/ EnqueueCancel(h)
  \/ WorkerStep
  \/ Signal
  \/ StopJobs
  \/ CloseRepo
  \/ Restart

Spec == Init /\ [][Next]_vars

\* The Go scheduler runs every goroutine that can run; the commands the
\* worker waits for return.  Clients, signals and crashes need not come.
FairSpec ==
  /\ Spec
  /\ WF_vars(WorkerStep)
  /\ \A h \in Handlers : WF_vars(HandlerStep(h))

-----------------------------------------------------------------------------
(* Properties.                                                               *)

\* No orphan configuration (DECISIONS.md D-008: deletion is asynchronous "to
\* avoid orphan Nginx config"): whenever a conf file stands for a domain, the
\* site it was rendered for is known in memory and in the state file under
\* that domain, so it can still be deleted - also after a crash between any
\* two steps of a job, after failed saves, and when a domain is deleted and
\* created again while older jobs are still queued.
NoOrphanConf ==
  \A d \in Domains :
    conf[d] # None =>
      /\ siteDomain[conf[d]] = d
      /\ sites[conf[d]] # "absent"
      /\ disk.sites[conf[d]] # "absent"

\* DomainIndex and Sites agree, so two sites never share a domain (and hence
\* a conf file): CreateSite's conflict check sees exactly the sites that
\* exist, after any mix of deletes, failed saves and reloads.
IndexSound ==
  \A d \in Domains, s \in Sites :
    domainIndex[d] = s <=> (sites[s] # "absent" /\ siteDomain[s] = d)

\* Write-ahead: a job id is in the channel only after the state file holds the
\* job as queued; it is there once, and not also in the worker's hands.  So a
\* job that was accepted has a durable record and is executed at most once.
QueueSound ==
  \A i \in 1 .. Len(queue) :
    /\ jobs[queue[i]] = "queued"
    /\ disk.jobs[queue[i]] = "queued"
    /\ worker.job # queue[i]
    /\ \A k \in 1 .. Len(queue) : queue[k] = queue[i] => k = i

\* README.md:179 "queued -> running -> success/failed": while the process
\* lives, no step of any handler or of the worker moves a job otherwise.
JobsAdvance ==
  [][restarts' = restarts =>
       \A j \in Jobs :
         \/ jobs'[j] = jobs[j]
         \/ <<jobs[j], jobs'[j]>> \in
              {<<"absent", "queued">>, <<"queued", "running">>,
               <<"running", "success">>, <<"running", "failed">>}]_vars

\* Whoever touches the Nginx configuration has first recorded the job as
\* running in the state file: a crash that leaves a half-applied change also
\* leaves a job that says so.
EffectsRecorded ==
  [][conf' # conf =>
       worker.job # None /\ disk.jobs[worker.job] = "running"]_vars

\* As long as no save has failed and the process has not died, a site shown as
\* provisioning or deleting is being worked on: a request, the queue or the
\* worker will move it on.
TransientHasWork ==
  (saveFails = 0 /\ restarts = 0) =>
    \A s \in Sites :
      sites[s] \in {"provisioning", "deleting"} =>
        \/ \E h \in Handlers :
             req[h].site = s /\
             req[h].pc \in {"enqueue", "createJob", "send", "fail"}
        \/ \E i \in 1 .. Len(queue) : jobSite[queue[i]] = s
        \/ worker.job # None /\ TheSite = s /\ worker.pc # "finish"

\* A site shown as active is served, unless a deprovision job for it is on
\* record that has run at least in part.
ActiveServed ==
  \A s \in Sites :
    sites[s] = "active" =>
      \/ conf[siteDomain[s]] = s
      \/ \E j \in Jobs : /\ jobType[j] = "deprovision_site"
                         /\ jobSite[j] = s
                         /\ jobs[j] \in {"running", "failed"}

\* A job in the channel is eventually finished, whatever requests keep coming
\* (no crash, no shutdown, no failed save: the bounds of the run).
QueuedJobFinishes ==
  \A j \in Jobs :
    (\E i \in 1 .. Len(queue) : queue[i] = j)
      ~> jobs[j] \in {"success", "failed"}

\* Every request is answered, also when it has to wait for a full channel.
RequestAnswered ==
  \A h \in Handlers : req[h].pc # "idle" ~> req[h].pc = "idle"

-----------------------------------------------------------------------------
(* The inductive strengthening behind NoOrphanConf, IndexSound, QueueSound,  *)
(* JobsAdvance and EffectsRecorded (SiteJobsProofs).                         *)

\* A record exists, in memory or on disk, only under an issued id.
IssuedOK ==
  /\ \A s \in Sites : (sites[s] # "absent" \/ disk.sites[s] # "absent")
                        => siteDomain[s] # None
  /\ \A j \in Jobs : (jobs[j] # "absent" \/ disk.jobs[j] # "absent")
                        => jobType[j] # None
  /\ \A j \in Jobs : jobType[j] # None => /\ jobSite[j] # None
                                          /\ siteDomain[jobSite[j]] # None
  /\ \A h \in Handlers : req[h].pc # "idle" => /\ req[h].site # None
                                               /\ siteDomain[req[h].site] # None
  /\ worker.job # None => jobType[worker.job] # None

\* The state file never holds two sites with one domain.
DiskUnique ==
  \A s, t \in Sites :
    (/\ disk.sites[s] # "absent" /\ disk.sites[t] # "absent"
     /\ siteDomain[s] = siteDomain[t]) => s = t

\* What memory knows of the site, the state file knows too.
InSync(s) == sites[s] # "absent" => disk.sites[s] # "absent"

\* A provision job is created only for a site whose creation was saved.
Persisted ==
  /\ \A h \in Handlers :
       (req[h].pc # "idle" /\ req[h].type = "provision_site")
         => InSync(req[h].site)
  /\ \A j \in Jobs : jobType[j] = "provision_site" => InSync(jobSite[j])

\* Where the worker is in a job, and what it relies on there.
WorkerSound ==
  /\ worker.pc \in {"write", "reload", "setActive", "remove", "reloadGone",
                    "deleteSite", "siteFailed"} => sites[TheSite] # "absent"
  /\ worker.pc \in {"write", "reload", "setActive"}
       => jobType[worker.job] = "provision_site"
  /\ worker.pc = "reload" => worker.prev \in {None, TheSite}
  /\ worker.pc \in {"reloadGone", "deleteSite"} => conf[TheDomain] = None

\* The worker's job is queued until it is marked running, on disk as well.
WorkerJobStatus ==
  /\ worker.pc = "start" => jobs[worker.job] = "queued"
  /\ worker.pc \notin {"idle", "exited", "start"} =>
       jobs[worker.job] = "running" /\ disk.jobs[worker.job] = "running"

\* A request that is about to send holds a queued, saved job of its own.
SendSound ==
  \A h \in Handlers :
    req[h].pc = "send" =>
      /\ jobs[req[h].job] = "queued"
      /\ disk.jobs[req[h].job] = "queued"
      /\ worker.job # req[h].job
      /\ \A i \in 1 .. Len(queue) : queue[i] # req[h].job
      /\ \A g \in Handlers :
           (req[g].pc = "send" /\ req[g].job = req[h].job) => g = h

SiteInv == TypeOK /\ IssuedOK /\ IndexSound /\ DiskUnique /\ Persisted
             /\ WorkerSound /\ NoOrphanConf

JobInv == TypeOK /\ IssuedOK /\ WorkerSound /\ WorkerJobStatus /\ SendSound
            /\ QueueSound
=============================================================================
