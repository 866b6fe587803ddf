# Nusantara Panel: TLA+ models, checks and proofs

Nusantara Panel is a Go daemon that manages web sites on one host: an HTTP API
accepts requests, a repository keeps every record in memory and in one JSON
file, and a single worker turns site jobs into Nginx configuration. This
directory models the parts of it that keep state, checks them with TLC on small
instances and proves their safety properties with TLAPS for all instances (all but
one, section 4). Names follow the code; `PROJECT.json` maps every definition to its lines.

## 1. Inventory

| Component (source) | State | Operations | Talks to |
|---|---|---|---|
| Site lifecycle (`service/sites`) | none of its own | CreateSite, DeleteSite | repository, job queue |
| File manager (`service/sites`) | the document roots, content backups | content update, upload, delete, mkdir, rmdir, backup | the file system, no lock |
| Job queue and worker (`jobs`) | channel of 256 ids, started/stopped, one goroutine | Start, Stop, Enqueue, handleJob | repository, provisioner |
| Repository (`store/filedb`) | maps of users, sessions, sites, jobs, audit log; `DomainIndex`; the state file | CRUD under one mutex, each with a save of the whole snapshot | state file |
| Backup and restore (`backup`) | backup files | Run, Restore | state file, behind the repository's back |
| Nginx provisioner (`provision`) | sites-available, sites-enabled, index page | ProvisionSite, DeprovisionSite, rollback | nginx -t, systemctl reload |
| Authentication (`service/auth`) | account and sessions in the repository | EnsureBootstrapAdmin, Login, Authenticate, Logout, ChangePassword | repository |
| Login rate limit (`security/ratelimit`) | a counter per address and user | Allow, RegisterFailure, RegisterSuccess | login handler |
| Updater (`updater`) | a transient systemd unit | Start, Status, Check | systemd, the daemon's own restart |
| Process (`app`) | phase of the process | start, signal, drain, stop jobs, close | all of the above |
| API handlers, audit log (`httpserver`, `audit`) | audit entries in the repository | one handler per operation; an audit entry after each success | services |
| TLS certificates (`ssl`) | certificates and certbot's checkpoint on the host | Issue, Renew | certbot, under a deadline |
| Databases (`db`) | databases and accounts of the MySQL server | CreateDatabase, CreateUser | mysql, under a deadline |
| Web UI (`httpserver/handlers/ui.go`) | token, timers, list, form in the browser | polls and button handlers | the API, over a network |
| Monitoring, configuration, scripts | none in the daemon | reads | external programs |

What is hard here, and which properties answer it:

* **Concurrency.** Handlers run in parallel with each other and with the worker.
  The repository's mutex makes one call atomic, never a sequence of calls: status
  writes of a delete and of a running provisioning interleave, `Enqueue` checks,
  stores and sends in three steps, file operations and the updater take no lock
  at all (`NoOrphanConf`, `QueueSound`, `OkMeansDone`, `KilledOnlyInRace`).
* **Crash and restart.** systemd restarts the daemon; the channel is lost, the
  state file and the Nginx files are not (`NoOrphanConf`, `EffectsRecorded`,
  `StateFileDecodes`, `AckedDurable`, `LogoutIsFinal`, `PasswordStands`).
* **Failing saves.** A repository method changes memory before it saves and never
  takes the change back (`IndexSound`, `TokenDurable`, `AdminOnFile`).
* **Partial failure** of a sequence of system calls, commands or SQL statements and
  of its rollback (`RollbackRestores`, `SuccessServed`, `AccountStands`).
* **Timeouts and retries.** certbot and mysql hang, are killed half way, and leave
  locks, checkpoints and late statements to the retry (`FailsForCause`, `Answers`).
* **Lost and reordered answers.** The page polls and posts over a network and a
  panel that restarts under it (`ListConverges`, `StatusConverges`, `PollingSound`,
  `SavedStands`).
* **Time and limits.** The full channel, the window of the rate limit, the
  cooldown, second-granular names (`RequestAnswered`, `BlockHolds`, `CooldownKept`, `SavedIsFinal`).

The full list, with lines, is under `hazards` in `PROJECT.json`.

## 2. Modules

| Module | Models | Grain of a step |
|---|---|---|
| `SiteJobs` | requests that create and delete sites, `Enqueue`, the worker, the repository, shutdown, crash, restart | one repository call, channel operation or provisioner phase |
| `AtomicStore` | abstract: a cell that always holds a whole snapshot | |
| `StateFile` | `Repository.save`, `load`, `copyFile`; implements `AtomicStore` | one system call, with inodes and descriptors |
| `NginxProvision` | `ProvisionSite`, `DeprovisionSite`, `rollback`, bootstrap page | one system call or command |
| `Auth` | login, sessions, password, bootstrap at start-up | one repository call or bcrypt comparison |
| `LoginLimiter` | the rate limit around a slow password check | one locked method, one tick |
| `Updater` | `Start` of the updater against systemd | one command |
| `SiteFiles` | the file manager on one document root | one system call |
| `SitePaths` | which paths are accepted and what they mean | one evaluation |
| `HostCommands` | issue, renew, CreateDatabase, CreateUser around certbot and mysql | one command or SQL statement |
| `WebUI` | the page's script, its requests and their answers | one event handler, one handled request |
| `MC*` | finite instances of the above | |
| `SiteJobsProofs`, `StateFileProofs`, `NginxProvisionProofs`, `AuthProofs`, `HostCommandsProofs`, `SiteFilesProofs`, `WebUIProofs` | theorems about the module of that name | |
| `TimeLimitsProofs` | theorems about `LoginLimiter` and `Updater` | |

**SiteJobs** is the composition: its state is `Repository.data` (`sites`, `jobs`,
`domainIndex`), the snapshot in the state file (`disk`), the channel (`queue`),
where each request and the worker stand (`req`, `worker`), whose file stands in
sites-available for each domain (`conf`) and the phase of the process. `Save(ok)`
appears in every mutating repository call: on failure memory has changed and
`disk` has not. A request is `CreateSite` or `DeleteSite`, then
`SetDeleting`, `EnqueueCheck`, `EnqueueCreateJob`, `EnqueueSend` (or
`EnqueueCancel`), `EnqueueFailed` or `Accepted` (the audit entry and the
answer). The worker is `WorkerTake` ... `WorkerFinish`. `Restart` may come at
any moment: memory becomes what the state file holds, the channel is empty.
Two protocols it takes as single steps have modules of their own: what a save
does to the file is `StateFile`, what the provisioner does is `NginxProvision`.

**StateFile** has names, inodes and open descriptors because `O_TRUNC` on an
existing name empties the file another writer has open and `rename` moves
whatever the name refers to. Snapshots are numbers with different lengths in
blocks. `RecordAudit` is the audit entry the backup and restore handlers write
afterwards, a repository mutation with its own save. State backups and restores
run in parallel with saves, as the code lets them; `past.raced` (history) records
that a file was opened for writing while another request was writing that name.
Until then the module implements `AtomicStore`; afterwards `AtomicStore` promises
nothing (`void`).

**NginxProvision** follows one domain. Every call may fail, the process may die,
users upload an index page, administrators change and reload Nginx. Rendering is
abstracted: a rendered configuration is a model value, some of which `nginx -t`
refuses.

**Auth** has one account, tokens that are issued once, and the start-up that
creates the account when there is none. `expiry` (history) keeps the expiry that was
answered with each token. **LoginLimiter** has one key, since keys
do not influence each other; reading the clock and taking the mutex, two moments in
the code, are one step. **Updater** models systemd by how `Start` uses it: a
unit of a fixed name that is absent, activating, exited or failed, whose time stamp
may be missing or unreadable (`dated`; `undated` is the history of a request that met
such a stamp). (Its
specification is called `UpdaterSpec`, its time `clock`, so that one proof module can
extend it and `LoginLimiter`.)

**SiteFiles** models `os.WriteFile`, `os.MkdirAll`, `os.Remove`, `os.RemoveAll`
and `filepath.Walk` by their system calls on a tree of files. `os.MkdirAll` first goes
up to the deepest name that is there and creates the missing ones below it later, one
call each, whatever has become of them by then. Archive files are numbered in the order
they are created (`zips`), since a name (`tmp`, `saved`) may lose its file to another
backup while the file is still being written. A request remembers
which paths others changed since it began (`touched`, history only). **SitePaths**
translates `normalizeRelativePath`, `isWithinRoot` and `isValidRootPath` on paths
cut at their slashes; a segment other than the empty one, `.` and `..` is a name.
Names that merely contain two dots, which `isValidRootPath` refuses, and blanks
around a path, which are trimmed first, are not among the inputs.

**HostCommands** lets several requests run certbot and mysql at once; nothing in
the panel keeps them apart. What the panel does between commands is translated from
the code (remove the checkpoint, fall back to an existing certificate when
`certonly` fails, three statements in one `mysql` command, a deadline on each).
certbot is external: it refuses to run beside another, may refuse over a
checkpoint that a killed run left, and may fail, hang or be killed before or after
its work is done. The server may execute the statement of a killed client late. The
worker may write a domain's conf anew and so drop TLS (`ConfRewritten`). `why`
(history) collects a request's reasons to fail.

**WebUI** is one page, the panel behind it and the requests between them. The script
is single-threaded, so a step is one event: a click, an answer, a timer. An answer is
applied to whatever the page has become meanwhile. Requests are handled in any order,
answers arrive in any order, a request may be lost before or after it was handled,
and one the page has given up may still be carried out. A site stands for its id,
its domain and its root path; its runtime says which file the editor offers first.
`SelectSiteForEditor` resets the file name and the paths, from a click and from the
answer of a poll that finds no site selected (`FillEditor`). `form.chosen` (history)
is what the user put into each field; a file name or path counts only while a site
is selected. A user follows one of the plans of `MCWebUI` (session and
updater, refresh and logout, edit and save one file or two, pick a site and a file,
upload, sites), which keeps most clicks apart that do not interact.

Every module that a run checks has definitions called "Mutant of ...": plausible
mistakes in one definition that a property of the run must notice. The
specifications do not use them.

## 3. Runs

Each run is `tlc -config <cfg> <module>`. CHECK_DEADLOCK is off where the
bounds on requests, time or faults let the model come to rest.

| Run | Bounds | Shows |
|---|---|---|
| `site_jobs_faults` | 2 requests, 2 sites on 1 domain, 3 jobs, channel of 2, 2 failed saves, 2 restarts, disconnects, shutdown | all safety properties of the core |
| `site_jobs_live` | channel of 1, 3 jobs, no faults, disconnects | queued jobs finish, requests are answered |
| `state_file_safe` | 2 requests, 3 snapshots, 1 failing call, 1 restart, 2 copies | the state file is whole, acknowledged saves stay, `AtomicStore` is implemented, until two writers meet in one temporary file |
| `nginx` | 3 calls, 2 failures, 1 crash, 3 configurations of which 1 bad | success means served, a completed rollback restores, uploads survive |
| `login_limiter` | 3 logins in flight, block after 3, window 2, 7 instants | guesses per window are bounded, the block holds, ends and has a cause |
| `auth` | 2 requests, 2 tokens, 2 passwords, 2 failed saves, 1 restart, 3 instants | what was answered with success stands |
| `updater` | 2 requests, cooldown 2, 4 runs, 3 faults, 6 instants | only a stale or unreadable status lets a request stop a running update, and only that or an unreadable time stamp cut the cooldown; a unit left behind never blocks |
| `site_paths` | all paths of up to 4 segments over 5 segments, all accepted roots of up to 4 | accepted paths mean what they say and stay below the root; refusals have a reason |
| `site_files` | 3 requests, 2 at a time, 4 paths, 2 contents, 1 failing call, every initial tree | answers are true where nobody interfered (of a recursive deletion, always), nothing changes unasked, backups alone in their second are complete |
| `host_commands` | 2 requests at a time, 3 in all, 1 domain, 1 account, 2 passwords, 2 faults | success is true, failures have a cause, accounts stand, every request is answered |
| `web_ui` | 2 sites, 2 tokens, 1 path, 2 or 3 clicks, 1 lost answer, error or change by others | timers, fields and "Saved" are right; list and status converge |

Why the bounds suffice for what is asked. Two sites on one domain are what is
needed for an old job to meet a new site; three jobs let a provisioning, a
deletion and a second provisioning overlap; the second restart brings back what
the first lost. For the safety properties of every component but `SitePaths` the
bounds are not the last word: they are proved for all values (section 4). In `StateFile` two writers are enough to share a temporary file, and
two lengths of snapshots to tell a torn file from a whole one. In `LoginLimiter`
the third client is the one that passed `Allow` early, and seven instants cover
three windows. In `SiteFiles` a directory with one entry distinguishes empty from
not empty, and a long and a short content show a missing truncation.
In `HostCommands` the third request is the retry after two that met, and two faults
are a command killed and its retry disturbed. In `WebUI` the timers wait while a poll
of their kind is under way (`MaxInFlight`), but logins, clicks and answers send polls
of their own, so that two overlap and are answered in the wrong order; one surprise
is enough to lose an answer, end a session or change the list at the worst moment,
and the second token is the one of a login that answers late.

The condition `past.raced` in `StateFile` is tight: without it TLC finds a restore
and a save in one temporary file, and a state file that mixes two snapshots.

**Fairness.** `FairSpec` of `SiteJobs` has weak fairness on the worker and on each
request: the Go scheduler runs every goroutine that can run, and the commands
they wait for return. It is not assumed that clients send or cancel anything,
that signals arrive, or that anything fails. The channel needs no strong
fairness in the bounded model: a send that finds the channel full stays enabled
once there is room and no later request can take that room for ever. `Updater`
has weak fairness on the steps of each request. `HostCommands` assumes that handlers
run and that timers fire, never that certbot or mysql returns: what ends a hanging
command is the deadline alone. `WebUI` assumes that a live interval fires, that an
update ends, and that the oldest request of each kind is handled and settled; `<>[]SignedIn`
in its liveness properties is a condition on the user and the session, not a
fairness assumption.

### Findings

Runs with `expect: violation` state what a document or test says and show the
code doing otherwise; `findings` in `PROJECT.json` quotes the lines.

| Run | What happens |
|---|---|
| `restore_doc` | the restore's own audit entry saves the old memory over the restored file, so the recommended restart loads the old state |

Where the code keeps less than a document might be read to say, the property
states what it does keep, and the condition in the property marks the gap:

* `TransientHasWork`, `QueuedJobFinishes`: while the process lives. The channel is not
  rebuilt at a start (jobs/service.go:47), so jobs stored as queued or running stay so
  after a restart and their sites stay provisioning or deleting.
* `StateFileDecodes`, `AckedDurable`, `ImplementsAtomicStore`: `copyFile` writes the
  `<state>.tmp` that `save` writes under the mutex, without the mutex
  (backup/service.go:118); once the two have met nothing is promised.
* `AccountStands`: `CREATE USER IF NOT EXISTS` leaves the password of an account that
  is there and the answer is `ok` all the same.
* `FailsForCause`: `Renew` does not clear a checkpoint left behind, only `Issue` does.
* `OkMeansDone` of `HostCommands`: provisioning a domain anew drops TLS from its conf,
  and nothing installs the certificate again.
* `CooldownKept`: a `StateChangeTimestamp` that is missing, `n/a` or cannot be parsed
  gives a wait of 0 (updater/service.go:283-290), and the cooldown is skipped.
* `UserInputKept`: with no site selected, or the site field cleared, the next list
  selects the first site and replaces the file name and the paths (ui.go:384-391,
  594-596); an answered upload puts its own path back (ui.go:812).
* `PasswordStands`: about the state after the answer. A login or a second change that
  had read the old hash still goes through with the old password (auth/service.go:142).
* `SavedStands`: of two overlapping saves of a file the page cannot tell which the
  panel did last. A load that answers late fills the editor with another site's
  content; the page does not compare.
* `BlockedForCause`: failures count together as long as each comes within a window
  of the one before, not only when all fall into one window (API_V1.md:45 "5 gagal
  per 5 menit").
* `RollbackRestores`: a refused configuration is gone when the call comes back; while
  it runs the configuration is enabled before `nginx -t` has seen it, and stays if
  the process dies there (ARCHITECTURE_V1.md:26-30 has the test before the move).
* `BackupComplete`, `SavedIsFinal`: for a content backup alone in its second; two in
  one second truncate, rename and remove the same temporary file.
* `ChangesOnlyAsked`: `DELETE .../files` removes a path of the kind it saw, or of
  another kind if a request changed it in between (`os.Remove` takes both).
* `ActiveServed`, `TransientHasWork`: a provisioning under way when a delete is
  accepted sets the site active again until the deprovision job is taken.

## 4. Proofs

`tlapm <module>` checks each of the eight proof modules. Every safety property of
the components below is proved for all values of the constants; TLC checked each
inductive invariant on the bounds of section 3 (`StateFileInv` with two snapshots)
before it was proved.

| Component | Inductive invariant | Properties proved from it |
|---|---|---|
| `SiteJobs` | `SiteInv` | `TypeOK`, `NoOrphanConf`, `IndexSound` |
| | `JobInv` | `QueueSound`, `JobsAdvance`, `EffectsRecorded` |
| | `ServeInv` | `ActiveServed` |
| | `WorkInv` | `TransientHasWork` |
| `StateFile` | `StateFileInv` | `StateFileDecodes`, `AckedDurable`, `ImplementsAtomicStore` |
| `NginxProvision` | `ProvisionInv` | `RollbackRestores`, `SuccessServed`, `UserIndexKept` |
| `Auth` | `AuthInv` | `LogoutIsFinal`, `TokenDurable`, `PasswordStands`, `AdminOnFile` |
| `LoginLimiter` | `LimiterInv` | `BlockHolds`, `BlockedForCause`, `GuessesBounded` |
| `HostCommands` | `HostInv` | `AccountStands`, `OkMeansDone`, `FailsForCause` |
| `Updater` | `UpdaterInv` | `KilledOnlyInRace`, `CooldownKept` |
| `SiteFiles` | `FilesInv` | `OkMeansDone`, `ChangesOnlyAsked` |
| | `BackupInv`, which contains it | `BackupComplete`, `SavedIsFinal` |
| `WebUI` | `WebInv` | `PollingSound`, `UserInputKept`, `SavedStands` |

**Assumptions.** Only the named `ASSUME` of each module: bounds are natural numbers,
the channel has room for at least one id, model values that stand for "nothing" are
none of the real ones. Requests, sites, jobs, domains, tokens and configurations are
arbitrary sets, with these exceptions. `SnapshotAssumption` has `IsFiniteSet(Procs)`:
a fresh inode exists because finitely many requests hold finitely many descriptors.
`LimiterAssumption` has `IsFiniteSet(Clients)`, since `GuessesBounded` counts the
requests in flight. A server has finitely many requests at a time.
`PathsAssumption` has a finite set of paths, each a sequence of names, that contains
the directories on the way to its members; a directory can then be listed.
`SomethingToShow` has a site and a token, without which the page has no requests, and
`PhpSitesAreSites` says which sites have the PHP runtime.

### The core

`NoOrphanConf` (a conf file always belongs to a site that memory *and* the state
file know) is not inductive. The worker writes a conf file for the site it loaded
earlier, so one needs that the site still exists while the worker is in between
(`WorkerSound`: only the worker deletes sites, and it does one job at a time) and
that the state file has it too. The latter is not true of every site: a failed
save leaves a site in memory that no file knows. `Persisted` says it is true of
every site for which a provision job exists or is being created, because
`CreateSite` answers an error and enqueues nothing when its save fails, and
because a save writes the whole snapshot. A rollback puts back the file that
stood there before, which belongs to the same site or to none; this needs that no
other site has the domain (`IndexSound`), and after a restart that needs
`DiskUnique`, since the index is rebuilt from the file. `IssuedOK` ties all of it
to ids that were really issued.

`JobInv` is proved on top of `SiteInv`. The channel holds only saved, queued,
distinct ids (`QueueSound`); to keep this when a request sends, `SendSound` says
that the id a request is about to send is saved, queued and known to nobody else,
and `WorkerJobStatus` says that the worker's job is queued until it is marked
running and is running on file from then on. Most steps touch none of this
(`OtherQuiet`, `QuietKeeps`); creating, sending, taking, starting and finishing a
job have a lemma each.

`ServeInv` states `ActiveServed` twice, of memory and of the state file (`ServedBy`),
because a restart makes the second the first. A conf file goes in two ways. A
deprovision job removes it, but that job is then recorded as running in both, and it
becomes a success only when the site is gone from both. A rollback to nothing removes
it, but then the site had no conf file before either, so what excused an active site
then still does. `ActiveStays` shows that only the worker makes a site active, after
its conf file is in place.

`WorkInv` needs one link that `TransientHasWork` does not mention: the job a request
sends is about the request's site, so the work passes from the request to the channel.
Each other step hands the work on or ends the transient status.

### The state file

`StateFileInv` says that either two writers have met (`past.raced`) or `FilesSound`
holds: no inode has two names (`NamesApart`); the state file is whole and not older
than what was acknowledged (`StateSound`); a temporary file has one writer
(`OneWriter`); who saves has the mutex and saves what is in memory (`LockSound`); and
a save or a copy at any point of its sequence writes to the inode its temporary name
leads to, which holds exactly the blocks written so far (`SaveSound`, `CopySound`).
The source of a copy has no temporary name, so no writer reaches it even after a
rename has taken its name away. A rename then moves a complete file, and nothing else
changes what the state file holds. `Refinement` maps that to the cell of
`AtomicStore` and shows every step to be one of its steps or a stutter. That an open
always finds a free inode is a counting argument on finite sets (`InodeFree`).

### Provisioner, sessions, rate limit, host commands, updater

`ProvisionInv` says for each point of `ProvisionSite`, `rollback` and
`DeprovisionSite` which files are already changed, and that what the rollback will
put back is what stood there when the call began.

`AuthInv` has `TokenDurable` and `LogoutIsFinal` already for the token of a request
that is about to answer (`AnswerDurable`, `AnswerGone`: the audit entry comes in
between, with a save of its own), that a session found expired stays so until it is
deleted (`ExpiredStays`), so that no deletion meets a session that still counts, and that a token not yet made is known nowhere.

`LimiterInv` says that an entry counts exactly the last failures of which each came
within a window of the one before (`CountSound`), that the block runs from the last of
them (`BlockSound`) and that a missing entry means they are too old to count
(`AbsentSound`). `GuessesBounded` needs more: when the window is full, the requests
past `Allow` are among those that were past it when it filled up (`FlightBounded`), so
the failures still to come are counted in advance.

`HostInv` says what the point a request has reached implies about certificates,
databases and accounts (`IssueSound`, `DatabaseSound`, `UserSound`), that requests in
each other's way know it (`Known`), and that a checkpoint in the way of an issue has a
cause of its own. A request alone with a new account finds no late statement for it.

`UpdaterInv` says that a request whose reading of the status is still good (no update
started since, and it could be read) finds no update running and, if the time stamp
could be read too, the cooldown over, at each of its later commands.

### File manager and content backups

`FilesInv` says that whatever is in the document root has a directory at every step of
its path (`Rooted`), and of each request what it may still rely on at its next system
call (`Sound`). The proof goes call by call. A step of one request changes at most one
path, and every other request either had not looked at that path or has it in
`touched` from then on (`Seen`, `SeenSound`); this one lemma carries all interleavings. A
descriptor that lost its name (`linked`) writes where nobody looks. For `OkMeansDone`
of a recursive deletion it is not enough that each call removes something: the last call
of `os.RemoveAll` is about the directory itself, its answer is that of this call, and in
a rooted tree nothing is below a path that is not there (`GoneBelow`). That is why the
property needs no condition on others.

`BackupInv` adds the archives. An archive file belongs to the second whose name it has
or had, or in which the backup began that is writing it, and to no other
(`OwnersApart`); so a backup that is alone in its second is the only one to touch its
file, and nobody touches it once it has its final name (`SecondsSound`). `WalkSound` is
the invariant of the walk: of a file that nobody changed since the backup began, the
archive holds the entry as it is, or has none and a path at or above the file is still
to be visited. When the walk visits a directory, the next name on the way down to such a
file exists because the tree is rooted (`WayDown`), and it is among the names that are
read because `SetToSeq` of a finite set omits none (`ChildrenInOrder`). When nothing is
left to visit, `BackupComplete` follows.

### The page

`PollingSound` is inductive with the types of the requests in flight: a poll of a page
without token is never sent, and `setToken` starts and stops both intervals together.
`UserInputKept` needs that a root path the user typed is marked as such (`rootDirty`), or
a suggestion might replace it, and that no file field counts as chosen while no site is
selected (`Settled`), since that is when a list resets them. `SavedStands` is not inductive: it says nothing before
the answer is there. `SaveSound` says of the last save, if no other of its file was under
way when it was clicked, that it is the only save of its file from then on, carries
what was typed, and once answered has been stored; no answer to an older save can then
be taken for its own.

### Checked with TLC only

* Liveness: `QueuedJobFinishes`, `RequestAnswered`, `LeftoverDoesNotBlock`, `Answers`,
  `ListConverges`, `StatusConverges`. The prover has no rules for fairness here.
* `VerdictIsRight` of `SitePaths`: it is about a recursive normalisation of paths of
  any length, an induction over data.

## 5. What is not modelled

* Monitoring and configuration: reads. The scripts run outside the daemon; `Updater`
  and `WebUI` know that an update runs, ends and restarts the panel.
* In the web UI: the buttons for directories, downloads, file deletion, backups and
  SSL, which send one request and show its answer, all texts but "Saved", and the
  limit of 200 sites on a list (api.go:260), which no instance here reaches: beyond
  it the page shows only a part. Reading a local file and sending it is one step, and
  an upload goes to a path that the editor does not offer.
* In `HostCommands`: validation of names, dry-run mode, the choice of certbot's
  plugin, and the audit entry after success (a repository mutation as in `SiteJobs`).
* The grammar of domains, rendering of configurations, JSON and status codes,
  size limits: argument checks or formatting without effect on the properties.
* Read-only operations (lists, reads, downloads, logs, update check).
* Dry-run mode, in which provisioner and content backup do nothing.
* Roles: one check that reads nothing that changes.
* Installation scripts and the unused memory store.
* fsync and power loss: a crash is the death of the process, as the code assumes
  (it never calls Sync).

## 6. Plan

Order of work, most important behaviour first; the first twelve are done.

1. `SiteJobs` with its runs. 2. `StateFile` and `AtomicStore`.
3. `NginxProvision`. 4. `LoginLimiter`, `Auth`, `Updater`.
5. `SitePaths`, `SiteFiles`. 6. `SiteInvariance` and its corollaries.
7. `JobInvariance` and its corollaries. 8. `HostCommands` and `WebUI`.
9. Theorems about `Auth`, `LoginLimiter`, `NginxProvision`, `HostCommands` and
   `Updater`; the refinement from `StateFile` to `AtomicStore`.
10. `ActiveServed` and `TransientHasWork` of the core as theorems.
11. The safety properties of `WebUI` as theorems.
12. The properties of `SiteFiles` as theorems.
13. Left: show that the provisioner's steps in `SiteJobs` are what `NginxProvision`
    implements (refinement of `conf` and of the outcome).
