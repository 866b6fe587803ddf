------------------------------ MODULE Updater ------------------------------
(***************************************************************************)
(* The panel updater (updater.Service.Start and handleStartPanelUpdate):   *)
(* one transient systemd unit of a fixed name runs the update script.      *)
(* Start asks systemd for the unit's status, and if nothing runs and the   *)
(* cooldown has passed it calls systemd-run; when that finds a unit of the *)
(* name still loaded, Start stops and resets the unit and tries once more. *)
(* No lock is held over these steps: several requests interleave, status   *)
(* and cleanup commands may fail, clients disconnect (which cancels the    *)
(* commands, never the unit), and the script restarts the panel itself.    *)
(*                                                                         *)
(* systemd is external and modelled from how Start uses it: a oneshot unit *)
(* with RemainAfterExit is activating while the script runs and stays      *)
(* loaded when it has ended, and systemd-run waits for it.                 *)
(***************************************************************************)
EXTENDS Naturals, FiniteSets

CONSTANTS
  Requests,   \* POST /v1/panel/update in flight
  Cooldown,   \* cfg.Cooldown, in instants; 0 switches it off
  MaxRuns,    \* bound: updates started
  MaxFaults,  \* bound: failed commands, disconnects and panel restarts
  LastInstant \* bound: last instant

ASSUME UpdaterAssumption ==
  /\ Cooldown \in Nat /\ MaxRuns \in Nat /\ MaxFaults \in Nat
  /\ LastInstant \in Nat

VARIABLES
  unit,    \* [state, since]: the unit (absent, activating, exited or failed)
           \* and when its state last changed
  req,     \* per request: where Start is
  clock,   \* time
  runs,    \* updates started so far
  faults   \* faults so far

updaterVars == <<unit, req, clock, runs, faults>>

\* raced: an update was started after this request had read the status.
\* blind: the status could not be read.  undated: the status was read, but not
\* the time stamp of the unit's last change.
Idle == [pc |-> "idle", raced |-> FALSE, blind |-> FALSE, undated |-> FALSE]

UpdaterInit ==
  /\ unit = [state |-> "absent", since |-> 0]
  /\ req = [r \in Requests |-> Idle]
  /\ clock = 0
  /\ runs = 0
  /\ faults = 0

-----------------------------------------------------------------------------
Fault == faults < MaxFaults /\ faults' = faults + 1
Goto(r, pc) == req' = [req EXCEPT ![r].pc = pc]
Answer(r) == req' = [req EXCEPT ![r] = Idle]

\* Mutant of Running: the unit is taken to be running in SubState running only,
\* in which a oneshot unit never is.
RunningSubState == FALSE
\* Status.Exists and Status.Running.
Exists == unit.state # "absent"
Running == unit.state = "activating"

\* Mutant of CooldownWait: a failed update may be repeated at once.
CooldownWaitSuccessOnly(dated) ==
  IF unit.state = "exited" /\ dated /\ clock - unit.since < Cooldown
  THEN Cooldown - (clock - unit.since) ELSE 0
\* cooldownWait: counted from the last change of the unit's state, if its time
\* stamp is there and can be parsed (dated); otherwise there is nothing to wait
\* for.  Time does not run backwards here, so elapsed is never negative.
CooldownWait(dated) ==
  IF Exists /\ ~Running /\ dated /\ clock - unit.since < Cooldown
  THEN Cooldown - (clock - unit.since) ELSE 0

\* Bound: a request is admitted only while its run can still be counted.
RunLeft ==
  runs + Cardinality({r \in Requests : req[r].pc \notin {"idle", "wait"}})
    < MaxRuns

\* Start, its checks: an update that runs (409) or has just ended (429) ends the
\* request; without a status both checks are skipped.  StateChangeTimestamp is text
\* that systemctl prints in the zone of the host: it may be empty, "n/a" or in a
\* form time.Parse refuses.
Start(r) ==
  /\ req[r].pc = "idle"
  /\ RunLeft
  /\ \/ /\ \E dated \in BOOLEAN :
             /\ ~Running /\ CooldownWait(dated) = 0
             /\ req' = [req EXCEPT ![r] = [Idle EXCEPT !.pc = "run",
                                             !.undated = Exists /\ ~dated]]
        /\ UNCHANGED faults
     \/ /\ Fault
        /\ req' = [req EXCEPT ![r] = [Idle EXCEPT !.pc = "run", !.blind = TRUE]]
  /\ UNCHANGED <<unit, clock, runs>>

\* The unit starts for request r; every other request that has read the status
\* has now read an old one.
StartUnit(r) ==
  /\ unit' = [state |-> "activating", since |-> clock]
  /\ runs' = runs + 1
  /\ req' = [q \in Requests |->
               IF q = r THEN [Idle EXCEPT !.pc = "wait"]
               ELSE IF req[q].pc = "idle" THEN req[q]
               ELSE [req[q] EXCEPT !.raced = TRUE]]

\* systemd-run: "already exists" leads to cleanupUnit, ...
SystemdRun(r) ==
  /\ req[r].pc = "run"
  /\ IF Exists THEN Goto(r, "stop") /\ UNCHANGED <<unit, runs>>
               ELSE StartUnit(r)
  /\ UNCHANGED <<clock, faults>>

\* ... which stops the unit, whatever it is doing (the error is ignored), ...
CleanupStop(r) ==
  /\ req[r].pc = "stop"
  /\ Goto(r, "reset")
  /\ \/ /\ unit' \in CASE unit.state = "activating" ->
                            [state : {"absent", "failed"}, since : {clock}]
                       [] unit.state = "exited" ->
                            [state : {"absent"}, since : {clock}]
                       [] OTHER -> {unit}
        /\ UNCHANGED faults
     \/ Fault /\ UNCHANGED unit
  /\ UNCHANGED <<clock, runs>>

\* Mutant of CleanupReset: the unit is only stopped.
CleanupNoReset(r) ==
  /\ req[r].pc = "reset"
  /\ Goto(r, "retry")
  /\ UNCHANGED <<unit, faults, clock, runs>>

\* ... and resets a failed one (the error is ignored); ...
CleanupReset(r) ==
  /\ req[r].pc = "reset"
  /\ Goto(r, "retry")
  /\ \/ /\ unit' = IF unit.state = "failed"
                   THEN [state |-> "absent", since |-> clock] ELSE unit
        /\ UNCHANGED faults
     \/ Fault /\ UNCHANGED unit
  /\ UNCHANGED <<clock, runs>>

\* ... then systemd-run once more, and no further attempt.
Retry(r) ==
  /\ req[r].pc = "retry"
  /\ IF Exists THEN Answer(r) /\ UNCHANGED <<unit, runs>> ELSE StartUnit(r)
  /\ UNCHANGED <<clock, faults>>

\* systemd-run returns when its own script has ended (another one may run by
\* now): the answer is 202 and an audit entry, or 500 with the status.
RunReturns(r) ==
  /\ req[r].pc = "wait"
  /\ ~Running \/ req[r].raced
  /\ Answer(r)
  /\ UNCHANGED <<unit, clock, runs, faults>>

\* The request's context is cancelled, or its systemd-run fails by itself: an
\* error is answered and the unit stays as it is.
StartError(r) ==
  /\ req[r].pc # "idle"
  /\ Fault
  /\ Answer(r)
  /\ UNCHANGED <<unit, clock, runs>>

-----------------------------------------------------------------------------
(* The surroundings.                                                         *)

\* The update script ends.
ScriptEnds ==
  /\ Running
  /\ unit' \in [state : {"exited", "failed"}, since : {clock}]
  /\ UNCHANGED <<req, clock, runs, faults>>

\* The panel restarts (the script does that); requests in flight are lost.
PanelRestart ==
  /\ Fault
  /\ req' = [r \in Requests |-> Idle]
  /\ UNCHANGED <<unit, clock, runs>>

ClockTick == clock < LastInstant /\ clock' = clock + 1 /\ UNCHANGED <<unit, req, runs, faults>>

RequestStep(r) ==
  \/ SystemdRun(r)
  \/ CleanupStop(r)
  \/ CleanupReset(r)
  \/ Retry(r)
  \/ RunReturns(r)

UpdaterNext ==
  \/ \E r \in Requests : Start(r) \/ RequestStep(r) \/ StartError(r)
  \/ ScriptEnds
  \/ PanelRestart
  \/ ClockTick

UpdaterSpec == UpdaterInit /\ [][UpdaterNext]_updaterVars

\* A handler goes on until it blocks; the update script need not end, clients
\* need not come, time need not pass.
FairSpec == UpdaterSpec /\ \A r \in Requests : WF_updaterVars(RequestStep(r))

-----------------------------------------------------------------------------
(* Properties.                                                               *)

\* ErrAlreadyRunning means that a running update is left alone.  The check and
\* the cleanup are far apart, so this holds only up to the race: an update is
\* stopped by a request that read the status before that update was started, or
\* that could not read it - never by any other.
KilledOnlyInRace ==
  [][\A r \in Requests :
       (req[r].pc = "stop" /\ req'[r].pc = "reset"
         /\ unit.state = "activating" /\ unit' # unit)
         => req[r].raced \/ req[r].blind]_updaterVars

\* The cooldown is counted from the unit that the last update left behind, so it
\* is lost with that unit.  Within the cooldown the unit is removed only by a
\* request in the same race, or by one that could not read when the unit last
\* changed: every other request finds it in place and waits.  (That a running
\* update is left alone does not depend on the time stamp: KilledOnlyInRace has
\* no such exception.)
CooldownKept ==
  [][\A r \in Requests :
       (req[r].pc \in {"stop", "reset"} /\ req'[r].pc # req[r].pc
         /\ unit.state \in {"exited", "failed"} /\ unit'.state = "absent"
         /\ clock - unit.since < Cooldown)
         => req[r].raced \/ req[r].blind \/ req[r].undated]_updaterVars

\* What an earlier update left behind, finished or failed, does not keep the
\* next one from starting: a request that passed the checks starts its update,
\* unless another request starts one first or a command fails meanwhile.
LeftoverDoesNotBlock ==
  \A r \in Requests, f \in 0 .. MaxFaults :
    (req[r].pc = "run" /\ faults = f)
      ~> (req[r].pc = "wait" \/ req[r].raced \/ faults > f)
=============================================================================
