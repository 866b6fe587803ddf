---------------------------- MODULE HostCommands ----------------------------
(***************************************************************************)
(* The requests that let certbot and mysql change the host: issue and renew *)
(* of internal/ssl, CreateDatabase and CreateUser of internal/db, with      *)
(* their handlers, in apply mode and for input that passed validation (the  *)
(* rest is answered before anything happens).                               *)
(*                                                                          *)
(* Requests run concurrently and nothing in the panel keeps them apart.     *)
(* Each command runs under a context that ends by itself (2 minutes for     *)
(* certbot, 10 seconds for mysql), when the client goes away or when the    *)
(* panel stops; the command is then killed where it stands.                 *)
(***************************************************************************)
EXTENDS Naturals, FiniteSets

CONSTANTS
    Requests,    \* requests under way at once
    Domains, Users, Passwords,
    None,        \* no such account, no process
    MaxRequests, \* bound: requests in all
    MaxFaults    \* bound: commands that fail by themselves, contexts that end,
                 \* confs written anew by the worker

ASSUME BoundsAreNumbers == {MaxRequests, MaxFaults} \subseteq Nat
ASSUME NoneIsNoValue == None \notin Requests \cup Passwords

VARIABLES
    req,    \* the requests
    tls,    \* [cert, served: domains with a certificate, with TLS in their conf;
            \*  checkpoint: temp_checkpoint exists; certbot: who holds its lock]
    db,     \* [made: the database exists; pw: the accounts, grant: who may use
            \*  it; late: statements the server still has of killed clients]
    told,   \* history: accounts answered as created
    left    \* what remains of the bounds

vars == <<req, tls, db, told, left>>

CertbotSteps == {"certonly", "install", "renew"}
MysqlSteps == {"createDatabase", "createUser", "grant", "flush"}

Idle == [op |-> "none", pc |-> "idle", arg |-> None, pw |-> None, running |-> FALSE,
         alive |-> FALSE, fresh |-> FALSE, why |-> {}]

Init ==
    /\ req = [r \in Requests |-> Idle]
    /\ tls = [cert |-> {}, served |-> {}, checkpoint |-> FALSE, certbot |-> None]
    /\ db = [made |-> FALSE, pw |-> [u \in Users |-> None], grant |-> {}, late |-> {}]
    /\ told = {}
    /\ left = [requests |-> MaxRequests, faults |-> MaxFaults]

Fault == left.faults > 0 /\ left' = [left EXCEPT !.faults = @ - 1]

(******************************* the handlers *****************************)

Certbots == {"issue", "renew"}

\* Requests that may get into each other's way: two that use certbot, two for
\* one account.
Clash(op, arg, q) ==
    \/ op \in Certbots /\ q.op \in Certbots
    \/ op = "createUser" /\ q.op = "createUser" /\ q.arg = arg

\* History: both sides of a clash remember it.
Marked(op, arg) ==
    [q \in Requests |-> IF Clash(op, arg, req[q]) THEN [req[q] EXCEPT !.why = @ \cup {"clash"}]
                        ELSE req[q]]

Begin(r, op, pc, arg, pw) ==
    /\ req[r] = Idle /\ left.requests > 0
    /\ left' = [left EXCEPT !.requests = @ - 1]
    /\ req' = [Marked(op, arg) EXCEPT ![r] =
          [Idle EXCEPT !.op = op, !.pc = pc, !.arg = arg, !.pw = pw, !.alive = TRUE,
               !.why = IF \E q \in Requests : Clash(op, arg, req[q]) THEN {"clash"} ELSE {},
               !.fresh = (op = "createUser") /\ db.pw[arg] = None
                            /\ \A s \in db.late : s[2] # arg]]
    /\ UNCHANGED <<tls, db, told>>

BeginIssue(r) == \E d \in Domains : Begin(r, "issue", "clean", d, None)
BeginRenew(r) == Begin(r, "renew", "renew", None, None)
BeginCreateDatabase(r) == Begin(r, "createDatabase", "createDatabase", None, None)
BeginCreateUser(r) == \E u \in Users, pw \in Passwords : Begin(r, "createUser", "createUser", u, pw)

Goto(r, pc) == req' = [req EXCEPT ![r].pc = pc, ![r].running = FALSE]
FailWith(r, pc, cause) ==
    req' = [req EXCEPT ![r].pc = pc, ![r].running = FALSE, ![r].why = @ \cup cause]

\* Mutant of RemoveCheckpoint: the call of RemoveAll is missing.
RemoveCheckpointSkipped(r) ==
    /\ req[r].pc = "clean"
    /\ Goto(r, "certonly")
    /\ UNCHANGED <<tls, db, told, left>>

\* Issue: os.RemoveAll of temp_checkpoint, whoever is using it
RemoveCheckpoint(r) ==
    /\ req[r].pc = "clean"
    /\ tls' = [tls EXCEPT !.checkpoint = FALSE]
    /\ Goto(r, "certonly")
    /\ UNCHANGED <<db, told, left>>

\* Mutant of OnError: an error of install is logged, as one of certonly is.
OnErrorLogged(pc) == CASE pc = "certonly" -> "check" [] pc = "install" -> "ok" [] OTHER -> "error"

\* Issue, Renew, execSQL: where the error of a command leads
OnError(pc) == IF pc = "certonly" THEN "check" ELSE "error"
OnSuccess(pc) == IF pc = "certonly" THEN "install" ELSE "ok"

\* runCommand: exec.CommandContext does not start under a context that has ended
NotStarted(r) ==
    /\ req[r].pc \in CertbotSteps \cup MysqlSteps /\ ~req[r].running /\ ~req[r].alive
    /\ Goto(r, OnError(req[r].pc))
    /\ UNCHANGED <<tls, db, told, left>>

\* certbot (external) refuses to run beside another one, and may refuse to run
\* over a temp_checkpoint that an interrupted run left behind.
CertbotRefuses(r) ==
    /\ req[r].pc \in CertbotSteps /\ ~req[r].running /\ req[r].alive
    /\ tls.certbot # None \/ tls.checkpoint
    /\ Goto(r, OnError(req[r].pc))
    /\ UNCHANGED <<tls, db, told, left>>

CertbotStarts(r) ==
    /\ req[r].pc \in CertbotSteps /\ ~req[r].running /\ req[r].alive
    /\ tls.certbot = None
    /\ tls' = [tls EXCEPT !.certbot = r, !.checkpoint = TRUE]
    /\ req' = [req EXCEPT ![r].running = TRUE]
    /\ UNCHANGED <<db, told, left>>

\* what the command of a step leaves on the host
Effect(t, q) ==
    CASE q.pc = "certonly" -> [t EXCEPT !.cert = @ \cup {q.arg}]
      [] q.pc = "install"  -> [t EXCEPT !.served = @ \cup {q.arg}]
      [] OTHER             -> t

Released(t) == [t EXCEPT !.certbot = None, !.checkpoint = FALSE]

CertbotSucceeds(r) ==
    /\ req[r].pc \in CertbotSteps /\ req[r].running
    /\ tls' = Released(Effect(tls, req[r]))
    /\ Goto(r, OnSuccess(req[r].pc))
    /\ UNCHANGED <<db, told, left>>

\* The CA or nginx -t refuses, or the checkpoint has gone.  A refusal to issue
\* is no reason to fail when there is a certificate.
CertbotFails(r) ==
    /\ req[r].pc \in CertbotSteps /\ req[r].running
    /\ \/ Fault
       \/ ~tls.checkpoint /\ UNCHANGED left
    /\ tls' = Released(tls)
    /\ FailWith(r, OnError(req[r].pc),
                IF req[r].pc = "certonly" /\ req[r].arg \in tls.cert THEN {} ELSE {"refused"})
    /\ UNCHANGED <<db, told>>

\* Issue: an error of certonly counts only if there is no certificate
CertificateExists(r) ==
    /\ req[r].pc = "check"
    /\ Goto(r, IF req[r].arg \in tls.cert THEN "install" ELSE "error")
    /\ UNCHANGED <<tls, db, told, left>>

(********************************** mysql *********************************)

\* Mutant of CreateUserStatement: the account is replaced.
CreateUserStatementReplaces(pw, u, p) == [pw EXCEPT ![u] = p]

\* CREATE USER IF NOT EXISTS
CreateUserStatement(pw, u, p) == IF pw[u] = None THEN [pw EXCEPT ![u] = p] ELSE pw

\* CREATE DATABASE IF NOT EXISTS, or one of the three statements CreateUser joins
Executed(b, pc, u, p) ==
    CASE pc = "createDatabase" -> [b EXCEPT !.made = TRUE]
      [] pc = "createUser" -> [b EXCEPT !.pw = CreateUserStatement(@, u, p)]
      [] pc = "grant" -> [b EXCEPT !.grant = @ \cup {u}]
      [] OTHER -> b

AfterStatement(pc) == CASE pc = "createUser" -> "grant" [] pc = "grant" -> "flush" [] OTHER -> "ok"

Statement(r) ==
    /\ req[r].pc \in MysqlSteps /\ req[r].alive
    /\ db' = Executed(db, req[r].pc, req[r].arg, req[r].pw)
    /\ Goto(r, AfterStatement(req[r].pc))
    /\ UNCHANGED <<tls, told, left>>

\* mysql stops at the first statement the server refuses
StatementFails(r) ==
    /\ req[r].pc \in MysqlSteps /\ req[r].alive
    /\ Fault
    /\ FailWith(r, "error", {"refused"})
    /\ UNCHANGED <<tls, db, told>>

\* the server finishes what a killed client had sent
LateStatement ==
    /\ \E s \in db.late :
         db' = [Executed(db, s[1], s[2], s[3]) EXCEPT !.late = @ \ {s}]
    /\ UNCHANGED <<req, tls, told, left>>

(************************ contexts end, the panel stops *******************)

\* A command that is killed has or has not done its work; certbot's lock goes
\* with it and its checkpoint stays.
Killed(t, r) ==
    IF req[r].running
    THEN {[x EXCEPT !.certbot = None] : x \in {t, Effect(t, req[r])}} ELSE {t}

LateOf(r) ==
    IF req[r].pc \in MysqlSteps \ {"flush"} THEN {<<req[r].pc, req[r].arg, req[r].pw>>} ELSE {}

ContextEnds(r) ==
    /\ req[r].alive
    /\ tls' \in Killed(tls, r)
    /\ \E late \in SUBSET LateOf(r) : db' = [db EXCEPT !.late = @ \cup late]
    /\ req' = [req EXCEPT ![r].alive = FALSE, ![r].why = @ \cup {"context"}, ![r].running = FALSE,
                          ![r].pc = IF req[r].running \/ req[r].pc \in MysqlSteps
                                    THEN OnError(@) ELSE @]
    /\ UNCHANGED told

\* The client goes away (or the read deadline of the server has passed).
ClientGone(r) == Fault /\ ContextEnds(r)

\* Mutant of TimeoutExpires: the commands run without a deadline.
TimeoutExpiresNever(r) == req[r].alive /\ FALSE /\ UNCHANGED vars

\* context.WithTimeout around a command that hangs
TimeoutExpires(r) ==
    /\ req[r].running \/ req[r].pc \in MysqlSteps
    /\ ContextEnds(r)
    /\ UNCHANGED left

\* The service stops (an update, a crash): everything it runs is killed.
PanelStops ==
    /\ Fault
    /\ \E r \in Requests :
         /\ req[r] # Idle
         /\ \A q \in Requests \ {r} : ~req[q].running
         /\ tls' \in Killed(tls, r)
    /\ req' = [r \in Requests |-> Idle]
    /\ \E late \in SUBSET UNION {LateOf(r) : r \in Requests} : db' = [db EXCEPT !.late = @ \cup late]
    /\ UNCHANGED told

\* The worker writes a conf without TLS when a domain is provisioned anew.
ConfRewritten ==
    /\ Fault
    /\ \E d \in Domains :
         /\ tls' = [tls EXCEPT !.served = @ \ {d}]
         /\ req' = [r \in Requests |-> IF req[r].arg = d
                                       THEN [req[r] EXCEPT !.why = @ \cup {"rewritten"}] ELSE req[r]]
    /\ UNCHANGED <<db, told>>

(********************************** answers *******************************)

\* handleIssueSSL, handleRenewSSL, handleCreateDatabaseUser after the call
Answer(r) ==
    /\ req[r].pc \in {"ok", "error"}
    /\ told' = IF req[r].pc = "ok" /\ req[r].op = "createUser"
               THEN told \cup {[user |-> req[r].arg, pw |-> req[r].pw,
                                sure |-> req[r].fresh /\ "clash" \notin req[r].why]}
               ELSE told
    /\ req' = [req EXCEPT ![r] = Idle]
    /\ UNCHANGED <<tls, db, left>>

Handler(r) ==
    \/ RemoveCheckpoint(r) \/ NotStarted(r) \/ CertbotRefuses(r) \/ CertbotStarts(r)
    \/ CertificateExists(r) \/ Answer(r)

Command(r) == CertbotSucceeds(r) \/ CertbotFails(r) \/ Statement(r) \/ StatementFails(r)

Next ==
    \/ \E r \in Requests :
         \/ BeginIssue(r) \/ BeginRenew(r) \/ BeginCreateDatabase(r) \/ BeginCreateUser(r)
         \/ Handler(r) \/ Command(r) \/ ClientGone(r) \/ TimeoutExpires(r)
    \/ LateStatement \/ PanelStops \/ ConfRewritten

\* The handlers run and their timers fire; a command may hang for ever.
Fairness == \A r \in Requests : WF_vars(Handler(r)) /\ WF_vars(TimeoutExpires(r))

Spec == Init /\ [][Next]_vars /\ Fairness

(******************************** properties ******************************)

Answered(r, pc) == req[r].pc = pc /\ req'[r] = Idle

\* An issue answered "ok" has its certificate and serves it, whatever other
\* requests, killed commands and left-overs there were; only a worker that
\* rewrote the conf meanwhile can have undone it.  A database answered as
\* created is there.
OkMeansDone ==
    [][\A r \in Requests : Answered(r, "ok") =>
         /\ req[r].op = "issue" =>
              /\ req[r].arg \in tls.cert
              /\ req[r].arg \in tls.served \/ "rewritten" \in req[r].why
         /\ req[r].op = "createDatabase" => db.made]_vars

\* A retry gets through: issue, CreateDatabase and CreateUser never fail because
\* of what an earlier request left behind, or because their work is done
\* already.  They fail when the CA, nginx or mysql refuses, the context ends, or
\* another request is in the way.  (Renew does not clear the checkpoint.)
FailsForCause ==
    [][\A r \in Requests :
         Answered(r, "error") /\ req[r].op # "renew" => req[r].why \ {"rewritten"} # {}]_vars

\* An account answered as created may use the database for good; with the
\* password of the request where the account was new and no other request for
\* it, running or killed, came between.
AccountStands ==
    \A a \in told : /\ a.user \in db.grant
                    /\ a.sure => db.pw[a.user] = a.pw

\* Every request is answered although certbot and mysql may hang.
Answers == \A r \in Requests : req[r] # Idle ~> req[r] = Idle

=============================================================================
