-------------------------------- MODULE Auth --------------------------------
(***************************************************************************)
(* Accounts and sessions (service/auth, the auth handlers of httpserver    *)
(* and the User and Session methods of the repository) for one account:    *)
(* login, the session check in front of every other request, logout,       *)
(* change of the password, and what a restart makes of them.               *)
(*                                                                         *)
(* A service method calls the repository several times, with bcrypt in     *)
(* between and no lock held, so a hash that was read may be old when it is *)
(* compared.  Each repository call is one step and saves the snapshot;     *)
(* when the save fails memory stays changed and an error is returned.  A   *)
(* password stands for itself and for its hash, a token for itself and its *)
(* SHA-256; tokens are random, so a new one has never been used.           *)
(***************************************************************************)
EXTENDS Naturals

CONSTANTS
  Clients,       \* requests in flight
  Tokens,        \* tokens randomToken can yield
  Passwords,     \* passwords clients try
  Bootstrap,     \* the password in the environment file
  NoUser,        \* no account
  TTL,           \* life of a session, in instants
  Horizon,       \* bound: last instant
  MaxSaveFails,  \* bound: saves that fail
  MaxRestarts    \* bound: restarts of the process

ASSUME AuthAssumption ==
  /\ Bootstrap \in Passwords
  /\ NoUser \notin Passwords
  /\ TTL \in Nat /\ Horizon \in Nat
  /\ MaxSaveFails \in Nat /\ MaxRestarts \in Nat

VARIABLES
  mem,     \* [pw, sess]: the account's password, expiry per token
  disk,    \* the same in the state file
  req,     \* per client: where its request is
  phase,   \* life of the process: starting, serving, ending, closed
  now,     \* time
  bound,   \* [fails, restarts] so far
  issued,  \* history: tokens ever made
  expiry,  \* history: per token, the ExpiresAt that is answered with it
  given,   \* history: tokens answered to a client
  used,    \* history: tokens with which a logout was tried
  ended,   \* history: tokens whose logout was answered with success
  acked    \* history: the password of the last change, if it was answered ok

vars == <<mem, disk, req, phase, now, bound, issued, expiry, given,
          used, ended, acked>>
history == <<issued, expiry, given, used, ended, acked>>

NoSession == Horizon + TTL + 1   \* no entry in Sessions
NoToken == "none"
IdleReq == [pc |-> "idle", try |-> NoUser, hash |-> NoUser, new |-> NoUser,
            token |-> NoToken]
Empty == [pw |-> NoUser, sess |-> [t \in Tokens |-> NoSession]]

Init ==
  /\ mem = Empty /\ disk = Empty
  /\ req = [c \in Clients |-> IdleReq]
  /\ phase = "starting"
  /\ now = 0
  /\ bound = [fails |-> 0, restarts |-> 0]
  /\ issued = {} /\ given = {} /\ used = {} /\ ended = {} /\ acked = NoUser
  /\ expiry = [t \in Tokens |-> NoSession]

-----------------------------------------------------------------------------
(* The repository.                                                           *)

Save(ok) ==
  /\ ok \/ bound.fails < MaxSaveFails
  /\ disk' = IF ok THEN mem' ELSE disk
  /\ bound' = IF ok THEN bound ELSE [bound EXCEPT !.fails = @ + 1]

PutPassword(p, ok) == mem' = [mem EXCEPT !.pw = p] /\ Save(ok)
CreateSession(t, ok) == mem' = [mem EXCEPT !.sess[t] = now + TTL] /\ Save(ok)
DeleteSession(t, ok) == mem' = [mem EXCEPT !.sess[t] = NoSession] /\ Save(ok)
SaveOnly(ok) == UNCHANGED mem /\ Save(ok)
Untouched == UNCHANGED <<mem, disk, bound>>

-----------------------------------------------------------------------------
(* Requests.                                                                 *)

Goto(c, pc) == req' = [req EXCEPT ![c].pc = pc]
Answer(c) == req' = [req EXCEPT ![c] = IdleReq]

\* Login reads the account; without one the answer is 401.
Login(c, p) ==
  /\ phase = "serving" /\ req[c].pc = "idle"
  /\ mem.pw # NoUser
  /\ req' = [req EXCEPT ![c] = [IdleReq EXCEPT !.pc = "verifyLogin", !.try = p,
                                               !.hash = mem.pw]]
  /\ Untouched
  /\ UNCHANGED <<phase, now, history>>

\* password.Verify against the hash that was read; a failed login is audited.
LoginVerify(c) ==
  /\ req[c].pc = "verifyLogin"
  /\ Goto(c, IF req[c].try = req[c].hash THEN "createSession" ELSE "audit")
  /\ Untouched
  /\ UNCHANGED <<phase, now, history>>

\* Mutant of LoginCreateSession: the error of CreateSession is ignored.
LoginCreateSessionUnchecked(c, t) ==
  /\ req[c].pc = "createSession"
  /\ t \notin issued
  /\ issued' = issued \cup {t}
  /\ expiry' = [expiry EXCEPT ![t] = now + TTL]
  /\ \E ok \in BOOLEAN : CreateSession(t, ok)
  /\ req' = [req EXCEPT ![c].pc = "loginAudit", ![c].token = t]
  /\ UNCHANGED <<phase, now, given, used, ended, acked>>

\* randomToken and CreateSession.
LoginCreateSession(c, t) ==
  /\ req[c].pc = "createSession"
  /\ t \notin issued
  /\ issued' = issued \cup {t}
  /\ expiry' = [expiry EXCEPT ![t] = now + TTL]
  /\ \E ok \in BOOLEAN :
       /\ CreateSession(t, ok)
       /\ IF ok THEN req' = [req EXCEPT ![c].pc = "loginAudit", ![c].token = t]
                ELSE Answer(c)
  /\ UNCHANGED <<phase, now, given, used, ended, acked>>

\* The audit entry is recorded (its error only logged) and the token answered.
LoginAnswer(c) ==
  /\ req[c].pc = "loginAudit"
  /\ \E ok \in BOOLEAN : SaveOnly(ok)
  /\ given' = given \cup {req[c].token}
  /\ Answer(c)
  /\ UNCHANGED <<phase, now, issued, expiry, used, ended, acked>>

\* What Authenticate finds out about a token.
Authenticate(t) == CASE mem.sess[t] = NoSession -> "unknown"
                     [] mem.sess[t] < now -> "expired"
                     [] OTHER -> "valid"

\* requireAuth: an unknown token is refused; with a valid one the request goes
\* on, as logout or change of the password (any other request ends here as far
\* as this module goes).  A token nobody was given is never sent.
RequireAuth(c, t, pc) ==
  /\ phase = "serving" /\ req[c].pc = "idle"
  /\ t \in given
  /\ Authenticate(t) # "unknown"
  /\ req' = [req EXCEPT ![c] =
               [IdleReq EXCEPT !.token = t,
                  !.pc = IF Authenticate(t) = "expired" THEN "expired" ELSE pc]]
  /\ Untouched
  /\ UNCHANGED <<phase, now, history>>

\* An expired session is deleted, the error ignored, and the answer is 401.
DropExpired(c) ==
  /\ req[c].pc = "expired"
  /\ \E ok \in BOOLEAN : DeleteSession(req[c].token, ok)
  /\ Answer(c)
  /\ UNCHANGED <<phase, now, history>>

\* Mutant of Logout: the error of DeleteSessionByTokenHash is ignored.
LogoutUnchecked(c) ==
  /\ req[c].pc = "logout"
  /\ used' = used \cup {req[c].token}
  /\ \E ok \in BOOLEAN : DeleteSession(req[c].token, ok)
  /\ Goto(c, "logoutAudit")
  /\ UNCHANGED <<phase, now, issued, expiry, given, ended, acked>>

\* Logout deletes the session; an error is answered as 401.
Logout(c) ==
  /\ req[c].pc = "logout"
  /\ used' = used \cup {req[c].token}
  /\ \E ok \in BOOLEAN :
       /\ DeleteSession(req[c].token, ok)
       /\ IF ok THEN Goto(c, "logoutAudit") ELSE Answer(c)
  /\ UNCHANGED <<phase, now, issued, expiry, given, ended, acked>>

LogoutAnswer(c) ==
  /\ req[c].pc = "logoutAudit"
  /\ \E ok \in BOOLEAN : SaveOnly(ok)
  /\ ended' = ended \cup {req[c].token}
  /\ Answer(c)
  /\ UNCHANGED <<phase, now, issued, expiry, given, used, acked>>

\* ChangePassword reads the account, ...
ChangePassword(c, p, q) ==
  /\ req[c].pc = "readUser"
  /\ IF mem.pw = NoUser THEN Answer(c)
     ELSE req' = [req EXCEPT ![c].pc = "verifyChange", ![c].try = p,
                             ![c].new = q, ![c].hash = mem.pw]
  /\ Untouched
  /\ UNCHANGED <<phase, now, history>>

\* ... compares the current password with the hash it read, ...
ChangeVerify(c) ==
  /\ req[c].pc = "verifyChange"
  /\ IF req[c].try = req[c].hash THEN Goto(c, "update") ELSE Answer(c)
  /\ Untouched
  /\ UNCHANGED <<phase, now, history>>

\* ... and stores the new one, whatever is stored by now.
ChangeUpdate(c) ==
  /\ req[c].pc = "update"
  /\ \E ok \in BOOLEAN :
       /\ PutPassword(req[c].new, ok)
       /\ acked' = IF ok THEN req[c].new ELSE NoUser
       /\ IF ok THEN Goto(c, "audit") ELSE Answer(c)
  /\ UNCHANGED <<phase, now, issued, expiry, given, used, ended>>

\* The audit entry of a password change or of a failed login, which saves the
\* snapshot, and the answer.
AuditAnswer(c) ==
  /\ req[c].pc = "audit"
  /\ \E ok \in BOOLEAN : SaveOnly(ok)
  /\ Answer(c)
  /\ UNCHANGED <<phase, now, history>>

-----------------------------------------------------------------------------
(* The process.                                                              *)

After(ok) == phase' = IF ok THEN "serving" ELSE "ending"

\* Mutant of StartUp: the bootstrap password is set on every start.
StartUpResets ==
  /\ phase = "starting"
  /\ \E ok \in BOOLEAN : PutPassword(Bootstrap, ok) /\ After(ok)
  /\ UNCHANGED <<req, now, history>>

\* Mutant of StartUp: an error of EnsureBootstrapAdmin is only logged.
StartUpUnchecked ==
  /\ phase = "starting"
  /\ After(TRUE)
  /\ \E ok \in BOOLEAN :
       IF mem.pw = NoUser THEN PutPassword(Bootstrap, ok) ELSE SaveOnly(ok)
  /\ UNCHANGED <<req, now, history>>

\* Migrate saves; EnsureBootstrapAdmin creates the account when there is none.
\* An error of either ends App.Run.
StartUp ==
  /\ phase = "starting"
  /\ \E ok \in BOOLEAN :
       /\ IF mem.pw = NoUser THEN PutPassword(Bootstrap, ok) ELSE SaveOnly(ok)
       /\ After(ok)
  /\ UNCHANGED <<req, now, history>>

\* A signal: no new requests; those in flight go on, and some may still do so
\* when the shutdown timeout has passed.
Signal ==
  /\ phase = "serving"
  /\ phase' = "ending"
  /\ Untouched
  /\ UNCHANGED <<req, now, history>>

\* The deferred repo.Close, also after an error of the start-up.
CloseRepo ==
  /\ phase = "ending"
  /\ phase' = "closed"
  /\ \E ok \in BOOLEAN : SaveOnly(ok)
  /\ UNCHANGED <<req, now, history>>

\* The process ends, at any moment; systemd starts it and New loads the file.
Restart ==
  /\ bound.restarts < MaxRestarts
  /\ bound' = [bound EXCEPT !.restarts = @ + 1]
  /\ mem' = disk
  /\ req' = [c \in Clients |-> IdleReq]
  /\ phase' = "starting"
  /\ UNCHANGED <<disk, now, history>>

Tick == now < Horizon /\ now' = now + 1
          /\ UNCHANGED <<mem, disk, req, phase, bound, history>>

Next ==
  \/ \E c \in Clients :
       \/ \E p \in Passwords : Login(c, p)
       \/ LoginVerify(c)
       \/ \E t \in Tokens : LoginCreateSession(c, t)
       \/ LoginAnswer(c)
       \/ \E t \in Tokens, pc \in {"logout", "readUser"} : RequireAuth(c, t, pc)
       \/ DropExpired(c)
       \/ Logout(c)
       \/ LogoutAnswer(c)
       \/ \E p, q \in Passwords : ChangePassword(c, p, q)
       \/ ChangeVerify(c)
       \/ ChangeUpdate(c)
       \/ AuditAnswer(c)
  \/ StartUp
  \/ Signal
  \/ CloseRepo
  \/ Restart
  \/ Tick

Spec == Init /\ [][Next]_vars

-----------------------------------------------------------------------------
(* Properties.                                                               *)

\* A logout that was answered with success is final: the token is in neither
\* memory nor the state file, so no restart and no other request brings the
\* session back.
LogoutIsFinal ==
  \A t \in ended : mem.sess[t] = NoSession /\ disk.sess[t] = NoSession

\* The session of a token is the one that was made for it, in memory and in the
\* state file, up to the instant of its expiry; then that one or none.
Durable(t) ==
  IF now <= expiry[t]
    THEN mem.sess[t] = expiry[t] /\ disk.sess[t] = expiry[t]
    ELSE {mem.sess[t], disk.sess[t]} \subseteq {expiry[t], NoSession}

\* A token that was answered to a client works until the ExpiresAt answered with
\* it, and no longer, unless it is used to log out: neither a crash at any
\* moment, nor a save that fails, nor the deletion of another session or of one
\* found expired takes it away or prolongs it.
TokenDurable == \A t \in given \ used : Durable(t)

\* A password change that was answered with success stands, in memory and in
\* the state file, until the next change: the bootstrap of a later start does
\* not undo it.
PasswordStands ==
  acked # NoUser => mem.pw = acked /\ disk.pw = acked

\* While requests are served there is an account on file: a crash cannot leave
\* the panel without one that was in use.
AdminOnFile == phase = "serving" => mem.pw # NoUser /\ disk.pw # NoUser
=============================================================================
