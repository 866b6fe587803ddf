------------------------- MODULE HostCommandsProofs -------------------------
(***************************************************************************)
(* Proofs about HostCommands: what an answer says of the host is true, and *)
(* an error has a cause, for any number of requests, domains and accounts. *)
(***************************************************************************)
EXTENDS HostCommands, TLAPS

-----------------------------------------------------------------------------
(* The inductive invariant.                                                  *)

Causes == {"clash", "context", "refused", "rewritten"}
Arg == Domains \cup Users \cup {None}

\* Where a request of each kind can be.
StageOf == [issue          |-> {"clean", "certonly", "check", "install", "ok", "error"},
            renew          |-> {"renew", "ok", "error"},
            createDatabase |-> {"createDatabase", "ok", "error"},
            createUser     |-> {"createUser", "grant", "flush", "ok", "error"},
            none           |-> {"idle"}]
Op == {"none", "issue", "renew", "createDatabase", "createUser"}
Stage == {"idle", "clean", "certonly", "check", "install", "renew", "createDatabase",
          "createUser", "grant", "flush", "ok", "error"}

Request == [op : Op, pc : Stage, arg : Arg, pw : Passwords \cup {None}, running : BOOLEAN,
            alive : BOOLEAN, fresh : BOOLEAN, why : SUBSET Causes]
Tls == [cert : SUBSET Arg, served : SUBSET Arg, checkpoint : BOOLEAN,
        certbot : Requests \cup {None}]
Db == [made : BOOLEAN, pw : [Users -> Passwords \cup {None}], grant : SUBSET Arg,
       late : SUBSET (MysqlSteps \X Arg \X (Passwords \cup {None}))]

TypeOK ==
    /\ req \in [Requests -> Request]
    /\ tls \in Tls
    /\ db \in Db
    /\ \A s \in db.late : s[1] = "createUser" => s[2] \in Users /\ s[3] \in Passwords

\* A request is at a step of its kind.
StageSound ==
    \A r \in Requests : /\ req[r].pc \in StageOf[req[r].op]
                        /\ req[r].op = "createUser"
                             => req[r].arg \in Users /\ req[r].pw \in Passwords

\* Who runs certbot holds its lock, and the other way round.
LockSound ==
    /\ \A r \in Requests : req[r].running => tls.certbot = r /\ req[r].pc \in CertbotSteps
    /\ tls.certbot # None => req[tls.certbot].running

\* Requests that get into each other's way know it; so does one whose context
\* has ended.
Known ==
    /\ \A q, r \in Requests :
         q # r /\ Clash(req[q].op, req[q].arg, req[r])
           => "clash" \in req[q].why /\ "clash" \in req[r].why
    /\ \A r \in Requests : req[r].op # "none" /\ ~req[r].alive => "context" \in req[r].why

\* Why an error is answered, beyond a conf that was written anew.
Cause(r) == req[r].why \ {"rewritten"} # {}

\* Where an issue stands says what is on the host; a checkpoint in its way, and
\* a certonly that left no certificate, have a cause.
IssueSound(r) ==
    req[r].op = "issue" =>
        /\ req[r].pc \in {"install", "ok"} => req[r].arg \in tls.cert
        /\ req[r].pc = "ok" => req[r].arg \in tls.served \/ "rewritten" \in req[r].why
        /\ req[r].pc = "check" => Cause(r) \/ req[r].arg \in tls.cert
        /\ (/\ req[r].pc \in {"certonly", "check", "install"}
            /\ tls.checkpoint /\ ~req[r].running)
           => Cause(r)

DatabaseSound(r) == req[r].op = "createDatabase" /\ req[r].pc = "ok" => db.made

ErrorSound(r) == req[r].pc = "error" /\ req[r].op # "renew" => Cause(r)

\* A request that is alone with a new account has it for itself.
UserSound(r) ==
    req[r].op = "createUser" =>
        /\ req[r].pc \in {"flush", "ok"} => req[r].arg \in db.grant
        /\ req[r].fresh /\ "clash" \notin req[r].why =>
             /\ req[r].pc = "createUser" =>
                  /\ db.pw[req[r].arg] = None
                  /\ \A s \in db.late : ~(s[1] = "createUser" /\ s[2] = req[r].arg)
             /\ req[r].pc \in {"grant", "flush", "ok"} => db.pw[req[r].arg] = req[r].pw

RequestSound(r) == IssueSound(r) /\ DatabaseSound(r) /\ ErrorSound(r) /\ UserSound(r)

\* AccountStands, with the types of what was told.
ToldSound ==
    \A a \in told : /\ a.user \in db.grant
                    /\ a.sure => /\ a.user \in Users /\ a.pw \in Passwords
                                 /\ db.pw[a.user] = a.pw

HostInv ==
    /\ TypeOK /\ StageSound
    /\ LockSound
    /\ Known
    /\ \A r \in Requests : RequestSound(r)
    /\ ToldSound

-----------------------------------------------------------------------------
(* A request that moves on.                                                  *)

\* The r-th request moves on: it stays the request it was and forgets no cause;
\* the others do not move.
Moves(r) ==
    /\ \A q \in Requests : q # r => req'[q] = req[q]
    /\ req'[r] \in Request
    /\ req'[r].op = req[r].op /\ req'[r].arg = req[r].arg /\ req'[r].pw = req[r].pw
    /\ req'[r].fresh = req[r].fresh
    /\ req[r].why \subseteq req'[r].why
    /\ req'[r].alive = req[r].alive \/ "context" \in req'[r].why
    /\ req'[r].pc \in StageOf[req[r].op]
    /\ req' \in [Requests -> Request]
    /\ told' = told

\* What a step of request r may do to certificates and confs ...
TlsMoves(r) ==
    /\ tls' \in Tls
    /\ tls.cert \subseteq tls'.cert /\ tls.served \subseteq tls'.served
    /\ tls'.checkpoint => tls.checkpoint \/ req[r].op \in Certbots

\* ... and to the accounts: none is ever changed or dropped.
DbMoves(r) ==
    /\ db' \in Db
    /\ db.made => db'.made
    /\ db.grant \subseteq db'.grant
    /\ \A u \in Users : \/ db'.pw[u] = db.pw[u]
                        \/ /\ db.pw[u] = None
                           /\ req[r].op = "createUser" /\ req[r].arg = u
    /\ \A s \in db'.late : \/ s \in db.late
                           \/ s[1] = "createUser" => req[r].op = "createUser"
                                /\ s[2] = req[r].arg /\ s[3] = req[r].pw

\* Such a step keeps everything but what concerns the request itself and
\* certbot's lock.
LEMMA MoveKeeps ==
  ASSUME HostInv, NEW r \in Requests, Moves(r), TlsMoves(r), DbMoves(r),
         RequestSound(r)', LockSound'
  PROVE  HostInv'
<1> USE NoneIsNoValue DEF HostInv, Moves
<1>1. TypeOK'
  BY DEF TlsMoves, DbMoves, TypeOK, StageSound
<1>2. StageSound'
  BY DEF StageSound
<1>3. Known'
  <2>1. \A q \in Requests : /\ req'[q].op = req[q].op /\ req'[q].arg = req[q].arg
                            /\ req[q].why \subseteq req'[q].why
    OBVIOUS
  <2>2. \A p, q \in Requests : Clash(req'[p].op, req'[p].arg, req'[q])
                                 => Clash(req[p].op, req[p].arg, req[q])
    BY <2>1 DEF Clash
  <2>3. \A p, q \in Requests : p # q /\ Clash(req'[p].op, req'[p].arg, req'[q])
           => "clash" \in req'[p].why /\ "clash" \in req'[q].why
    BY <2>1, <2>2 DEF Known
  <2>4. \A q \in Requests : req'[q].op # "none" /\ ~req'[q].alive
                              => "context" \in req'[q].why
    BY <2>1 DEF Known
  <2> QED BY <2>3, <2>4 DEF Known, Clash
<1>4. ASSUME NEW q \in Requests, q # r
      PROVE  RequestSound(q)'
  <2>1. req'[q] = req[q] /\ req[q] \in Request
    BY <1>4 DEF TypeOK
  <2>2. IssueSound(q)'
    <3>1. req[q].op = "issue" /\ req[r].op \in Certbots => "clash" \in req[q].why
      BY <1>4 DEF Known, Clash, Certbots
    <3>2. "clash" \in req[q].why => Cause(q)
      BY DEF Cause
    <3>3. Cause(q) <=> Cause(q)'
      BY <2>1 DEF Cause
    <3>4. IssueSound(q)
      BY DEF RequestSound
    <3> QED BY <2>1, <3>1, <3>2, <3>3, <3>4 DEF TlsMoves, IssueSound
  <2>3. DatabaseSound(q)' /\ ErrorSound(q)'
    BY <2>1 DEF RequestSound, DatabaseSound, ErrorSound, Cause, DbMoves
  <2>4. UserSound(q)'
    <3> SUFFICES ASSUME req[q].op = "createUser"
                 PROVE  UserSound(q)'
      BY <2>1 DEF UserSound
    <3>1. req[q].arg \in Users /\ req[q].pw # None
      BY DEF StageSound
    <3>2. "clash" \notin req[q].why
            => ~(req[r].op = "createUser" /\ req[r].arg = req[q].arg)
      BY <1>4 DEF Known, Clash
    <3>3. "clash" \notin req[q].why => db'.pw[req[q].arg] = db.pw[req[q].arg]
      BY <3>1, <3>2 DEF DbMoves
    <3>4. UserSound(q)
      BY DEF RequestSound
    <3>5. req[q].pc \in {"flush", "ok"} => req[q].arg \in db'.grant
      BY <3>4 DEF UserSound, DbMoves
    <3>6. req[q].fresh /\ "clash" \notin req[q].why /\ req[q].pc = "createUser" =>
            /\ db'.pw[req[q].arg] = None
            /\ \A s \in db'.late : ~(s[1] = "createUser" /\ s[2] = req[q].arg)
      BY <3>2, <3>3, <3>4 DEF UserSound, DbMoves
    <3>7. req[q].fresh /\ "clash" \notin req[q].why /\ req[q].pc \in {"grant", "flush", "ok"}
            => db'.pw[req[q].arg] = req[q].pw
      BY <3>3, <3>4 DEF UserSound
    <3> QED BY <2>1, <3>5, <3>6, <3>7 DEF UserSound
  <2> QED BY <2>2, <2>3, <2>4 DEF RequestSound
<1>5. ToldSound'
  BY DEF ToldSound, DbMoves
<1> QED BY <1>1, <1>2, <1>3, <1>4, <1>5

\* Every stage of a request is one.
LEMMA StageType == \A op \in Op : StageOf[op] \subseteq Stage
BY DEF Op, StageOf, Stage

\* A request that goes to a step of its kind, with a cause or not, moves on.
LEMMA FailMoves ==
  ASSUME TypeOK, NEW r \in Requests, NEW p \in StageOf[req[r].op], NEW cause \in SUBSET Causes,
         (Goto(r, p) /\ cause = {}) \/ FailWith(r, p, cause), told' = told
  PROVE  /\ Moves(r)
         /\ req'[r].pc = p /\ req'[r].running = FALSE /\ req'[r].alive = req[r].alive
         /\ req'[r].why = req[r].why \cup cause
<1>1. p \in Stage /\ req[r] \in Request
  BY StageType DEF TypeOK, Request
<1>2. req' = [req EXCEPT ![r] = [req[r] EXCEPT !.pc = p, !.running = FALSE,
                                               !.why = req[r].why \cup cause]]
  <2>1. CASE Goto(r, p) /\ cause = {}
    <3>1. req[r].why \cup cause = req[r].why
      BY <2>1
    <3>2. [req[r] EXCEPT !.pc = p, !.running = FALSE]
            = [req[r] EXCEPT !.pc = p, !.running = FALSE, !.why = req[r].why \cup cause]
      BY <1>1, <3>1 DEF Request
    <3> QED BY <2>1, <3>2 DEF Goto
  <2>2. CASE FailWith(r, p, cause)
    BY <2>2 DEF FailWith
  <2> QED BY <2>1, <2>2
<1>3. req'[r] = [req[r] EXCEPT !.pc = p, !.running = FALSE, !.why = req[r].why \cup cause]
  BY <1>2 DEF TypeOK
<1>4. req'[r] \in Request
  BY <1>1, <1>3 DEF Request
<1>5. req' \in [Requests -> Request] /\ \A q \in Requests : q # r => req'[q] = req[q]
  BY <1>2, <1>3, <1>4 DEF TypeOK
<1>6. /\ req'[r].pc = p /\ req'[r].running = FALSE /\ req'[r].alive = req[r].alive
      /\ req'[r].why = req[r].why \cup cause /\ req'[r].op = req[r].op
      /\ req'[r].arg = req[r].arg /\ req'[r].pw = req[r].pw /\ req'[r].fresh = req[r].fresh
  BY <1>1, <1>3 DEF Request
<1> QED BY <1>4, <1>5, <1>6 DEF Moves

\* (Without a cause.)
LEMMA GotoMoves ==
  ASSUME TypeOK, NEW r \in Requests, NEW p \in StageOf[req[r].op], Goto(r, p), told' = told
  PROVE  /\ Moves(r)
         /\ req'[r].pc = p /\ req'[r].running = FALSE /\ req'[r].alive = req[r].alive
         /\ req'[r].why = req[r].why
<1>1. {} \in SUBSET Causes /\ req[r].why \cup {} = req[r].why
  OBVIOUS
<1>2. /\ Moves(r)
      /\ req'[r].pc = p /\ req'[r].running = FALSE /\ req'[r].alive = req[r].alive
      /\ req'[r].why = req[r].why \cup {}
  BY <1>1, FailMoves
<1> QED BY <1>1, <1>2

\* A step that leaves tls, or db, alone does nothing wrong to it.
LEMMA HostQuiet ==
  ASSUME TypeOK, NEW r \in Requests
  PROVE  (tls' = tls => TlsMoves(r)) /\ (db' = db => DbMoves(r))
BY DEF TypeOK, TlsMoves, DbMoves

\* The lock of certbot when it is not touched, and when it is released.
LEMMA LockQuiet ==
  ASSUME HostInv, NEW r \in Requests, Moves(r), ~req[r].running, ~req'[r].running,
         tls'.certbot = tls.certbot
  PROVE  LockSound'
BY NoneIsNoValue DEF HostInv, LockSound, Moves, TypeOK, Tls

\* (The lock when it is released.)
LEMMA LockReleased ==
  ASSUME HostInv, NEW r \in Requests, Moves(r), req[r].running, ~req'[r].running,
         tls'.certbot = None
  PROVE  LockSound'
BY NoneIsNoValue DEF HostInv, LockSound, Moves, TypeOK, Tls

\* Steps of a handler between two commands.
LEMMA HandlerKeeps ==
  ASSUME HostInv, NEW r \in Requests,
         RemoveCheckpoint(r) \/ NotStarted(r) \/ CertbotRefuses(r) \/ CertificateExists(r)
  PROVE  HostInv'
<1> USE DEF HostInv
<1>0. /\ req[r] \in Request /\ req[r].op \in Op /\ req[r].pc \in StageOf[req[r].op]
      /\ RequestSound(r)
  BY DEF TypeOK, Request, StageSound
<1>1. told' = told /\ db' = db
  BY DEF RemoveCheckpoint, NotStarted, CertbotRefuses, CertificateExists
<1>2. ASSUME NEW p \in StageOf[req[r].op], Goto(r, p), RequestSound(r)', TlsMoves(r),
             ~req[r].running, tls'.certbot = tls.certbot
      PROVE  HostInv'
  BY <1>1, <1>2, GotoMoves, HostQuiet, LockQuiet, MoveKeeps
<1>3. CASE RemoveCheckpoint(r)
  <2>1. /\ req[r].op = "issue" /\ req[r].pc = "clean" /\ ~req[r].running
        /\ "certonly" \in StageOf[req[r].op] /\ Goto(r, "certonly")
    BY <1>0, <1>3 DEF RemoveCheckpoint, StageOf, Op, LockSound, CertbotSteps
  <2>2. /\ tls' \in Tls /\ tls'.checkpoint = FALSE /\ tls'.certbot = tls.certbot
        /\ tls'.cert = tls.cert /\ tls'.served = tls.served
    BY <1>3 DEF RemoveCheckpoint, TypeOK, Tls
  <2>3. TlsMoves(r)
    BY <2>2 DEF TlsMoves
  <2>4. RequestSound(r)'
    BY <1>1, <2>1, <2>2, GotoMoves DEF Moves, RequestSound, IssueSound, DatabaseSound,
         ErrorSound, UserSound
  <2> QED BY <1>2, <2>1, <2>2, <2>3, <2>4
<1>4. CASE NotStarted(r)
  <2>1. /\ tls' = tls /\ ~req[r].running /\ ~req[r].alive
        /\ req[r].pc \in CertbotSteps \cup MysqlSteps /\ Goto(r, OnError(req[r].pc))
    BY <1>4 DEF NotStarted
  <2>2. /\ OnError(req[r].pc) \in StageOf[req[r].op]
        /\ OnError(req[r].pc) \in {"check", "error"}
        /\ OnError(req[r].pc) = "check" => req[r].op = "issue"
        /\ req[r].op # "none"
    BY <1>0, <2>1 DEF OnError, StageOf, Op, CertbotSteps, MysqlSteps
  <2>3. "context" \in req[r].why
    BY <2>1, <2>2 DEF Known
  <2>4. Moves(r) /\ req'[r].pc = OnError(req[r].pc) /\ req'[r].why = req[r].why
    BY <1>1, <2>1, <2>2, GotoMoves
  <2>5. Cause(r)'
    BY <2>3, <2>4 DEF Cause
  <2>6. RequestSound(r)'
    BY <2>2, <2>4, <2>5 DEF Moves, RequestSound, IssueSound, DatabaseSound, ErrorSound,
         UserSound
  <2> QED BY <1>2, <2>1, <2>2, <2>6, HostQuiet
<1>5. CASE CertbotRefuses(r)
  <2>1. /\ tls' = tls /\ ~req[r].running
        /\ tls.certbot # None \/ tls.checkpoint
        /\ req[r].pc \in CertbotSteps /\ Goto(r, OnError(req[r].pc))
    BY <1>5 DEF CertbotRefuses
  <2>2. /\ OnError(req[r].pc) \in StageOf[req[r].op]
        /\ OnError(req[r].pc) \in {"check", "error"}
        /\ req[r].op \in Certbots
        /\ req[r].op = "issue" => req[r].pc \in {"certonly", "install"}
        /\ OnError(req[r].pc) = "check" => req[r].op = "issue"
    BY <1>0, <2>1 DEF OnError, StageOf, Op, CertbotSteps, Certbots
  <2>3. Moves(r) /\ req'[r].pc = OnError(req[r].pc) /\ req'[r].why = req[r].why
    BY <1>1, <2>1, <2>2, GotoMoves
  <2>4. req[r].op = "issue" => Cause(r)
    <3>1. CASE tls.checkpoint
      BY <1>0, <2>1, <2>2, <3>1 DEF RequestSound, IssueSound
    <3>2. CASE tls.certbot # None
      <4>1. PICK q \in Requests : tls.certbot = q
        BY <3>2 DEF TypeOK, Tls
      <4>2. req[q].running /\ req[q].pc \in CertbotSteps /\ q # r
        BY <2>1, <3>2, <4>1 DEF LockSound
      <4>3. req[q].op \in Certbots
        BY <4>2 DEF TypeOK, StageSound, Request, StageOf, Op, CertbotSteps, Certbots
      <4>4. "clash" \in req[r].why
        BY <2>2, <4>2, <4>3 DEF Known, Clash
      <4> QED BY <4>4 DEF Cause
    <3> QED BY <2>1, <3>1, <3>2
  <2>5. Cause(r) => Cause(r)'
    BY <2>3 DEF Cause
  <2>6. req[r].op \in {"issue", "renew"}
    BY <2>2 DEF Certbots
  <2>7. RequestSound(r)'
    BY <2>2, <2>3, <2>4, <2>5, <2>6 DEF Moves, RequestSound, IssueSound, DatabaseSound,
         ErrorSound, UserSound
  <2> QED BY <1>2, <2>1, <2>2, <2>7, HostQuiet
<1>6. CASE CertificateExists(r)
  <2> DEFINE p == IF req[r].arg \in tls.cert THEN "install" ELSE "error"
  <2>1. /\ tls' = tls /\ req[r].pc = "check" /\ Goto(r, p)
    BY <1>6 DEF CertificateExists
  <2>2. req[r].op = "issue" /\ p \in StageOf[req[r].op] /\ ~req[r].running
    BY <1>0, <2>1 DEF StageOf, Op, LockSound, CertbotSteps
  <2>3. Moves(r) /\ req'[r].pc = p /\ req'[r].why = req[r].why
    BY <1>1, <2>1, <2>2, GotoMoves
  <2>4. Cause(r) => Cause(r)'
    BY <2>3 DEF Cause
  <2>5. RequestSound(r)'
    BY <1>0, <2>1, <2>2, <2>3, <2>4 DEF Moves, RequestSound, IssueSound, DatabaseSound,
         ErrorSound, UserSound
  <2> QED BY <1>2, <2>1, <2>2, <2>5, HostQuiet
<1> QED BY <1>3, <1>4, <1>5, <1>6

\* What the effect of a command on the host is.
LEMMA EffectMoves ==
  ASSUME HostInv, NEW r \in Requests, req[r].pc \in CertbotSteps
  PROVE  /\ Effect(tls, req[r]) \in Tls
         /\ Effect(tls, req[r]).cert
              = IF req[r].pc = "certonly" THEN tls.cert \cup {req[r].arg} ELSE tls.cert
         /\ Effect(tls, req[r]).served
              = IF req[r].pc = "install" THEN tls.served \cup {req[r].arg} ELSE tls.served
         /\ Effect(tls, req[r]).checkpoint = tls.checkpoint
         /\ Effect(tls, req[r]).certbot = tls.certbot
<1>1. tls \in Tls /\ req[r].arg \in Arg
  BY DEF HostInv, TypeOK, Request
<1>2. CASE req[r].pc = "certonly"
  BY <1>1, <1>2 DEF Effect, Tls
<1>3. CASE req[r].pc = "install"
  BY <1>1, <1>3 DEF Effect, Tls
<1>4. CASE req[r].pc = "renew"
  BY <1>1, <1>4 DEF Effect, Tls
<1> QED BY <1>2, <1>3, <1>4 DEF CertbotSteps

\* certbot starts, succeeds and fails.
LEMMA CertbotKeeps ==
  ASSUME HostInv, NEW r \in Requests,
         CertbotStarts(r) \/ CertbotSucceeds(r) \/ CertbotFails(r)
  PROVE  HostInv'
<1> USE DEF HostInv
<1>0. /\ req[r] \in Request /\ req[r].op \in Op /\ req[r].pc \in StageOf[req[r].op]
      /\ RequestSound(r) /\ tls \in Tls
  BY DEF TypeOK, Request, StageSound
<1>1. told' = told /\ db' = db /\ DbMoves(r) /\ req[r].pc \in CertbotSteps
  BY HostQuiet DEF CertbotStarts, CertbotSucceeds, CertbotFails
<1>2. /\ req[r].op \in {"issue", "renew"} /\ req[r].op \in Certbots
      /\ req[r].op = "issue" <=> req[r].pc \in {"certonly", "install"}
  BY <1>0, <1>1 DEF StageOf, Op, CertbotSteps, Certbots
<1>3. CASE CertbotStarts(r)
  <2>1. /\ req' = [req EXCEPT ![r] = [req[r] EXCEPT !.running = TRUE]]
        /\ tls' = [tls EXCEPT !.certbot = r, !.checkpoint = TRUE]
        /\ tls.certbot = None
    BY <1>3 DEF CertbotStarts
  <2>2. /\ req'[r] = [req[r] EXCEPT !.running = TRUE] /\ req'[r] \in Request
        /\ \A q \in Requests : q # r => req'[q] = req[q]
        /\ req' \in [Requests -> Request]
    BY <1>0, <2>1 DEF TypeOK, Request
  <2>3. Moves(r) /\ req'[r].running /\ req'[r].pc = req[r].pc /\ req'[r].why = req[r].why
    BY <1>0, <1>1, <2>2 DEF Moves, Request
  <2>4. TlsMoves(r) /\ tls'.certbot = r /\ tls'.cert = tls.cert
    BY <1>0, <1>2, <2>1 DEF TlsMoves, Tls
  <2>5. LockSound'
    BY <1>1, <2>1, <2>2, <2>3, <2>4, NoneIsNoValue DEF LockSound
  <2>6. RequestSound(r)'
    BY <1>0, <1>1, <1>2, <2>3, <2>4 DEF Moves, RequestSound, IssueSound, DatabaseSound,
         ErrorSound, UserSound, CertbotSteps
  <2> QED BY <1>1, <2>3, <2>4, <2>5, <2>6, MoveKeeps
<1>4. CASE CertbotSucceeds(r)
  <2>1. /\ req[r].running /\ Goto(r, OnSuccess(req[r].pc))
        /\ tls' = Released(Effect(tls, req[r]))
    BY <1>4 DEF CertbotSucceeds
  <2>2. /\ OnSuccess(req[r].pc) \in StageOf[req[r].op]
        /\ OnSuccess(req[r].pc) = IF req[r].pc = "certonly" THEN "install" ELSE "ok"
    BY <1>0, <1>1 DEF OnSuccess, StageOf, Op, CertbotSteps
  <2>3. /\ Moves(r) /\ req'[r].pc = OnSuccess(req[r].pc)
        /\ ~req'[r].running /\ req'[r].why = req[r].why
    BY <1>1, <2>1, <2>2, GotoMoves
  <2>4. /\ tls' \in Tls /\ tls'.certbot = None /\ tls'.checkpoint = FALSE
        /\ tls'.cert = IF req[r].pc = "certonly" THEN tls.cert \cup {req[r].arg} ELSE tls.cert
        /\ tls'.served = IF req[r].pc = "install" THEN tls.served \cup {req[r].arg}
                         ELSE tls.served
    <3> DEFINE e == Effect(tls, req[r])
    <3>1. /\ e \in Tls
          /\ e.cert = IF req[r].pc = "certonly" THEN tls.cert \cup {req[r].arg} ELSE tls.cert
          /\ e.served = IF req[r].pc = "install" THEN tls.served \cup {req[r].arg}
                        ELSE tls.served
      BY <1>1, EffectMoves
    <3>2. tls' = [e EXCEPT !.certbot = None, !.checkpoint = FALSE]
      BY <2>1 DEF Released
    <3> HIDE DEF e
    <3> QED BY <3>1, <3>2 DEF Tls
  <2>5. TlsMoves(r)
    BY <2>4 DEF TlsMoves
  <2>6. LockSound'
    BY <2>1, <2>3, <2>4, LockReleased
  <2>7. RequestSound(r)'
    BY <1>0, <1>1, <1>2, <2>2, <2>3, <2>4 DEF Moves, RequestSound, IssueSound,
         DatabaseSound, ErrorSound, UserSound, CertbotSteps
  <2> QED BY <1>1, <2>3, <2>5, <2>6, <2>7, MoveKeeps
<1>5. CASE CertbotFails(r)
  <2> DEFINE cause == IF req[r].pc = "certonly" /\ req[r].arg \in tls.cert
                      THEN {} ELSE {"refused"}
  <2>1. /\ req[r].running /\ FailWith(r, OnError(req[r].pc), cause)
        /\ tls' = Released(tls) /\ cause \in SUBSET Causes
    BY <1>5 DEF CertbotFails, Causes
  <2>2. /\ OnError(req[r].pc) \in StageOf[req[r].op]
        /\ OnError(req[r].pc) = IF req[r].pc = "certonly" THEN "check" ELSE "error"
    BY <1>0, <1>1 DEF OnError, StageOf, Op, CertbotSteps
  <2>3. /\ Moves(r) /\ req'[r].pc = OnError(req[r].pc)
        /\ ~req'[r].running /\ req'[r].why = req[r].why \cup cause
    <3> HIDE DEF cause
    <3> QED BY <1>1, <2>1, <2>2, FailMoves
  <2>4. /\ tls' \in Tls /\ tls'.certbot = None /\ tls'.checkpoint = FALSE
        /\ tls'.cert = tls.cert /\ tls'.served = tls.served
    BY <1>0, <2>1 DEF Released, Tls
  <2>5. TlsMoves(r)
    BY <2>4 DEF TlsMoves
  <2>6. LockSound'
    BY <2>1, <2>3, <2>4, LockReleased
  <2>7. Cause(r)' \/ (req[r].pc = "certonly" /\ req[r].arg \in tls.cert)
    BY <2>3 DEF Cause
  <2>8. RequestSound(r)'
    BY <1>0, <1>1, <1>2, <2>2, <2>3, <2>4, <2>7 DEF Moves, RequestSound, IssueSound,
         DatabaseSound, ErrorSound, UserSound, CertbotSteps
  <2> QED BY <1>1, <2>3, <2>5, <2>6, <2>8, MoveKeeps
<1> QED BY <1>3, <1>4, <1>5
\* What a statement makes of the server, wherever it comes from.
Effects(b, pc, u, p) ==
    /\ b \in Db /\ b.late = db.late
    /\ db.made => b.made
    /\ pc = "createDatabase" => b.made
    /\ b.grant = IF pc = "grant" THEN db.grant \cup {u} ELSE db.grant
    /\ \A v \in Users : b.pw[v] = IF pc = "createUser" /\ v = u /\ db.pw[u] = None
                                  THEN p ELSE db.pw[v]

\* It does just that.
LEMMA ExecutedEffect ==
  ASSUME db \in Db, NEW pc \in MysqlSteps, NEW u \in Arg, NEW p \in Passwords \cup {None},
         pc = "createUser" => u \in Users /\ p \in Passwords
  PROVE  Effects(Executed(db, pc, u, p), pc, u, p)
<1> USE DEF Effects
<1>2. CASE pc = "createDatabase"
  BY <1>2 DEF Executed, Db
<1>3. CASE pc = "createUser"
  <2> DEFINE w == CreateUserStatement(db.pw, u, p)
  <2>1. /\ w \in [Users -> Passwords \cup {None}]
        /\ \A v \in Users : w[v] = IF v = u /\ db.pw[u] = None THEN p ELSE db.pw[v]
    BY <1>3 DEF CreateUserStatement, Db
  <2>2. Executed(db, pc, u, p) = [db EXCEPT !.pw = w]
    BY <1>3 DEF Executed
  <2> HIDE DEF w
  <2> QED BY <1>3, <2>1, <2>2 DEF Db
<1>4. CASE pc = "grant"
  BY <1>4 DEF Executed, Db
<1>5. CASE pc = "flush"
  BY <1>5 DEF Executed, Db
<1> QED BY <1>2, <1>3, <1>4, <1>5 DEF MysqlSteps

\* A statement is executed, or refused.
LEMMA StatementKeeps ==
  ASSUME HostInv, NEW r \in Requests, Statement(r) \/ StatementFails(r)
  PROVE  HostInv'
<1> USE DEF HostInv
<1>0. /\ req[r] \in Request /\ req[r].op \in Op /\ req[r].pc \in StageOf[req[r].op]
      /\ RequestSound(r) /\ tls \in Tls /\ req[r].arg \in Arg
      /\ req[r].pw \in Passwords \cup {None}
      /\ req[r].op = "createUser" => req[r].arg \in Users /\ req[r].pw \in Passwords
  BY DEF TypeOK, Request, StageSound
<1>1. told' = told /\ tls' = tls /\ TlsMoves(r) /\ req[r].pc \in MysqlSteps
  BY HostQuiet DEF Statement, StatementFails
<1>2. /\ ~req[r].running
      /\ req[r].op \in {"createDatabase", "createUser"}
      /\ req[r].op = "createDatabase" <=> req[r].pc = "createDatabase"
      /\ "error" \in StageOf[req[r].op] /\ AfterStatement(req[r].pc) \in StageOf[req[r].op]
  BY <1>0, <1>1 DEF StageOf, Op, CertbotSteps, MysqlSteps, LockSound, AfterStatement
<1>3. CASE Statement(r)
  <2> DEFINE b == Executed(db, req[r].pc, req[r].arg, req[r].pw)
  <2>1. db' = b /\ Goto(r, AfterStatement(req[r].pc))
    BY <1>3 DEF Statement
  <2>2. /\ b \in Db /\ b.late = db.late
        /\ db.made => b.made
        /\ req[r].pc = "createDatabase" => b.made
        /\ b.grant = IF req[r].pc = "grant" THEN db.grant \cup {req[r].arg} ELSE db.grant
        /\ \A v \in Users :
             b.pw[v] = IF req[r].pc = "createUser" /\ v = req[r].arg
                            /\ db.pw[req[r].arg] = None
                       THEN req[r].pw ELSE db.pw[v]
    <3>1. db \in Db /\ (req[r].pc = "createUser" => req[r].op = "createUser")
      BY <1>2 DEF TypeOK
    <3>2. Effects(b, req[r].pc, req[r].arg, req[r].pw)
      BY <1>0, <1>1, <3>1, ExecutedEffect
    <3> QED BY <3>2 DEF Effects
  <2> HIDE DEF b
  <2>3. DbMoves(r)
    BY <1>2, <2>1, <2>2 DEF DbMoves
  <2>4. /\ Moves(r) /\ req'[r].pc = AfterStatement(req[r].pc)
        /\ ~req'[r].running /\ req'[r].why = req[r].why
    BY <1>1, <1>2, <2>1, GotoMoves
  <2>5. LockSound'
    BY <1>1, <1>2, <2>4, LockQuiet
  <2>6. AfterStatement(req[r].pc) = CASE req[r].pc = "createUser" -> "grant"
                                      [] req[r].pc = "grant" -> "flush" [] OTHER -> "ok"
    BY DEF AfterStatement
  <2>7. UserSound(r)'
    <3> SUFFICES ASSUME req[r].op = "createUser"
                 PROVE  UserSound(r)'
      BY <2>4 DEF Moves, UserSound
    <3>1. req[r].pc \in {"createUser", "grant", "flush"}
      BY <1>1, <1>2 DEF MysqlSteps
    <3>2. UserSound(r)
      BY <1>0 DEF RequestSound
    <3> QED BY <1>0, <2>1, <2>2, <2>4, <2>6, <3>1, <3>2, NoneIsNoValue DEF Moves, UserSound
  <2>8. IssueSound(r)' /\ DatabaseSound(r)' /\ ErrorSound(r)'
    BY <1>1, <1>2, <2>1, <2>2, <2>4, <2>6 DEF Moves, IssueSound, DatabaseSound, ErrorSound,
         MysqlSteps
  <2> QED BY <1>1, <2>3, <2>4, <2>5, <2>7, <2>8, MoveKeeps DEF RequestSound
<1>4. CASE StatementFails(r)
  <2>1. db' = db /\ FailWith(r, "error", {"refused"}) /\ {"refused"} \in SUBSET Causes
    BY <1>4 DEF StatementFails, Causes
  <2>2. /\ Moves(r) /\ req'[r].pc = "error"
        /\ ~req'[r].running /\ req'[r].why = req[r].why \cup {"refused"}
    BY <1>1, <1>2, <2>1, FailMoves
  <2>3. LockSound'
    BY <1>1, <1>2, <2>2, LockQuiet
  <2>4. Cause(r)'
    BY <2>2 DEF Cause
  <2>5. RequestSound(r)'
    BY <1>2, <2>2, <2>4 DEF Moves, RequestSound, IssueSound, DatabaseSound, ErrorSound,
         UserSound
  <2> QED BY <1>1, <2>1, <2>2, <2>3, <2>5, MoveKeeps, HostQuiet
<1> QED BY <1>3, <1>4

\* What is left to the server of a killed client is of its request.
LEMMA LateType ==
  ASSUME HostInv, NEW r \in Requests, NEW s \in LateOf(r)
  PROVE  /\ s \in MysqlSteps \X Arg \X (Passwords \cup {None})
         /\ s[1] = "createUser" => /\ req[r].op = "createUser" /\ s[2] = req[r].arg
                                   /\ s[3] = req[r].pw
                                   /\ s[2] \in Users /\ s[3] \in Passwords
<1>1. /\ req[r] \in Request /\ req[r].op \in Op /\ req[r].pc \in StageOf[req[r].op]
      /\ req[r].arg \in Arg /\ req[r].pw \in Passwords \cup {None}
      /\ req[r].op = "createUser" => req[r].arg \in Users /\ req[r].pw \in Passwords
  BY DEF HostInv, TypeOK, Request, StageSound
<1>2. req[r].pc \in MysqlSteps /\ s = <<req[r].pc, req[r].arg, req[r].pw>>
  BY DEF LateOf
<1>3. req[r].pc = "createUser" => req[r].op = "createUser"
  BY <1>1 DEF StageOf, Op
<1> QED BY <1>1, <1>2, <1>3

\* A killed command has or has not had its effect, and lets go of the lock.
LEMMA KilledEffect ==
  ASSUME HostInv, NEW r \in Requests, NEW t \in Killed(tls, r)
  PROVE  /\ t \in Tls /\ t.checkpoint = tls.checkpoint
         /\ tls.cert \subseteq t.cert /\ tls.served \subseteq t.served
         /\ t.certbot = IF req[r].running THEN None ELSE tls.certbot
<1>1. tls \in Tls
  BY DEF HostInv, TypeOK
<1>2. CASE ~req[r].running
  BY <1>1, <1>2 DEF Killed
<1>3. CASE req[r].running
  <2>1. req[r].pc \in CertbotSteps
    BY <1>3 DEF HostInv, LockSound
  <2>2. PICK x \in {tls, Effect(tls, req[r])} : t = [x EXCEPT !.certbot = None]
    BY <1>3 DEF Killed
  <2>3. /\ x \in Tls /\ x.checkpoint = tls.checkpoint
        /\ tls.cert \subseteq x.cert /\ tls.served \subseteq x.served
    BY <1>1, <2>1, <2>2, EffectMoves
  <2> QED BY <1>3, <2>2, <2>3 DEF Tls
<1> QED BY <1>2, <1>3

\* A context ends, with the command that runs under it.
LEMMA ContextKeeps ==
  ASSUME HostInv, NEW r \in Requests, ContextEnds(r)
  PROVE  HostInv'
<1> USE DEF HostInv
<1> DEFINE p == IF req[r].running \/ req[r].pc \in MysqlSteps
                THEN OnError(req[r].pc) ELSE req[r].pc
<1>0. /\ req[r] \in Request /\ req[r].op \in Op /\ req[r].pc \in StageOf[req[r].op]
      /\ RequestSound(r) /\ tls \in Tls /\ db \in Db
      /\ req[r].running => req[r].pc \in CertbotSteps
  BY DEF TypeOK, Request, StageSound, LockSound
<1>1. /\ told' = told /\ tls' \in Killed(tls, r)
      /\ req' = [req EXCEPT ![r] = [req[r] EXCEPT !.alive = FALSE,
                   !.why = req[r].why \cup {"context"}, !.running = FALSE, !.pc = p]]
  BY DEF ContextEnds
<1>2. /\ p \in StageOf[req[r].op] /\ p \in Stage
      /\ p = req[r].pc \/ p \in {"check", "error"}
      /\ p = "createUser" => FALSE
      /\ req[r].pc \in MysqlSteps => p = "error"
  <2>1. p \in StageOf[req[r].op]
    BY <1>0 DEF OnError, StageOf, Op, CertbotSteps, MysqlSteps
  <2>2. p = req[r].pc \/ p \in {"check", "error"}
    BY DEF OnError
  <2>3. req[r].pc \in MysqlSteps => p = "error"
    BY DEF OnError, MysqlSteps
  <2>4. p # "createUser"
    BY <2>2, <2>3 DEF MysqlSteps
  <2> QED BY <1>0, <2>1, <2>2, <2>3, <2>4, StageType
<1> HIDE DEF p
<1>3. /\ req'[r] = [req[r] EXCEPT !.alive = FALSE, !.why = req[r].why \cup {"context"},
                                  !.running = FALSE, !.pc = p]
      /\ \A q \in Requests : q # r => req'[q] = req[q]
  BY <1>1 DEF TypeOK
<1>4. /\ req'[r] \in Request /\ req'[r].pc = p /\ req'[r].running = FALSE
      /\ req'[r].why = req[r].why \cup {"context"} /\ req'[r].op = req[r].op
      /\ req'[r].arg = req[r].arg /\ req'[r].pw = req[r].pw /\ req'[r].fresh = req[r].fresh
  BY <1>0, <1>2, <1>3 DEF Request, Causes
<1>5. req' \in [Requests -> Request]
  BY <1>1, <1>3, <1>4 DEF TypeOK
<1>6. Moves(r)
  BY <1>1, <1>2, <1>3, <1>4, <1>5 DEF Moves
<1>7. TlsMoves(r) /\ tls'.certbot = IF req[r].running THEN None ELSE tls.certbot
  BY <1>1, KilledEffect DEF TlsMoves
<1>8. DbMoves(r) /\ db'.pw = db.pw /\ db'.grant = db.grant /\ db'.made = db.made
  <2>1. PICK late \in SUBSET LateOf(r) : db' = [db EXCEPT !.late = db.late \cup late]
    BY DEF ContextEnds
  <2>2. \A s \in late : /\ s \in MysqlSteps \X Arg \X (Passwords \cup {None})
                        /\ s[1] = "createUser" => /\ req[r].op = "createUser"
                                                  /\ s[2] = req[r].arg /\ s[3] = req[r].pw
    BY LateType
  <2>3. db' \in Db /\ db'.late = db.late \cup late /\ db'.pw = db.pw
        /\ db'.grant = db.grant /\ db'.made = db.made
    BY <1>0, <2>1, <2>2 DEF Db
  <2> QED BY <2>2, <2>3 DEF DbMoves
<1>9. LockSound'
  BY <1>4, <1>6, <1>7, LockQuiet, LockReleased
<1>10. Cause(r)'
  BY <1>4 DEF Cause
<1>11. RequestSound(r)'
  <2>1. IssueSound(r)'
    BY <1>0, <1>2, <1>4, <1>7, <1>10 DEF RequestSound, IssueSound, TlsMoves
  <2>2. DatabaseSound(r)' /\ ErrorSound(r)'
    BY <1>0, <1>2, <1>4, <1>8, <1>10 DEF RequestSound, DatabaseSound, ErrorSound
  <2>3. UserSound(r)'
    BY <1>0, <1>2, <1>4, <1>8 DEF RequestSound, UserSound, MysqlSteps
  <2> QED BY <2>1, <2>2, <2>3 DEF RequestSound
<1> QED BY <1>6, <1>7, <1>8, <1>9, <1>11, MoveKeeps
-----------------------------------------------------------------------------
(* The other steps.                                                          *)

\* The server finishes a statement of a killed client: only of a request that
\* is over or not alone.
LEMMA LateKeeps ==
  ASSUME HostInv, LateStatement
  PROVE  HostInv'
<1> USE DEF HostInv
<1>1. PICK s \in db.late : db' = [Executed(db, s[1], s[2], s[3]) EXCEPT !.late = @ \ {s}]
  BY DEF LateStatement
<1>2. req' = req /\ tls' = tls /\ told' = told
  BY DEF LateStatement
<1>3. /\ db \in Db /\ s[1] \in MysqlSteps /\ s[2] \in Arg /\ s[3] \in Passwords \cup {None}
      /\ s[1] = "createUser" => s[2] \in Users /\ s[3] \in Passwords
  BY DEF TypeOK, Db
<1> DEFINE b == Executed(db, s[1], s[2], s[3])
<1>4. Effects(b, s[1], s[2], s[3])
  BY <1>3, ExecutedEffect
<1>5. db' = [b EXCEPT !.late = b.late \ {s}]
  BY <1>1
<1> HIDE DEF b
<1>6. /\ db' \in Db /\ db'.late \subseteq db.late /\ (db.made => db'.made)
      /\ db.grant \subseteq db'.grant
      /\ \A v \in Users : \/ db'.pw[v] = db.pw[v]
                          \/ db.pw[v] = None /\ s[1] = "createUser" /\ s[2] = v
  <2>1. b \in Db
    BY <1>4 DEF Effects
  <2>2. /\ db' \in Db /\ db'.late = b.late \ {s} /\ db'.made = b.made
        /\ db'.grant = b.grant /\ db'.pw = b.pw
    BY <1>5, <2>1 DEF Db
  <2>3. b.late = db.late /\ (db.made => b.made)
    BY <1>4 DEF Effects
  <2>4. db.grant \subseteq b.grant
    BY <1>4 DEF Effects
  <2>5. \A v \in Users : \/ b.pw[v] = db.pw[v]
                         \/ db.pw[v] = None /\ s[1] = "createUser" /\ s[2] = v
    <3> SUFFICES ASSUME NEW v \in Users, b.pw[v] # db.pw[v]
                 PROVE  db.pw[v] = None /\ s[1] = "createUser" /\ s[2] = v
      OBVIOUS
    <3>1. s[1] = "createUser" /\ s[2] \in Users
      BY <1>3, <1>4 DEF Effects
    <3> QED BY <1>4, <3>1 DEF Effects
  <2> QED BY <2>2, <2>3, <2>4, <2>5
<1>7. TypeOK'
  BY <1>2, <1>6 DEF TypeOK
<1>8. StageSound' /\ LockSound'
  BY <1>2 DEF StageSound, LockSound
<1>9. Known'
  BY <1>2 DEF Known, Clash
<1>10. ASSUME NEW r \in Requests
       PROVE  RequestSound(r)'
  <2>0. RequestSound(r)
    OBVIOUS
  <2>1. IssueSound(r)' /\ DatabaseSound(r)' /\ ErrorSound(r)'
    BY <1>2, <1>6, <2>0 DEF RequestSound, IssueSound, DatabaseSound, ErrorSound, Cause
  <2>2. UserSound(r)'
    <3> SUFFICES ASSUME req[r].op = "createUser"
                 PROVE  UserSound(r)'
      BY <1>2 DEF UserSound
    <3>1. req[r].arg \in Users /\ req[r].pw # None
      BY NoneIsNoValue DEF StageSound
    <3> QED BY <1>2, <1>6, <2>0, <3>1 DEF RequestSound, UserSound
  <2> QED BY <2>1, <2>2 DEF RequestSound
<1>11. ToldSound'
  BY <1>2, <1>6, NoneIsNoValue DEF ToldSound
<1> QED BY <1>7, <1>8, <1>9, <1>10, <1>11

\* An idle request.
LEMMA IdleType == /\ Idle \in Request /\ Idle.op = "none" /\ Idle.pc = "idle"
                  /\ Idle.running = FALSE /\ Idle.why = {}
BY DEF Idle, Request, Op, Stage, Arg

\* The panel stops: no request is left, and no lock.
LEMMA StopKeeps ==
  ASSUME HostInv, PanelStops
  PROVE  HostInv'
<1> USE DEF HostInv
<1>1. PICK r \in Requests : /\ \A q \in Requests \ {r} : ~req[q].running
                            /\ tls' \in Killed(tls, r)
  BY DEF PanelStops
<1>2. told' = told /\ \A q \in Requests : req'[q] = Idle
  BY DEF PanelStops
<1>3. req' \in [Requests -> Request]
  BY IdleType DEF PanelStops
<1>4. tls' \in Tls /\ tls'.certbot = None
  <2>1. tls' \in Tls /\ tls'.certbot = IF req[r].running THEN None ELSE tls.certbot
    BY <1>1, KilledEffect
  <2>2. tls.certbot # None => tls.certbot \in Requests /\ req[tls.certbot].running
    BY DEF TypeOK, Tls, LockSound
  <2> QED BY <1>1, <2>1, <2>2
<1>5. PICK late \in SUBSET UNION {LateOf(q) : q \in Requests} :
        db' = [db EXCEPT !.late = db.late \cup late]
  BY DEF PanelStops
<1>6. \A s \in late : /\ s \in MysqlSteps \X Arg \X (Passwords \cup {None})
                      /\ s[1] = "createUser" => s[2] \in Users /\ s[3] \in Passwords
  <2> SUFFICES ASSUME NEW s \in late
               PROVE  /\ s \in MysqlSteps \X Arg \X (Passwords \cup {None})
                      /\ s[1] = "createUser" => s[2] \in Users /\ s[3] \in Passwords
    OBVIOUS
  <2>1. PICK q \in Requests : s \in LateOf(q)
    BY <1>5
  <2> QED BY <2>1, LateType
<1>7. /\ db' \in Db /\ db'.late = db.late \cup late /\ db'.pw = db.pw
      /\ db'.grant = db.grant
  BY <1>5, <1>6 DEF TypeOK, Db
<1>8. TypeOK'
  BY <1>3, <1>4, <1>6, <1>7 DEF TypeOK
<1>9. StageSound' /\ LockSound'
  BY <1>2, <1>4, IdleType DEF StageSound, LockSound, StageOf
<1>10. Known' /\ \A q \in Requests : RequestSound(q)'
  BY <1>2, IdleType DEF Known, Clash, Certbots, RequestSound, IssueSound, DatabaseSound,
       ErrorSound, UserSound
<1>11. ToldSound'
  BY <1>2, <1>7 DEF ToldSound
<1> QED BY <1>8, <1>9, <1>10, <1>11

\* The worker writes a conf: the requests for that domain learn of it.
LEMMA RewriteKeeps ==
  ASSUME HostInv, ConfRewritten
  PROVE  HostInv'
<1> USE DEF HostInv
<1>1. PICK d \in Domains :
         /\ tls' = [tls EXCEPT !.served = @ \ {d}]
         /\ req' = [r \in Requests |->
                      IF req[r].arg = d
                      THEN [req[r] EXCEPT !.why = @ \cup {"rewritten"}] ELSE req[r]]
  BY DEF ConfRewritten
<1>2. db' = db /\ told' = told
  BY DEF ConfRewritten
<1>3. /\ tls' \in Tls /\ tls'.served = tls.served \ {d} /\ tls'.cert = tls.cert
      /\ tls'.checkpoint = tls.checkpoint /\ tls'.certbot = tls.certbot
  BY <1>1 DEF TypeOK, Tls
<1>4. ASSUME NEW r \in Requests
      PROVE  /\ req'[r] \in Request /\ req'[r].op = req[r].op /\ req'[r].pc = req[r].pc
             /\ req'[r].arg = req[r].arg /\ req'[r].pw = req[r].pw
             /\ req'[r].running = req[r].running /\ req'[r].alive = req[r].alive
             /\ req'[r].fresh = req[r].fresh
             /\ req'[r].why = IF req[r].arg = d THEN req[r].why \cup {"rewritten"}
                              ELSE req[r].why
  BY <1>1, <1>4 DEF TypeOK, Request, Causes
<1>5. TypeOK'
  <2>1. req' \in [Requests -> Request]
    BY <1>1, <1>4
  <2> QED BY <1>2, <1>3, <2>1 DEF TypeOK
<1>6. StageSound' /\ LockSound'
  BY <1>3, <1>4, NoneIsNoValue DEF StageSound, LockSound, TypeOK, Tls
<1>7. Known'
  <2>1. \A p, q \in Requests : Clash(req'[p].op, req'[p].arg, req'[q])
                                 <=> Clash(req[p].op, req[p].arg, req[q])
    BY <1>4 DEF Clash
  <2>2. \A q \in Requests : req[q].why \subseteq req'[q].why
    BY <1>4
  <2>3. \A p, q \in Requests : p # q /\ Clash(req'[p].op, req'[p].arg, req'[q])
           => "clash" \in req'[p].why /\ "clash" \in req'[q].why
    BY <2>1, <2>2 DEF Known
  <2>4. \A q \in Requests : req'[q].op # "none" /\ ~req'[q].alive
                              => "context" \in req'[q].why
    BY <1>4, <2>2 DEF Known
  <2> QED BY <2>3, <2>4 DEF Known, Clash
<1>8. ASSUME NEW r \in Requests
      PROVE  RequestSound(r)'
  <2>0. RequestSound(r)
    OBVIOUS
  <2>1. Cause(r) => Cause(r)'
    BY <1>4 DEF Cause
  <2>2. IssueSound(r)'
    BY <1>3, <1>4, <2>0, <2>1 DEF RequestSound, IssueSound
  <2>3. DatabaseSound(r)' /\ ErrorSound(r)' /\ UserSound(r)'
    BY <1>2, <1>4, <2>0, <2>1 DEF RequestSound, DatabaseSound, ErrorSound, UserSound
  <2> QED BY <2>2, <2>3 DEF RequestSound
<1>9. ToldSound'
  BY <1>2 DEF ToldSound
<1> QED BY <1>5, <1>6, <1>7, <1>8, <1>9

\* A request begins, and those whose way it crosses learn of it.
LEMMA BeginKeeps ==
  ASSUME HostInv, NEW r \in Requests, NEW op \in Op \ {"none"}, NEW pc, NEW arg \in Arg,
         NEW pw \in Passwords \cup {None},
         \/ op = "issue" /\ pc = "clean"
         \/ op = pc /\ op # "issue",
         op = "createUser" => arg \in Users /\ pw \in Passwords,
         Begin(r, op, pc, arg, pw)
  PROVE  HostInv'
<1> USE DEF HostInv
<1> DEFINE crossed == \E q \in Requests : Clash(op, arg, req[q])
           new == (op = "createUser") /\ db.pw[arg] = None /\ \A s \in db.late : s[2] # arg
<1>1. /\ tls' = tls /\ db' = db /\ told' = told /\ req[r] = Idle
      /\ req' = [Marked(op, arg) EXCEPT ![r] =
           [Idle EXCEPT !.op = op, !.pc = pc, !.arg = arg, !.pw = pw, !.alive = TRUE,
                        !.why = IF crossed THEN {"clash"} ELSE {}, !.fresh = new]]
  BY DEF Begin
<1>2. pc \in Stage /\ pc \in StageOf[op] /\ pc \in {"clean", "renew", "createDatabase", "createUser"}
  BY DEF Op, Stage, StageOf
<1>3. new \in BOOLEAN
  OBVIOUS
<1> HIDE DEF crossed, new
<1>4. /\ req'[r] \in Request /\ req'[r].op = op /\ req'[r].pc = pc /\ req'[r].arg = arg
      /\ req'[r].pw = pw /\ req'[r].alive = TRUE /\ req'[r].running = FALSE
      /\ req'[r].fresh = new /\ req'[r].why = IF crossed THEN {"clash"} ELSE {}
  <2>1. req'[r] = [Idle EXCEPT !.op = op, !.pc = pc, !.arg = arg, !.pw = pw, !.alive = TRUE,
                               !.why = IF crossed THEN {"clash"} ELSE {}, !.fresh = new]
    BY <1>1 DEF Marked
  <2> QED BY <1>2, <1>3, <2>1 DEF Idle, Request, Causes
<1>5. ASSUME NEW q \in Requests, q # r
      PROVE  /\ req'[q] \in Request /\ req'[q].op = req[q].op /\ req'[q].pc = req[q].pc
             /\ req'[q].arg = req[q].arg /\ req'[q].pw = req[q].pw
             /\ req'[q].running = req[q].running /\ req'[q].alive = req[q].alive
             /\ req'[q].fresh = req[q].fresh
             /\ req'[q].why = IF Clash(op, arg, req[q]) THEN req[q].why \cup {"clash"}
                              ELSE req[q].why
  <2>1. req'[q] = IF Clash(op, arg, req[q]) THEN [req[q] EXCEPT !.why = @ \cup {"clash"}]
                  ELSE req[q]
    <3>1. Marked(op, arg)[q] = IF Clash(op, arg, req[q])
                               THEN [req[q] EXCEPT !.why = @ \cup {"clash"}] ELSE req[q]
      BY DEF Marked
    <3>2. req'[q] = Marked(op, arg)[q]
      BY <1>1, <1>5
    <3> QED BY <3>1, <3>2
  <2>2. req[q] \in Request
    BY DEF TypeOK
  <2> QED BY <2>1, <2>2 DEF Request, Causes
<1>6. TypeOK'
  <2>1. \A q \in Requests : req'[q] \in Request
    BY <1>4, <1>5
  <2>2. req' = [q \in Requests |-> req'[q]]
    BY <1>1 DEF Marked
  <2>3. req' \in [Requests -> Request]
    BY <2>1, <2>2
  <2> QED BY <1>1, <2>3 DEF TypeOK
<1>7. StageSound'
  BY <1>2, <1>4, <1>5 DEF StageSound
<1>8. LockSound'
  <2>1. req[r].running = FALSE
    BY <1>1, IdleType
  <2>2. tls.certbot # None => tls.certbot \in Requests
    BY DEF TypeOK, Tls
  <2>3. \A q \in Requests : req'[q].running = req[q].running
    BY <1>4, <1>5, <2>1
  <2>4. \A q \in Requests : req[q].running => req'[q].pc = req[q].pc
    BY <1>5, <2>1
  <2> QED BY <1>1, <2>2, <2>3, <2>4 DEF LockSound
<1>9. Known'
  <2>1. \A p, q \in Requests : p # r /\ q # r =>
          (Clash(req'[p].op, req'[p].arg, req'[q]) <=> Clash(req[p].op, req[p].arg, req[q]))
    BY <1>5 DEF Clash
  <2>2. \A q \in Requests : q # r =>
          /\ Clash(req'[r].op, req'[r].arg, req'[q]) => Clash(op, arg, req[q])
          /\ Clash(req'[q].op, req'[q].arg, req'[r]) => Clash(op, arg, req[q])
    BY <1>4, <1>5 DEF Clash
  <2>3. \A q \in Requests : q # r => req[q].why \subseteq req'[q].why
    BY <1>5
  <2>4. \A q \in Requests : q # r /\ Clash(op, arg, req[q])
          => "clash" \in req'[r].why /\ "clash" \in req'[q].why
    BY <1>4, <1>5 DEF crossed
  <2>5. \A p, q \in Requests : p # q /\ Clash(req'[p].op, req'[p].arg, req'[q])
           => "clash" \in req'[p].why /\ "clash" \in req'[q].why
    BY <2>1, <2>2, <2>3, <2>4 DEF Known
  <2>6. \A q \in Requests : req'[q].op # "none" /\ ~req'[q].alive
                              => "context" \in req'[q].why
    BY <1>4, <1>5, <2>3 DEF Known
  <2> QED BY <2>5, <2>6 DEF Known, Clash
<1>10. ASSUME NEW q \in Requests, q # r
       PROVE  RequestSound(q)'
  <2>0. RequestSound(q)
    OBVIOUS
  <2>1. req[q].why \subseteq req'[q].why /\ (Cause(q) => Cause(q)')
    BY <1>5, <1>10 DEF Cause
  <2>2. IssueSound(q)' /\ DatabaseSound(q)' /\ ErrorSound(q)'
    BY <1>1, <1>5, <1>10, <2>0, <2>1
       DEF RequestSound, IssueSound, DatabaseSound, ErrorSound
  <2>3. UserSound(q)'
    BY <1>1, <1>5, <1>10, <2>0, <2>1 DEF RequestSound, UserSound
  <2> QED BY <2>2, <2>3 DEF RequestSound
<1>11. RequestSound(r)'
  <2>1. UserSound(r)'
    BY <1>1, <1>2, <1>4 DEF UserSound, new
  <2>2. IssueSound(r)' /\ DatabaseSound(r)' /\ ErrorSound(r)'
    BY <1>2, <1>4 DEF IssueSound, DatabaseSound, ErrorSound
  <2> QED BY <2>1, <2>2 DEF RequestSound
<1>12. ToldSound'
  BY <1>1 DEF ToldSound
<1> QED BY <1>6, <1>7, <1>8, <1>9, <1>10, <1>11, <1>12

\* A request is answered: what it tells is so.
LEMMA AnswerKeeps ==
  ASSUME HostInv, NEW r \in Requests, Answer(r)
  PROVE  HostInv'
<1> USE DEF HostInv
<1>1. /\ tls' = tls /\ db' = db
      /\ req' = [req EXCEPT ![r] = Idle] /\ req[r].pc \in {"ok", "error"}
  BY DEF Answer
<1>2. req'[r] = Idle /\ \A q \in Requests : q # r => req'[q] = req[q]
  BY <1>1 DEF TypeOK
<1>3. ~req[r].running
  BY <1>1 DEF LockSound, CertbotSteps
<1>4. TypeOK'
  BY <1>1, IdleType DEF TypeOK
<1>5. StageSound'
  BY <1>2, IdleType DEF StageSound, StageOf
<1>6. LockSound'
  <2>1. tls.certbot # None => tls.certbot \in Requests
    BY DEF TypeOK, Tls
  <2> QED BY <1>1, <1>2, <1>3, <2>1, IdleType DEF LockSound
<1>7. Known'
  <2>1. \A q \in Requests : req'[q] = req[q] \/ req'[q].op = "none"
    BY <1>2, IdleType
  <2>2. \A p, q \in Requests : Clash(req'[p].op, req'[p].arg, req'[q])
           => req'[p] = req[p] /\ req'[q] = req[q]
    BY <2>1 DEF Clash, Certbots
  <2>3. \A p, q \in Requests : p # q /\ Clash(req'[p].op, req'[p].arg, req'[q])
           => "clash" \in req'[p].why /\ "clash" \in req'[q].why
    BY <2>2 DEF Known
  <2>4. \A q \in Requests : req'[q].op # "none" /\ ~req'[q].alive
                              => "context" \in req'[q].why
    BY <2>1 DEF Known
  <2> QED BY <2>3, <2>4 DEF Known, Clash
<1>8. ASSUME NEW q \in Requests
      PROVE  RequestSound(q)'
  <2>0. RequestSound(q)
    OBVIOUS
  <2>1. CASE q = r
    BY <1>2, <2>1, IdleType DEF RequestSound, IssueSound, DatabaseSound, ErrorSound, UserSound
  <2>2. CASE q # r
    BY <1>1, <1>2, <2>0, <2>2 DEF RequestSound, IssueSound, DatabaseSound, ErrorSound,
         UserSound, Cause
  <2> QED BY <2>1, <2>2
<1>9. ToldSound'
  <2> DEFINE a == [user |-> req[r].arg, pw |-> req[r].pw,
                   sure |-> req[r].fresh /\ "clash" \notin req[r].why]
  <2>1. CASE req[r].pc = "ok" /\ req[r].op = "createUser"
    <3>1. told' = told \cup {a}
      BY <2>1 DEF Answer
    <3>2. RequestSound(r)
      OBVIOUS
    <3>3. req[r].arg \in db.grant
      BY <2>1, <3>2 DEF RequestSound, UserSound
    <3>4. req[r].fresh /\ "clash" \notin req[r].why => db.pw[req[r].arg] = req[r].pw
      BY <2>1, <3>2 DEF RequestSound, UserSound
    <3>5. req[r].arg \in Users /\ req[r].pw \in Passwords
      BY <2>1 DEF StageSound
    <3>6. /\ a.user \in db.grant
          /\ a.sure => a.user \in Users /\ a.pw \in Passwords /\ db.pw[a.user] = a.pw
      BY <3>3, <3>4, <3>5
    <3> HIDE DEF a
    <3> QED BY <1>1, <3>1, <3>6 DEF ToldSound
  <2>2. CASE ~(req[r].pc = "ok" /\ req[r].op = "createUser")
    <3>1. told' = told
      BY <2>2 DEF Answer
    <3> QED BY <1>1, <3>1 DEF ToldSound
  <2> QED BY <2>1, <2>2
<1> QED BY <1>4, <1>5, <1>6, <1>7, <1>8, <1>9

-----------------------------------------------------------------------------
(* The theorems.                                                             *)

\* No request yet.
LEMMA HostInit == Init => HostInv
<1> SUFFICES ASSUME Init PROVE HostInv
  OBVIOUS
<1>1. \A r \in Requests : req[r] = Idle
  BY DEF Init
<1>2. /\ tls \in Tls /\ tls.certbot = None /\ db \in Db /\ db.late = {} /\ told = {}
  BY DEF Init, Tls, Db
<1>3. TypeOK
  BY <1>2, IdleType DEF Init, TypeOK
<1>4. StageSound /\ LockSound /\ Known
  BY <1>1, <1>2, IdleType DEF StageSound, StageOf, LockSound, Known, Clash, Certbots
<1>5. \A r \in Requests : RequestSound(r)
  BY <1>1, IdleType DEF RequestSound, IssueSound, DatabaseSound, ErrorSound, UserSound
<1> QED BY <1>2, <1>3, <1>4, <1>5 DEF HostInv, ToldSound

\* Every step keeps the invariant.
LEMMA HostStep == HostInv /\ [Next]_vars => HostInv'
<1> SUFFICES ASSUME HostInv, [Next]_vars PROVE HostInv'
  OBVIOUS
<1>1. ASSUME NEW r \in Requests, BeginIssue(r)
      PROVE  HostInv'
  <2>1. PICK d \in Domains : Begin(r, "issue", "clean", d, None)
    BY <1>1 DEF BeginIssue
  <2> QED BY <2>1, BeginKeeps DEF Op, Arg
<1>2. ASSUME NEW r \in Requests, BeginRenew(r)
      PROVE  HostInv'
  BY <1>2, BeginKeeps DEF BeginRenew, Op, Arg
<1>3. ASSUME NEW r \in Requests, BeginCreateDatabase(r)
      PROVE  HostInv'
  BY <1>3, BeginKeeps DEF BeginCreateDatabase, Op, Arg
<1>4. ASSUME NEW r \in Requests, BeginCreateUser(r)
      PROVE  HostInv'
  <2>1. PICK u \in Users, pw \in Passwords : Begin(r, "createUser", "createUser", u, pw)
    BY <1>4 DEF BeginCreateUser
  <2> QED BY <2>1, BeginKeeps DEF Op, Arg
<1>5. ASSUME NEW r \in Requests, Handler(r) \/ Command(r)
      PROVE  HostInv'
  BY <1>5, HandlerKeeps, CertbotKeeps, StatementKeeps, AnswerKeeps DEF Handler, Command
<1>6. ASSUME NEW r \in Requests, ClientGone(r) \/ TimeoutExpires(r)
      PROVE  HostInv'
  BY <1>6, ContextKeeps DEF ClientGone, TimeoutExpires
<1>7. CASE UNCHANGED vars
  <2>1. req' = req /\ tls' = tls /\ db' = db /\ told' = told
    BY <1>7 DEF vars
  <2> QED BY <2>1 DEF HostInv, TypeOK, StageSound, LockSound, Known, Clash, RequestSound,
           IssueSound, DatabaseSound, ErrorSound, UserSound, Cause, ToldSound
<1> QED BY <1>1, <1>2, <1>3, <1>4, <1>5, <1>6, <1>7, LateKeeps, StopKeeps, RewriteKeeps
        DEF Next

\* The invariant of the host commands holds in every state.
THEOREM HostInvariant == Spec => []HostInv
BY HostInit, HostStep, PTL DEF Spec

\* An account that handleCreateDatabaseUser answered as created may use the
\* database for good, with the password of the request where that was alone.
THEOREM AccountDurability == Spec => []AccountStands
<1>1. HostInv => AccountStands
  BY DEF HostInv, ToldSound, AccountStands
<1> QED BY <1>1, HostInvariant, PTL

\* An issue answered "ok" has its certificate and serves it; a database answered
\* as created exists.
THEOREM OkIsDone == Spec => OkMeansDone
<1>1. HostInv => [\A r \in Requests : Answered(r, "ok") =>
                     /\ req[r].op = "issue" =>
                          /\ req[r].arg \in tls.cert
                          /\ req[r].arg \in tls.served \/ "rewritten" \in req[r].why
                     /\ req[r].op = "createDatabase" => db.made]_vars
  BY DEF HostInv, RequestSound, IssueSound, DatabaseSound, Answered
<1> QED BY <1>1, HostInvariant, PTL DEF OkMeansDone

\* Issue, CreateDatabase and CreateUser fail for a cause of their own, never
\* because of what an earlier request left behind.
THEOREM FailureHasCause == Spec => FailsForCause
<1>1. HostInv => [\A r \in Requests :
                     Answered(r, "error") /\ req[r].op # "renew"
                       => req[r].why \ {"rewritten"} # {}]_vars
  BY DEF HostInv, RequestSound, ErrorSound, Cause, Answered
<1> QED BY <1>1, HostInvariant, PTL DEF FailsForCause
=============================================================================
