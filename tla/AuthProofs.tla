----------------------------- MODULE AuthProofs -----------------------------
(***************************************************************************)
(* Proofs about Auth: what the panel answered about a token or a password  *)
(* stands, in memory and in the state file, whatever saves fail and        *)
(* whenever the process restarts.                                          *)
(***************************************************************************)
EXTENDS Auth, TLAPS

-----------------------------------------------------------------------------
(* The inductive invariant.                                                  *)

Account == [pw : Passwords \cup {NoUser}, sess : [Tokens -> 0 .. NoSession]]

Stage == {"idle", "verifyLogin", "createSession", "loginAudit", "expired",
          "logout", "logoutAudit", "readUser", "verifyChange", "update", "audit"}

Request == [pc : Stage, try : Passwords \cup {NoUser},
            hash : Passwords \cup {NoUser}, new : Passwords \cup {NoUser},
            token : Tokens \cup {NoToken}]

TypeOK ==
  /\ mem \in Account /\ disk \in Account
  /\ req \in [Clients -> Request]
  /\ phase \in {"starting", "serving", "ending", "closed"}
  /\ now \in 0 .. Horizon
  /\ bound \in [fails : 0 .. MaxSaveFails, restarts : 0 .. MaxRestarts]
  /\ issued \subseteq Tokens /\ given \subseteq issued
  /\ used \subseteq issued /\ ended \subseteq issued
  /\ expiry \in [Tokens -> 0 .. NoSession]
  /\ acked \in Passwords \cup {NoUser}

\* A request that acts on a token acts on one that was issued, and one that
\* came with the request was answered to a client before.
TokenOrigin ==
  \A c \in Clients :
    /\ req[c].pc \in {"loginAudit", "logoutAudit"} => req[c].token \in issued
    /\ req[c].pc \in {"expired", "logout"} => req[c].token \in given

\* A token that was not made yet is in neither memory nor the file.
UnissuedUnknown ==
  \A t \in Tokens \ issued : mem.sess[t] = NoSession /\ disk.sess[t] = NoSession

\* What LogoutIsFinal says of a token.
Gone(t) == mem.sess[t] = NoSession /\ disk.sess[t] = NoSession

\* That, and what TokenDurable says of one, hold already of the token that a
\* request is about to answer.
AnswerDurable ==
  \A c \in Clients : req[c].pc = "loginAudit" /\ req[c].token \notin used
    => Durable(req[c].token)
AnswerGone ==
  \A c \in Clients : req[c].pc = "logoutAudit" => Gone(req[c].token)

\* The session that a request found expired still is, or is deleted.
ExpiredStays ==
  \A c \in Clients : req[c].pc = "expired"
    => \/ mem.sess[req[c].token] < now
       \/ mem.sess[req[c].token] = NoSession

\* The password that a change is about to store is one.
NewIsPassword == \A c \in Clients :
  req[c].pc \in {"verifyChange", "update"} => req[c].new \in Passwords

TokenPart ==
  /\ TokenOrigin
  /\ UnissuedUnknown
  /\ TokenDurable
  /\ AnswerDurable
  /\ LogoutIsFinal
  /\ AnswerGone
  /\ ExpiredStays

PasswordPart == NewIsPassword /\ PasswordStands /\ AdminOnFile

AuthInv == TypeOK /\ TokenPart /\ PasswordPart

-----------------------------------------------------------------------------
(* Type correctness.                                                         *)

\* Every instant of a session is at most the one that stands for none.
LEMMA ExpiryType ==
  /\ NoSession \in Nat
  /\ \A n \in 0 .. Horizon : n + TTL \in 0 .. NoSession /\ n + TTL # NoSession
                             /\ n < NoSession
BY AuthAssumption DEF NoSession

\* A repository call leaves memory, file and bounds of their types.
LEMMA SaveType ==
  ASSUME TypeOK, NEW ok \in BOOLEAN, mem' \in Account, Save(ok)
  PROVE  /\ disk' \in Account
         /\ bound' \in [fails : 0 .. MaxSaveFails, restarts : 0 .. MaxRestarts]
<1>1. disk' \in Account
  BY DEF Save, TypeOK
<1>2. bound.fails \in 0 .. MaxSaveFails /\ bound.restarts \in 0 .. MaxRestarts
  BY DEF TypeOK
<1>3. ok \/ bound.fails + 1 \in 0 .. MaxSaveFails
  BY <1>2, AuthAssumption DEF Save
<1>4. bound' \in [fails : 0 .. MaxSaveFails, restarts : 0 .. MaxRestarts]
  BY <1>3 DEF Save, TypeOK
<1> QED BY <1>1, <1>4

\* So do the four ways the requests and the start call it.
LEMMA StoreType ==
  ASSUME TypeOK, NEW ok \in BOOLEAN,
         \/ \E p \in Passwords : PutPassword(p, ok)
         \/ \E t \in Tokens : CreateSession(t, ok) \/ DeleteSession(t, ok)
         \/ SaveOnly(ok)
  PROVE  /\ mem' \in Account /\ disk' \in Account
         /\ bound' \in [fails : 0 .. MaxSaveFails, restarts : 0 .. MaxRestarts]
<1>1. mem' \in Account /\ Save(ok)
  <2>1. CASE \E p \in Passwords : PutPassword(p, ok)
    BY <2>1 DEF PutPassword, TypeOK, Account
  <2>2. CASE \E t \in Tokens : CreateSession(t, ok) \/ DeleteSession(t, ok)
    <3>1. PICK t \in Tokens : CreateSession(t, ok) \/ DeleteSession(t, ok)
      BY <2>2
    <3>2. PICK x \in 0 .. NoSession : mem' = [mem EXCEPT !.sess[t] = x]
      BY <3>1, ExpiryType DEF CreateSession, DeleteSession, TypeOK
    <3>3. Save(ok)
      BY <3>1 DEF CreateSession, DeleteSession
    <3> QED BY <3>2, <3>3 DEF TypeOK, Account
  <2>3. CASE SaveOnly(ok)
    BY <2>3 DEF SaveOnly, TypeOK
  <2> QED BY <2>1, <2>2, <2>3
<1> QED BY <1>1, SaveType
\* A request that moves on, or is answered, stays a request.
LEMMA RequestType ==
  ASSUME TypeOK, NEW c \in Clients
  PROVE  /\ Answer(c) => req' \in [Clients -> Request]
         /\ \A pc \in Stage : Goto(c, pc) => req' \in [Clients -> Request]
         /\ \A r \in Request : req' = [req EXCEPT ![c] = r]
                                 => req' \in [Clients -> Request]
         /\ IdleReq \in Request
BY DEF TypeOK, Request, Stage, Answer, Goto, IdleReq

\* Every step keeps the types.
LEMMA TypeStep ==
  ASSUME TypeOK, TokenPart, PasswordPart, [Next]_vars
  PROVE  TypeOK'
<1> USE RequestType DEF Untouched, history
<1>1. ASSUME NEW c \in Clients, NEW p \in Passwords, Login(c, p)
      PROVE  TypeOK'
  <2>1. [IdleReq EXCEPT !.pc = "verifyLogin", !.try = p, !.hash = mem.pw] \in Request
    BY DEF TypeOK, Account, Request, Stage, IdleReq
  <2> QED BY <1>1, <2>1 DEF Login, TypeOK
<1>2. ASSUME NEW c \in Clients, LoginVerify(c)
      PROVE  TypeOK'
  BY <1>2 DEF LoginVerify, TypeOK, Stage
<1>3. ASSUME NEW c \in Clients, NEW t \in Tokens, LoginCreateSession(c, t)
      PROVE  TypeOK'
  <2>1. PICK ok \in BOOLEAN :
          /\ CreateSession(t, ok)
          /\ IF ok THEN req' = [req EXCEPT ![c].pc = "loginAudit", ![c].token = t]
                   ELSE Answer(c)
    BY <1>3 DEF LoginCreateSession
  <2>2. req' \in [Clients -> Request]
    BY <2>1 DEF TypeOK, Request, Stage
  <2>3. expiry' \in [Tokens -> 0 .. NoSession]
    BY <1>3, ExpiryType DEF LoginCreateSession, TypeOK
  <2> QED BY <1>3, <2>1, <2>2, <2>3, StoreType DEF LoginCreateSession, TypeOK
<1>4. ASSUME NEW c \in Clients, LoginAnswer(c)
      PROVE  TypeOK'
  BY <1>4, StoreType DEF LoginAnswer, TypeOK, TokenPart, TokenOrigin
<1>5. ASSUME NEW c \in Clients, NEW t \in Tokens,
             NEW pc \in {"logout", "readUser"}, RequireAuth(c, t, pc)
      PROVE  TypeOK'
  <2>1. \A q \in Stage : [IdleReq EXCEPT !.token = t, !.pc = q] \in Request
    BY DEF Request, Stage, IdleReq
  <2>2. "expired" \in Stage /\ pc \in Stage
    BY DEF Stage
  <2> QED BY <1>5, <2>1, <2>2 DEF RequireAuth, TypeOK
<1>6. ASSUME NEW c \in Clients, DropExpired(c)
      PROVE  TypeOK'
  <2>1. req[c].token \in Tokens
    BY <1>6 DEF DropExpired, TypeOK, TokenPart, TokenOrigin
  <2> QED BY <1>6, <2>1, StoreType DEF DropExpired, TypeOK
<1>7. ASSUME NEW c \in Clients, Logout(c)
      PROVE  TypeOK'
  <2>1. req[c].token \in issued
    BY <1>7 DEF Logout, TypeOK, TokenPart, TokenOrigin
  <2>2. req' \in [Clients -> Request]
    BY <1>7 DEF Logout, Stage
  <2> QED BY <1>7, <2>1, <2>2, StoreType DEF Logout, TypeOK
<1>8. ASSUME NEW c \in Clients, LogoutAnswer(c)
      PROVE  TypeOK'
  BY <1>8, StoreType DEF LogoutAnswer, TypeOK, TokenPart, TokenOrigin
<1>9. ASSUME NEW c \in Clients, NEW p \in Passwords, NEW q \in Passwords,
             ChangePassword(c, p, q)
      PROVE  TypeOK'
  <2>1. req' \in [Clients -> Request]
    BY <1>9 DEF ChangePassword, TypeOK, Account, Request, Stage
  <2> QED BY <1>9, <2>1 DEF ChangePassword, TypeOK
<1>10. ASSUME NEW c \in Clients, ChangeVerify(c)
       PROVE  TypeOK'
  BY <1>10 DEF ChangeVerify, TypeOK, Stage
<1>11. ASSUME NEW c \in Clients, ChangeUpdate(c)
       PROVE  TypeOK'
  <2>1. req[c].new \in Passwords
    BY <1>11 DEF ChangeUpdate, PasswordPart, NewIsPassword
  <2>2. req' \in [Clients -> Request]
    BY <1>11 DEF ChangeUpdate, Stage
  <2> QED BY <1>11, <2>1, <2>2, StoreType DEF ChangeUpdate, TypeOK
<1>12. ASSUME NEW c \in Clients, AuditAnswer(c)
       PROVE  TypeOK'
  BY <1>12, StoreType DEF AuditAnswer, TypeOK
<1>13. CASE StartUp
  BY <1>13, StoreType, AuthAssumption DEF StartUp, After, TypeOK
<1>14. CASE Signal
  BY <1>14 DEF Signal, TypeOK
<1>15. CASE CloseRepo
  BY <1>15, StoreType DEF CloseRepo, TypeOK
<1>16. CASE Restart
  <2>1. req' \in [Clients -> Request]
    BY <1>16 DEF Restart
  <2>2. bound' \in [fails : 0 .. MaxSaveFails, restarts : 0 .. MaxRestarts]
    BY <1>16, AuthAssumption DEF Restart, TypeOK
  <2> QED BY <1>16, <2>1, <2>2 DEF Restart, TypeOK
<1>17. CASE Tick
  BY <1>17, AuthAssumption DEF Tick, TypeOK
<1>18. CASE UNCHANGED vars
  BY <1>18 DEF vars, TypeOK
<1> QED BY <1>1, <1>2, <1>3, <1>4, <1>5, <1>6, <1>7, <1>8, <1>9, <1>10, <1>11,
           <1>12, <1>13, <1>14, <1>15, <1>16, <1>17, <1>18 DEF Next
-----------------------------------------------------------------------------
(* Tokens.                                                                   *)

\* A step that leaves a token's entry in memory alone, and writes no other one
\* to the file, keeps what is said of the token.
LEMMA EntryKeeps ==
  ASSUME TypeOK, TypeOK', NEW t \in Tokens,
         mem'.sess[t] = mem.sess[t],
         disk'.sess[t] = disk.sess[t] \/ disk'.sess[t] = mem.sess[t],
         now <= now', expiry'[t] = expiry[t]
  PROVE  (Durable(t) => Durable(t)') /\ (Gone(t) => Gone(t)')
<1>1. now \in Nat /\ now' \in Nat /\ expiry[t] \in Nat
  BY AuthAssumption, ExpiryType DEF TypeOK
<1>2. NoSession' = NoSession
  BY DEF NoSession
<1> HIDE DEF NoSession
<1>3. now' <= expiry[t] => now <= expiry[t]
  BY <1>1
<1> QED BY <1>2, <1>3 DEF Durable, Gone

\* A step that leaves all sessions alone, saved or not, brings no request to a
\* token, and adds to the tokens that were answered only the one that was about
\* to be.
QuietStep ==
  /\ mem'.sess = mem.sess
  /\ disk' = disk \/ disk' = mem'
  /\ now <= now'
  /\ issued' = issued /\ used' = used /\ expiry' = expiry
  /\ \A c \in Clients :
       req'[c].pc \in {"loginAudit", "logoutAudit", "expired", "logout"}
         => req'[c] = req[c]
  /\ \A t \in given' :
       \/ t \in given
       \/ \E c \in Clients : req[c].pc = "loginAudit" /\ req[c].token = t
  /\ \A t \in ended' :
       \/ t \in ended
       \/ \E c \in Clients : req[c].pc = "logoutAudit" /\ req[c].token = t
  /\ given \subseteq given'

\* Such a step keeps what is said of every token.
LEMMA QuietKeeps ==
  ASSUME TypeOK, TypeOK', TokenPart, QuietStep
  PROVE  TokenPart'
<1> USE DEF TokenPart, QuietStep
<1>1. \A t \in Tokens : (Durable(t) => Durable(t)') /\ (Gone(t) => Gone(t)')
  BY EntryKeeps
<1>2. TokenOrigin'
  BY DEF TokenOrigin
<1>3. UnissuedUnknown'
  BY <1>1 DEF UnissuedUnknown, Gone
<1>4. TokenDurable' /\ AnswerDurable'
  <2>1. \A t \in given \ used : Durable(t)
    BY DEF TokenDurable
  <2>2. \A t \in given' \ used' : Durable(t)
    BY <2>1 DEF AnswerDurable
  <2>3. \A t \in given' \ used' : Durable(t)'
    BY <1>1, <2>2 DEF TypeOK
  <2>4. TokenDurable'
    BY <2>3 DEF TokenDurable
  <2>5. AnswerDurable'
    BY <1>1 DEF AnswerDurable, TokenOrigin, TypeOK
  <2> QED BY <2>4, <2>5
<1>5. LogoutIsFinal' /\ AnswerGone'
  <2>1. \A t \in ended' : Gone(t) /\ t \in Tokens
    BY DEF LogoutIsFinal, AnswerGone, Gone, TokenOrigin, TypeOK
  <2>2. LogoutIsFinal'
    BY <1>1, <2>1 DEF LogoutIsFinal, Gone
  <2>3. AnswerGone'
    BY <1>1 DEF AnswerGone, TokenOrigin, TypeOK
  <2> QED BY <2>2, <2>3
<1>6. ExpiredStays'
  <2>1. now \in Nat /\ now' \in Nat /\ \A t \in Tokens : mem.sess[t] \in Nat
    BY AuthAssumption, ExpiryType DEF TypeOK, Account
  <2> QED BY <2>1 DEF ExpiredStays, TokenOrigin, TypeOK
<1> QED BY <1>2, <1>3, <1>4, <1>5, <1>6

\* A new token: on file when the save succeeded, given to nobody when it failed.
LEMMA LoginCreateSessionKeeps ==
  ASSUME TypeOK, TypeOK', TokenPart, NEW c \in Clients, NEW t \in Tokens,
         LoginCreateSession(c, t)
  PROVE  TokenPart'
<1> USE DEF TokenPart
<1>1. PICK ok \in BOOLEAN :
        /\ CreateSession(t, ok)
        /\ IF ok THEN req' = [req EXCEPT ![c].pc = "loginAudit", ![c].token = t]
                 ELSE Answer(c)
  BY DEF LoginCreateSession
<1>2. /\ t \notin issued /\ issued' = issued \cup {t}
      /\ now' = now /\ given' = given /\ used' = used /\ ended' = ended
      /\ expiry'[t] = now + TTL /\ \A u \in Tokens \ {t} : expiry'[u] = expiry[u]
  BY DEF LoginCreateSession, TypeOK
<1>3. /\ mem'.sess[t] = now + TTL /\ mem'.sess[t] # NoSession
      /\ \A u \in Tokens : u # t => mem'.sess[u] = mem.sess[u]
      /\ disk' = IF ok THEN mem' ELSE disk
  BY <1>1, ExpiryType DEF CreateSession, Save, TypeOK, Account
<1>4. \A u \in issued : (Durable(u) => Durable(u)') /\ (Gone(u) => Gone(u)')
  <2>1. now <= now'
    BY <1>2, AuthAssumption DEF TypeOK
  <2> QED BY <1>2, <1>3, <2>1, EntryKeeps DEF TypeOK
<1>5. /\ \A d \in Clients : d # c => req'[d] = req[d]
      /\ req'[c].pc \in {"loginAudit", "idle"}
      /\ req'[c].pc = "loginAudit" => ok /\ req'[c].token = t
  BY <1>1 DEF Answer, IdleReq, TypeOK, Request
<1>6. ok => Durable(t)'
  BY <1>2, <1>3 DEF Durable
<1>7. TokenOrigin'
  BY <1>2, <1>5 DEF TokenOrigin
<1>8. UnissuedUnknown'
  BY <1>2, <1>3 DEF UnissuedUnknown
<1>9. TokenDurable'
  <2>1. \A u \in given \ used : Durable(u)
    BY DEF TokenDurable
  <2>2. \A u \in given' \ used' : Durable(u)'
    BY <1>2, <1>4, <2>1 DEF TypeOK
  <2> QED BY <2>2 DEF TokenDurable
<1>10. AnswerDurable'
  BY <1>2, <1>4, <1>5, <1>6 DEF AnswerDurable, TokenOrigin
<1>11. LogoutIsFinal' /\ AnswerGone'
  BY <1>2, <1>4, <1>5 DEF LogoutIsFinal, AnswerGone, Gone, TokenOrigin, TypeOK
<1>12. ExpiredStays'
  <2>1. \A d \in Clients : req'[d].pc = "expired" =>
          /\ req[d] = req'[d]
          /\ mem'.sess[req[d].token] = mem.sess[req[d].token]
    BY <1>2, <1>3, <1>5 DEF TokenOrigin, TypeOK
  <2> QED BY <1>2, <2>1 DEF ExpiredStays, NoSession
<1> QED BY <1>7, <1>8, <1>9, <1>10, <1>11, <1>12

\* The entry that is deleted is expired, or its token was used to log out.
DeleteStep(t, ok) ==
  /\ DeleteSession(t, ok)
  /\ now' = now /\ issued' = issued /\ given' = given /\ ended' = ended
  /\ expiry' = expiry
  /\ used \subseteq used'
  /\ t \in used' \/ mem.sess[t] < now \/ mem.sess[t] = NoSession
  /\ \A c \in Clients :
       \/ req'[c] = req[c]
       \/ req'[c].pc = "idle"
       \/ req'[c].pc = "logoutAudit" /\ req'[c].token = t /\ ok

\* A deletion keeps what is said of every token.
LEMMA DeleteKeeps ==
  ASSUME TypeOK, TypeOK', TokenPart, NEW t \in issued, NEW ok \in BOOLEAN,
         DeleteStep(t, ok)
  PROVE  TokenPart'
<1> USE DEF TokenPart, DeleteStep
<1>1. /\ mem'.sess[t] = NoSession
      /\ \A u \in Tokens : u # t => mem'.sess[u] = mem.sess[u]
      /\ disk' = IF ok THEN mem' ELSE disk
  BY DEF DeleteSession, Save, TypeOK, Account
<1>2. now \in Nat /\ now <= now' /\ \A u \in Tokens : mem.sess[u] \in Nat
  BY AuthAssumption, ExpiryType DEF TypeOK, Account
<1>3. Gone(t) => Gone(t)'
  BY <1>1 DEF Gone, NoSession
<1>4. t \notin used' => (Durable(t) => Durable(t)')
  <2>1. NoSession' = NoSession /\ NoSession \in Nat /\ now < NoSession
    BY ExpiryType DEF NoSession, TypeOK
  <2>2. expiry[t] \in Nat /\ t \in Tokens
    BY ExpiryType DEF TypeOK
  <2> HIDE DEF NoSession
  <2> QED BY <1>1, <1>2, <2>1, <2>2 DEF Durable
<1>5. \A u \in issued : u # t => (Durable(u) => Durable(u)')
                                 /\ (Gone(u) => Gone(u)')
  BY <1>1, <1>2, EntryKeeps DEF TypeOK
<1>6. TokenOrigin'
  BY DEF TokenOrigin
<1>7. UnissuedUnknown'
  BY <1>1 DEF UnissuedUnknown
<1>8. TokenDurable'
  <2>1. \A u \in given \ used : Durable(u)
    BY DEF TokenDurable
  <2>2. \A u \in given' \ used' : Durable(u)'
    BY <1>4, <1>5, <2>1 DEF TypeOK
  <2> QED BY <2>2 DEF TokenDurable
<1>9. AnswerDurable'
  BY <1>4, <1>5 DEF AnswerDurable, TokenOrigin
<1>10. LogoutIsFinal' /\ AnswerGone'
  <2>1. ok => Gone(t)'
    BY <1>1 DEF Gone, NoSession
  <2> QED BY <1>3, <1>5, <2>1 DEF LogoutIsFinal, AnswerGone, Gone, TokenOrigin, TypeOK
<1>11. ExpiredStays'
  <2>1. \A d \in Clients : req'[d].pc = "expired" =>
          /\ req[d] = req'[d]
          /\ \/ mem'.sess[req[d].token] = mem.sess[req[d].token]
             \/ mem'.sess[req[d].token] = NoSession
    BY <1>1 DEF TokenOrigin, TypeOK
  <2> QED BY <2>1 DEF ExpiredStays, NoSession
<1> QED BY <1>6, <1>7, <1>8, <1>9, <1>10, <1>11
\* Every step keeps what is said of the tokens.
LEMMA TokenStep ==
  ASSUME TypeOK, TypeOK', TokenPart, [Next]_vars
  PROVE  TokenPart'
<1> USE DEF Untouched, history
<1>0. now <= now
  BY AuthAssumption DEF TypeOK
<1>a. \A ok \in BOOLEAN : SaveOnly(ok) => /\ mem'.sess = mem.sess
                                          /\ disk' = disk \/ disk' = mem'
  BY DEF SaveOnly, Save
<1>b. \A ok \in BOOLEAN, p \in Passwords \cup {NoUser} :
        PutPassword(p, ok) => /\ mem'.sess = mem.sess
                              /\ disk' = disk \/ disk' = mem'
  BY DEF PutPassword, Save, TypeOK, Account
<1>c. \A c \in Clients : Answer(c) =>
        \A d \in Clients : req'[d] = IF d = c THEN IdleReq ELSE req[d]
  BY DEF Answer, TypeOK
<1>d. \A c \in Clients, pc \in Stage : Goto(c, pc) =>
        \A d \in Clients : IF d = c THEN req'[d].pc = pc /\ req'[d].token = req[d].token
                                    ELSE req'[d] = req[d]
  BY DEF Goto, TypeOK, Request
<1>1. ASSUME NEW c \in Clients, NEW p \in Passwords, Login(c, p)
      PROVE  TokenPart'
  <2>1. \A d \in Clients : d # c => req'[d] = req[d]
    BY <1>1 DEF Login, TypeOK
  <2>2. req'[c].pc = "verifyLogin"
    BY <1>1 DEF Login, TypeOK, IdleReq
  <2>3. QuietStep
    BY <1>0, <1>1, <2>1, <2>2 DEF Login, QuietStep
  <2> QED BY <2>3, QuietKeeps
<1>2. ASSUME NEW c \in Clients, LoginVerify(c)
      PROVE  TokenPart'
  <2>1. QuietStep
    BY <1>0, <1>2, <1>d DEF LoginVerify, QuietStep, Stage
  <2> QED BY <2>1, QuietKeeps
<1>3. ASSUME NEW c \in Clients, NEW t \in Tokens, LoginCreateSession(c, t)
      PROVE  TokenPart'
  BY <1>3, LoginCreateSessionKeeps
<1>4. ASSUME NEW c \in Clients, LoginAnswer(c)
      PROVE  TokenPart'
  <2>1. QuietStep
    BY <1>0, <1>4, <1>a, <1>c DEF LoginAnswer, QuietStep, IdleReq
  <2> QED BY <2>1, QuietKeeps
<1>5. ASSUME NEW c \in Clients, NEW t \in Tokens,
             NEW pc \in {"logout", "readUser"}, RequireAuth(c, t, pc)
      PROVE  TokenPart'
  <2> USE DEF TokenPart
  <2>1. /\ \A d \in Clients : d # c => req'[d] = req[d]
        /\ req'[c].token = t
        /\ req'[c].pc = IF Authenticate(t) = "expired" THEN "expired" ELSE pc
    BY <1>5 DEF RequireAuth, TypeOK, IdleReq
  <2>2. /\ mem' = mem /\ disk' = disk /\ now' = now /\ issued' = issued
        /\ given' = given /\ used' = used /\ ended' = ended /\ t \in given
        /\ expiry' = expiry
    BY <1>5 DEF RequireAuth
  <2>3. Authenticate(t) = "expired" => mem.sess[t] < now
    BY DEF Authenticate
  <2>4. TokenOrigin'
    BY <2>1, <2>2 DEF TokenOrigin
  <2>5. ExpiredStays'
    BY <2>1, <2>2, <2>3 DEF ExpiredStays, NoSession
  <2>6. AnswerDurable' /\ AnswerGone'
    BY <2>1, <2>2 DEF AnswerDurable, AnswerGone, Durable, Gone, NoSession
  <2>7. UnissuedUnknown' /\ TokenDurable' /\ LogoutIsFinal'
    BY <2>2 DEF UnissuedUnknown, TokenDurable, Durable, LogoutIsFinal, NoSession
  <2> QED BY <2>4, <2>5, <2>6, <2>7
<1>6. ASSUME NEW c \in Clients, DropExpired(c)
      PROVE  TokenPart'
  <2>1. PICK ok \in BOOLEAN : DeleteSession(req[c].token, ok)
    BY <1>6 DEF DropExpired
  <2>2. /\ req[c].token \in issued
        /\ mem.sess[req[c].token] < now \/ mem.sess[req[c].token] = NoSession
    BY <1>6 DEF DropExpired, TypeOK, TokenPart, TokenOrigin, ExpiredStays
  <2>3. DeleteStep(req[c].token, ok)
    BY <1>6, <1>c, <2>1, <2>2 DEF DropExpired, DeleteStep, IdleReq
  <2> QED BY <2>2, <2>3, DeleteKeeps
<1>7. ASSUME NEW c \in Clients, Logout(c)
      PROVE  TokenPart'
  <2>1. PICK ok \in BOOLEAN :
          /\ DeleteSession(req[c].token, ok)
          /\ IF ok THEN Goto(c, "logoutAudit") ELSE Answer(c)
    BY <1>7 DEF Logout
  <2>2. req[c].token \in issued
    BY <1>7 DEF Logout, TypeOK, TokenPart, TokenOrigin
  <2>3. \A d \in Clients : \/ req'[d] = req[d]
                           \/ req'[d].pc = "idle"
                           \/ req'[d].pc = "logoutAudit" /\ ok
                                /\ req'[d].token = req[c].token
    BY <1>c, <1>d, <2>1 DEF IdleReq, Stage
  <2>4. DeleteStep(req[c].token, ok)
    BY <1>7, <2>1, <2>3 DEF Logout, DeleteStep
  <2> QED BY <2>2, <2>4, DeleteKeeps
<1>8. ASSUME NEW c \in Clients, LogoutAnswer(c)
      PROVE  TokenPart'
  <2>1. QuietStep
    BY <1>0, <1>8, <1>a, <1>c DEF LogoutAnswer, QuietStep, IdleReq
  <2> QED BY <2>1, QuietKeeps
<1>9. ASSUME NEW c \in Clients, NEW p \in Passwords, NEW q \in Passwords,
             ChangePassword(c, p, q)
      PROVE  TokenPart'
  <2>1. \A d \in Clients : d # c => req'[d] = req[d]
    BY <1>9, <1>c DEF ChangePassword, TypeOK
  <2>2. req'[c].pc \in {"idle", "verifyChange"}
    BY <1>9, <1>c DEF ChangePassword, IdleReq, TypeOK, Request
  <2>3. QuietStep
    BY <1>0, <1>9, <2>1, <2>2 DEF ChangePassword, QuietStep
  <2> QED BY <2>3, QuietKeeps
<1>10. ASSUME NEW c \in Clients, ChangeVerify(c)
       PROVE  TokenPart'
  <2>1. QuietStep
    BY <1>0, <1>10, <1>c, <1>d DEF ChangeVerify, QuietStep, IdleReq, Stage
  <2> QED BY <2>1, QuietKeeps
<1>11. ASSUME NEW c \in Clients, ChangeUpdate(c)
       PROVE  TokenPart'
  <2>1. mem'.sess = mem.sess /\ (disk' = disk \/ disk' = mem')
    <3>1. req[c].new \in Passwords \cup {NoUser}
      BY DEF TypeOK, Request
    <3> QED BY <1>11, <1>b, <3>1 DEF ChangeUpdate
  <2>2. QuietStep
    BY <1>0, <1>11, <1>c, <1>d, <2>1 DEF ChangeUpdate, QuietStep, IdleReq, Stage
  <2> QED BY <2>2, QuietKeeps
<1>12. ASSUME NEW c \in Clients, AuditAnswer(c)
       PROVE  TokenPart'
  <2>1. QuietStep
    BY <1>0, <1>12, <1>a, <1>c DEF AuditAnswer, QuietStep, IdleReq
  <2> QED BY <2>1, QuietKeeps
<1>13. CASE StartUp
  <2>1. QuietStep
    BY <1>0, <1>13, <1>a, <1>b, AuthAssumption DEF StartUp, QuietStep
  <2> QED BY <2>1, QuietKeeps
<1>14. CASE Signal \/ CloseRepo
  <2>1. QuietStep
    BY <1>0, <1>14, <1>a DEF Signal, CloseRepo, QuietStep
  <2> QED BY <2>1, QuietKeeps
<1>15. CASE Restart
  <2> USE DEF TokenPart
  <2>1. /\ mem' = disk /\ disk' = disk /\ now' = now /\ issued' = issued
        /\ given' = given /\ used' = used /\ ended' = ended /\ expiry' = expiry
        /\ \A c \in Clients : req'[c].pc = "idle"
    BY <1>15 DEF Restart, IdleReq
  <2>2. UnissuedUnknown' /\ LogoutIsFinal' /\ TokenDurable'
    BY <2>1 DEF UnissuedUnknown, LogoutIsFinal, TokenDurable, Durable, NoSession
  <2>3. TokenOrigin' /\ AnswerDurable' /\ AnswerGone' /\ ExpiredStays'
    BY <2>1 DEF TokenOrigin, AnswerDurable, AnswerGone, ExpiredStays
  <2> QED BY <2>2, <2>3
<1>16. CASE Tick
  <2>1. now <= now'
    BY <1>16, AuthAssumption DEF Tick, TypeOK
  <2>2. QuietStep
    BY <1>16, <2>1 DEF Tick, QuietStep
  <2> QED BY <2>2, QuietKeeps
<1>17. CASE UNCHANGED vars
  <2>1. QuietStep
    BY <1>0, <1>17 DEF vars, QuietStep
  <2> QED BY <2>1, QuietKeeps
<1> QED BY <1>1, <1>2, <1>3, <1>4, <1>5, <1>6, <1>7, <1>8, <1>9, <1>10, <1>11,
           <1>12, <1>13, <1>14, <1>15, <1>16, <1>17 DEF Next

-----------------------------------------------------------------------------
(* Passwords.                                                                *)

\* A step that leaves the password, the acknowledgement and the new passwords of
\* changes alone, and does not begin to serve, keeps what is said of them.
PasswordQuiet ==
  /\ mem'.pw = mem.pw /\ acked' = acked
  /\ disk' = disk \/ disk' = mem'
  /\ phase' = "serving" => phase = "serving"
  /\ \A c \in Clients : \/ req'[c].new = req[c].new /\ req[c].pc = "verifyChange"
                        \/ req'[c] = req[c]
                        \/ req'[c].pc \notin {"verifyChange", "update"}

\* Every step keeps what is said of the password.
LEMMA PasswordStep ==
  ASSUME TypeOK, TypeOK', TokenPart, PasswordPart, [Next]_vars
  PROVE  PasswordPart'
<1> USE DEF PasswordPart, Untouched, history
<1>0. PasswordQuiet => PasswordPart'
  BY DEF PasswordQuiet, NewIsPassword, PasswordStands, AdminOnFile
<1>a. \A ok \in BOOLEAN, t \in Tokens :
        SaveOnly(ok) \/ CreateSession(t, ok) \/ DeleteSession(t, ok)
          => mem'.pw = mem.pw /\ (disk' = disk \/ disk' = mem')
  BY DEF SaveOnly, CreateSession, DeleteSession, Save, TypeOK, Account
<1>b. \A ok \in BOOLEAN :
        SaveOnly(ok) => mem'.pw = mem.pw /\ (disk' = disk \/ disk' = mem')
  BY DEF SaveOnly, Save
<1>c. \A c \in Clients : Answer(c) =>
        \A d \in Clients : req'[d] = IF d = c THEN IdleReq ELSE req[d]
  BY DEF Answer, TypeOK
<1>d. \A c \in Clients, pc \in Stage : Goto(c, pc) =>
        \A d \in Clients : IF d = c THEN req'[d].pc = pc /\ req'[d].new = req[d].new
                                    ELSE req'[d] = req[d]
  BY DEF Goto, TypeOK, Request
<1>1. ASSUME NEW c \in Clients, NEW p \in Passwords, Login(c, p)
      PROVE  PasswordPart'
  <2>1. \A d \in Clients : d # c => req'[d] = req[d]
    BY <1>1 DEF Login, TypeOK
  <2>2. req'[c].pc = "verifyLogin"
    BY <1>1 DEF Login, TypeOK, IdleReq
  <2> QED BY <1>0, <1>1, <2>1, <2>2 DEF Login, PasswordQuiet
<1>2. ASSUME NEW c \in Clients, LoginVerify(c)
      PROVE  PasswordPart'
  BY <1>0, <1>2, <1>d DEF LoginVerify, PasswordQuiet, Stage
<1>3. ASSUME NEW c \in Clients, NEW t \in Tokens, LoginCreateSession(c, t)
      PROVE  PasswordPart'
  <2>1. PICK ok \in BOOLEAN :
          /\ CreateSession(t, ok)
          /\ IF ok THEN req' = [req EXCEPT ![c].pc = "loginAudit", ![c].token = t]
                   ELSE Answer(c)
    BY <1>3 DEF LoginCreateSession
  <2>2. \A d \in Clients : d # c => req'[d] = req[d]
    BY <2>1, <1>c DEF TypeOK
  <2>3. req'[c].pc \in {"loginAudit", "idle"}
    BY <2>1, <1>c DEF IdleReq, TypeOK, Request
  <2> QED BY <1>0, <1>3, <1>a, <2>1, <2>2, <2>3 DEF LoginCreateSession, PasswordQuiet
<1>4. ASSUME NEW c \in Clients, LoginAnswer(c) \/ LogoutAnswer(c) \/ AuditAnswer(c)
      PROVE  PasswordPart'
  BY <1>0, <1>4, <1>b, <1>c
     DEF LoginAnswer, LogoutAnswer, AuditAnswer, PasswordQuiet, IdleReq
<1>5. ASSUME NEW c \in Clients, NEW t \in Tokens,
             NEW pc \in {"logout", "readUser"}, RequireAuth(c, t, pc)
      PROVE  PasswordPart'
  <2>1. \A d \in Clients : d # c => req'[d] = req[d]
    BY <1>5 DEF RequireAuth, TypeOK
  <2>2. req'[c].pc \in {"expired", "logout", "readUser"}
    BY <1>5 DEF RequireAuth, TypeOK, IdleReq
  <2> QED BY <1>0, <1>5, <2>1, <2>2 DEF RequireAuth, PasswordQuiet
<1>6. ASSUME NEW c \in Clients, DropExpired(c)
      PROVE  PasswordPart'
  <2>1. req[c].token \in Tokens
    BY <1>6 DEF DropExpired, TypeOK, TokenPart, TokenOrigin
  <2> QED BY <1>0, <1>6, <1>a, <1>c, <2>1 DEF DropExpired, PasswordQuiet, IdleReq
<1>7. ASSUME NEW c \in Clients, Logout(c)
      PROVE  PasswordPart'
  <2>1. req[c].token \in Tokens
    BY <1>7 DEF Logout, TypeOK, TokenPart, TokenOrigin
  <2>2. \A d \in Clients : req'[d] = req[d] \/ req'[d].pc \in {"idle", "logoutAudit"}
    BY <1>7, <1>c, <1>d DEF Logout, IdleReq, Stage
  <2> QED BY <1>0, <1>7, <1>a, <2>1, <2>2 DEF Logout, PasswordQuiet
<1>8. ASSUME NEW c \in Clients, NEW p \in Passwords, NEW q \in Passwords,
             ChangePassword(c, p, q)
      PROVE  PasswordPart'
  <2>1. \A d \in Clients : d # c => req'[d] = req[d]
    BY <1>8, <1>c DEF ChangePassword, TypeOK
  <2>2. req'[c].pc = "idle" \/ req'[c].new = q
    BY <1>8, <1>c DEF ChangePassword, IdleReq, TypeOK, Request
  <2> QED BY <1>8, <2>1, <2>2
          DEF ChangePassword, NewIsPassword, PasswordStands, AdminOnFile
<1>9. ASSUME NEW c \in Clients, ChangeVerify(c)
      PROVE  PasswordPart'
  BY <1>0, <1>9, <1>c, <1>d DEF ChangeVerify, PasswordQuiet, IdleReq, Stage
<1>10. ASSUME NEW c \in Clients, ChangeUpdate(c)
       PROVE  PasswordPart'
  <2>1. PICK ok \in BOOLEAN :
          /\ PutPassword(req[c].new, ok)
          /\ acked' = IF ok THEN req[c].new ELSE NoUser
          /\ IF ok THEN Goto(c, "audit") ELSE Answer(c)
    BY <1>10 DEF ChangeUpdate
  <2>2. req[c].new \in Passwords /\ req[c].new # NoUser
    BY <1>10, AuthAssumption DEF ChangeUpdate, NewIsPassword
  <2>3. mem'.pw = req[c].new /\ disk' = IF ok THEN mem' ELSE disk
    BY <2>1 DEF PutPassword, Save, TypeOK, Account
  <2>4. \A d \in Clients : req'[d] = req[d] \/ req'[d].pc \in {"idle", "audit"}
    BY <2>1, <1>c, <1>d DEF IdleReq, Stage
  <2> QED BY <1>10, <2>1, <2>2, <2>3, <2>4
          DEF ChangeUpdate, NewIsPassword, PasswordStands, AdminOnFile
<1>11. CASE StartUp
  <2>1. PICK ok \in BOOLEAN :
          /\ IF mem.pw = NoUser THEN PutPassword(Bootstrap, ok) ELSE SaveOnly(ok)
          /\ After(ok)
    BY <1>11 DEF StartUp
  <2>2. /\ mem'.pw = IF mem.pw = NoUser THEN Bootstrap ELSE mem.pw
        /\ disk' = IF ok THEN mem' ELSE disk
    BY <2>1 DEF PutPassword, SaveOnly, Save, TypeOK, Account
  <2>3. phase' = IF ok THEN "serving" ELSE "ending"
    BY <2>1 DEF After
  <2>4. req' = req /\ acked' = acked
    BY <1>11 DEF StartUp
  <2> QED BY <2>2, <2>3, <2>4, AuthAssumption
          DEF NewIsPassword, PasswordStands, AdminOnFile
<1>12. CASE Signal \/ CloseRepo
  BY <1>0, <1>12, <1>b DEF Signal, CloseRepo, PasswordQuiet
<1>13. CASE Restart
  <2>1. \A c \in Clients : req'[c].pc = "idle"
    BY <1>13 DEF Restart, IdleReq
  <2> QED BY <1>13, <2>1 DEF Restart, NewIsPassword, PasswordStands, AdminOnFile
<1>14. CASE Tick
  BY <1>0, <1>14 DEF Tick, PasswordQuiet
<1>15. CASE UNCHANGED vars
  BY <1>0, <1>15 DEF vars, PasswordQuiet
<1> QED BY <1>1, <1>2, <1>3, <1>4, <1>5, <1>6, <1>7, <1>8, <1>9, <1>10, <1>11,
           <1>12, <1>13, <1>14, <1>15 DEF Next

-----------------------------------------------------------------------------
(* The theorems.                                                             *)

\* The first start, of an empty state file.
LEMMA AuthInit == Init => AuthInv
<1> SUFFICES ASSUME Init PROVE AuthInv
  OBVIOUS
<1>1. TypeOK
  BY AuthAssumption, ExpiryType
     DEF Init, TypeOK, Account, Empty, Request, Stage, IdleReq
<1>2. TokenPart
  BY DEF Init, Empty, IdleReq, TokenPart, TokenOrigin, UnissuedUnknown, TokenDurable,
         AnswerDurable, LogoutIsFinal, AnswerGone, ExpiredStays
<1>3. PasswordPart
  BY DEF Init, Empty, IdleReq, PasswordPart, NewIsPassword, PasswordStands, AdminOnFile
<1> QED BY <1>1, <1>2, <1>3 DEF AuthInv

\* The invariant of the accounts and sessions holds in every state.
THEOREM AuthInvariant == Spec => []AuthInv
<1>1. AuthInv /\ [Next]_vars => AuthInv'
  BY TypeStep, TokenStep, PasswordStep DEF AuthInv
<1> QED BY <1>1, AuthInit, PTL DEF Spec

\* A logout that Logout answered with success is final, for any number of
\* clients, tokens, failed saves and restarts.
THEOREM LogoutFinality == Spec => []LogoutIsFinal
BY AuthInvariant, PTL DEF AuthInv, TokenPart

\* A token that Login answered is in memory and on file with the expiry answered
\* with it until that instant, unless it is used to log out, whatever save fails,
\* whatever other session is deleted and whenever the process dies.
THEOREM TokenDurability == Spec => []TokenDurable
BY AuthInvariant, PTL DEF AuthInv, TokenPart

\* A password change that was answered with success is not undone by the
\* bootstrap of a later start, by a save of another request or by a crash.
THEOREM PasswordDurability == Spec => []PasswordStands
BY AuthInvariant, PTL DEF AuthInv, PasswordPart

\* Requests are served only while an account is in memory and on file.
THEOREM AdminDurability == Spec => []AdminOnFile
BY AuthInvariant, PTL DEF AuthInv, PasswordPart
=============================================================================
