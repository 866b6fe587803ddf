---------------------------- MODULE LoginLimiter ----------------------------
(***************************************************************************)
(* The login rate limit (security/ratelimit, used by handleLogin) for one  *)
(* key, that is one combination of client address and username: keys do    *)
(* not influence each other.  A request asks Allow, checks the password    *)
(* without any lock (bcrypt takes long), and then registers the outcome,   *)
(* so that several requests can be between the question and the record.    *)
(***************************************************************************)
EXTENDS Naturals, FiniteSets, Sequences

CONSTANTS
  Clients,    \* login requests in flight
  MaxFail,    \* failures before the block (5 in the code)
  Window,     \* length of the window and of the block (5 minutes)
  Horizon,    \* bound: last instant of the model
  MaxHistory  \* bound: failures recorded in the history

ASSUME LimiterAssumption ==
  /\ IsFiniteSet(Clients)
  /\ MaxFail \in Nat \ {0}
  /\ Window \in Nat \ {0}
  /\ Horizon \in Nat
  /\ MaxHistory \in Nat

VARIABLES
  now,     \* time.Now
  entry,   \* entries[key]
  pc,      \* where each request is
  fails    \* history: instants of the failures since the last success

vars == <<now, entry, pc, fails>>

NoEntry == [present |-> FALSE, failCount |-> 0, blockedUntil |-> 0,
            lastAttempt |-> 0]

Init ==
  /\ now = 0
  /\ entry = NoEntry
  /\ pc = [c \in Clients |-> "idle"]
  /\ fails = << >>

\* Mutant of Expired: the count is never forgotten.
ExpiredNever == FALSE

\* The entry is older than the window (strictly).
Expired == now - entry.lastAttempt > Window
\* The answer of Allow.
Allowed == ~entry.present \/ Expired \/ now >= entry.blockedUntil

\* handleLogin asks Allow, which also forgets an expired entry; a request that
\* is not allowed is answered 429.  The handler reads the clock just before Allow
\* (or RegisterFailure) waits for the mutex; here the two are one step, so a clock
\* that moves to the next instant in between is left out.
Allow(c) ==
  /\ pc[c] = "idle"
  /\ pc' = IF Allowed THEN [pc EXCEPT ![c] = "verify"] ELSE pc
  /\ entry' = IF entry.present /\ Expired THEN NoEntry ELSE entry
  /\ UNCHANGED <<now, fails>>

\* auth.Login: right or wrong credentials, or an internal error, which is
\* registered as neither.
Login(c) ==
  /\ pc[c] = "verify"
  /\ \E r \in {"failed", "succeeded", "idle"} : pc' = [pc EXCEPT ![c] = r]
  /\ UNCHANGED <<now, entry, fails>>

\* RegisterFailure, with the failure counts that block as a parameter: a missing
\* or expired entry starts again from zero.
Register(c, blocking) ==
  /\ pc[c] = "failed"
  /\ Len(fails) < MaxHistory
  /\ LET e == IF ~entry.present \/ Expired THEN NoEntry ELSE entry
         n == e.failCount + 1
     IN entry' = [present |-> TRUE, failCount |-> n, lastAttempt |-> now,
                  blockedUntil |-> IF n \in blocking THEN now + Window
                                                     ELSE e.blockedUntil]
  /\ fails' = Append(fails, now)
  /\ pc' = [pc EXCEPT ![c] = "idle"]
  /\ UNCHANGED now

\* Mutants of RegisterFailure: the block starts one failure too late; it is
\* not renewed by later failures.
RegisterFailureLate(c) == Register(c, {n \in Nat : n > MaxFail})
RegisterFailureOnce(c) == Register(c, {MaxFail})

\* The MaxFail-th failure blocks for a window from now, and so does every
\* further one.
RegisterFailure(c) == Register(c, {n \in Nat : n >= MaxFail})

RegisterSuccess(c) ==
  /\ pc[c] = "succeeded"
  /\ entry' = NoEntry
  /\ fails' = << >>
  /\ pc' = [pc EXCEPT ![c] = "idle"]
  /\ UNCHANGED now

Tick == now < Horizon /\ now' = now + 1 /\ UNCHANGED <<entry, pc, fails>>

Next ==
  \/ \E c \in Clients : Allow(c) \/ Login(c) \/ RegisterFailure(c)
                          \/ RegisterSuccess(c)
  \/ Tick

Spec == Init /\ [][Next]_vars

-----------------------------------------------------------------------------
(* Properties.                                                               *)

\* Failures in the last Window instants, the present one included.
Recent(t) == Cardinality({i \in 1 .. Len(fails) :
                            fails[i] + Window > t /\ fails[i] <= t})

\* However the requests interleave, no more than MaxFail wrong passwords plus
\* one for every other request that was already past Allow get through within
\* one window (since the last success).
GuessesBounded == Recent(now) <= MaxFail + Cardinality(Clients) - 1

\* Once MaxFail failures fell into one window, no request is let through until
\* a whole window has passed since the last failure.
BlockHolds ==
  (Len(fails) >= MaxFail /\ fails[Len(fails)] + Window > now
    /\ fails[Len(fails) - MaxFail + 1] + Window > fails[Len(fails)])
    => ~Allowed

\* Nobody is blocked without cause, and the block ends by itself: who is blocked
\* has failed MaxFail times since the last success, the last time less than a
\* window ago, each time at most a window after the time before.  (Not all within
\* one window: the count lives on as long as failures keep coming.)
BlockedForCause ==
  ~Allowed =>
    /\ Len(fails) >= MaxFail
    /\ fails[Len(fails)] + Window > now
    /\ \A i \in Len(fails) - MaxFail + 2 .. Len(fails) :
         fails[i] - fails[i - 1] <= Window
=============================================================================
