-------------------------- MODULE TimeLimitsProofs --------------------------
(***************************************************************************)
(* Proofs about the two limits in time, which do not touch each other.     *)
(*                                                                         *)
(* LoginLimiter: the entry is an exact summary of the failures since the   *)
(* last success, so a block has its cause, holds its time, and bounds the  *)
(* guesses of requests that were already past Allow.                       *)
(*                                                                         *)
(* Updater, with its cooldown: what a request that read the status may     *)
(* still rely on when it comes to stop, reset or start the unit, however   *)
(* many other requests interleave and whatever fails.                      *)
(***************************************************************************)
EXTENDS LoginLimiter, Updater, FiniteSetTheorems, TLAPS

-----------------------------------------------------------------------------
(* The inductive invariant of the login rate limit.                          *)

TypeOK ==
  /\ now \in Nat
  /\ entry \in [present : BOOLEAN, failCount : Nat, blockedUntil : Nat,
                lastAttempt : Nat]
  /\ pc \in [Clients -> {"idle", "verify", "failed", "succeeded"}]
  /\ fails \in Seq(Nat)

\* Failures are recorded in the order of time.
InOrder ==
  /\ \A i \in 1 .. Len(fails) : fails[i] <= now
  /\ \A i, j \in 1 .. Len(fails) : i <= j => fails[i] <= fails[j]

\* Without an entry the failures, if any, are older than a window.
AbsentSound ==
  ~entry.present => Len(fails) = 0 \/ now - fails[Len(fails)] > Window

\* An entry counts exactly the last failures of which each came at most a window
\* after the one before.
CountSound ==
  entry.present =>
    LET n == entry.failCount
        l == Len(fails)
    IN /\ n \in 1 .. l
       /\ entry.lastAttempt = fails[l]
       /\ \A i \in l - n + 2 .. l : fails[i] - fails[i - 1] <= Window
       /\ n = l \/ fails[l - n + 1] - fails[l - n] > Window

\* The block runs from the last failure, if there were enough of them.
BlockSound ==
  entry.present => entry.blockedUntil = IF entry.failCount >= MaxFail
                                        THEN entry.lastAttempt + Window ELSE 0

\* Requests past Allow.
InFlight == {c \in Clients : pc[c] # "idle"}

\* When the window is full, the requests past Allow are among those that were
\* past it when it filled up.
FlightBounded ==
  Recent(now) >= MaxFail
    => Recent(now) + Cardinality(InFlight) <= MaxFail + Cardinality(Clients) - 1

EntryInv == TypeOK /\ InOrder /\ AbsentSound /\ CountSound /\ BlockSound
LimiterInv == EntryInv /\ FlightBounded
-----------------------------------------------------------------------------
(* What the entry says.                                                      *)

\* Enough failures within a window, the last less than a window ago: blocked.
LEMMA EnoughBlocks == EntryInv => BlockHolds
<1> DEFINE l == Len(fails)
           n == entry.failCount
<1> SUFFICES ASSUME EntryInv, l >= MaxFail, fails[l] + Window > now,
                    fails[l - MaxFail + 1] + Window > fails[l]
             PROVE  ~Allowed
  BY DEF BlockHolds
<1> USE LimiterAssumption DEF EntryInv
<1>0. MaxFail \in Nat /\ MaxFail >= 1 /\ Window \in Nat
  OBVIOUS
<1>1. /\ l \in Nat /\ l >= 1 /\ now \in Nat
      /\ \A i \in 1 .. l : fails[i] \in Nat /\ fails[i] <= now
      /\ \A i, j \in 1 .. l : i <= j => fails[i] <= fails[j]
  <2>1. l \in Nat /\ now \in Nat /\ \A i \in 1 .. l : fails[i] \in Nat
    BY DEF TypeOK
  <2>2. l >= 1
    BY <1>0, <2>1
  <2> QED BY <2>1, <2>2 DEF InOrder
<1>2. entry.present
  BY <1>1 DEF AbsentSound, TypeOK
<1>3. /\ n \in 1 .. l /\ entry.lastAttempt = fails[l]
      /\ n = l \/ fails[l - n + 1] - fails[l - n] > Window
  BY <1>2 DEF CountSound
<1>4. n >= MaxFail
  <2> SUFFICES ASSUME n < MaxFail PROVE FALSE
    BY <1>1, <1>3
  <2>1. /\ l - n \in 1 .. l /\ l - n + 1 \in 1 .. l /\ l - MaxFail + 1 \in 1 .. l
        /\ l - MaxFail + 1 <= l - n /\ l - n + 1 <= l /\ l \in 1 .. l
    BY <1>1, <1>3
  <2>2. fails[l - MaxFail + 1] <= fails[l - n] /\ fails[l - n + 1] <= fails[l]
    BY <1>1, <2>1
  <2>3. fails[l - n + 1] - fails[l - n] > Window
    BY <1>1, <1>3, <2>1
  <2>4. /\ fails[l - MaxFail + 1] \in Nat /\ fails[l - n] \in Nat
        /\ fails[l - n + 1] \in Nat /\ fails[l] \in Nat
    BY <1>1, <2>1
  <2>5. fails[l - MaxFail + 1] + Window > fails[l]
    OBVIOUS
  <2>6. \A p, q, r, s \in Nat : p <= q /\ r <= s /\ p + Window > s => ~(r - q > Window)
    BY <1>0
  <2> QED BY <2>2, <2>3, <2>4, <2>5, <2>6
<1>5. entry.blockedUntil = fails[l] + Window
  BY <1>2, <1>3, <1>4 DEF BlockSound
<1>6. fails[l] \in Nat
  BY <1>1
<1> QED BY <1>1, <1>2, <1>3, <1>5, <1>6 DEF Allowed, Expired

\* Who is blocked has failed often enough.
LEMMA BlockedHasCause == EntryInv => BlockedForCause
<1> DEFINE l == Len(fails)
           n == entry.failCount
<1> SUFFICES ASSUME EntryInv, ~Allowed
             PROVE  /\ l >= MaxFail
                    /\ fails[l] + Window > now
                    /\ \A i \in l - MaxFail + 2 .. l : fails[i] - fails[i - 1] <= Window
  BY DEF BlockedForCause
<1> USE LimiterAssumption DEF EntryInv
<1>1. entry.present /\ now < entry.blockedUntil /\ now \in Nat /\ l \in Nat
  BY DEF Allowed, TypeOK
<1>2. /\ n \in 1 .. l /\ entry.lastAttempt = fails[l]
      /\ \A i \in l - n + 2 .. l : fails[i] - fails[i - 1] <= Window
  BY <1>1 DEF CountSound
<1>3. n >= MaxFail /\ entry.blockedUntil = fails[l] + Window
  BY <1>1, <1>2 DEF BlockSound
<1>4. \A i \in l - MaxFail + 2 .. l : i \in l - n + 2 .. l
  BY <1>1, <1>2, <1>3
<1> QED BY <1>1, <1>2, <1>3, <1>4

-----------------------------------------------------------------------------
(* The steps.                                                                *)

\* A failure is added to the count, or begins a new one after a window.
LEMMA RegisterKeeps ==
  ASSUME EntryInv, NEW c \in Clients, RegisterFailure(c)
  PROVE  EntryInv'
<1> USE LimiterAssumption DEF EntryInv
<1> DEFINE l == Len(fails)
           fresh == ~entry.present \/ Expired
           n == IF fresh THEN 1 ELSE entry.failCount + 1
<1>1. /\ fails' = Append(fails, now) /\ now' = now
      /\ pc' = [pc EXCEPT ![c] = "idle"]
      /\ entry' = [present |-> TRUE, failCount |-> n, lastAttempt |-> now,
                   blockedUntil |-> IF n >= MaxFail THEN now + Window
                                    ELSE IF fresh THEN 0 ELSE entry.blockedUntil]
  <2>1. n \in Nat
    BY DEF TypeOK
  <2>2. n \in {m \in Nat : m >= MaxFail} <=> n >= MaxFail
    BY <2>1
  <2> DEFINE e == IF fresh THEN NoEntry ELSE entry
  <2>3. /\ e.failCount + 1 = n
        /\ e.blockedUntil = IF fresh THEN 0 ELSE entry.blockedUntil
    BY DEF NoEntry
  <2>4. entry' = [present |-> TRUE, failCount |-> e.failCount + 1, lastAttempt |-> now,
                  blockedUntil |-> IF e.failCount + 1 \in {m \in Nat : m >= MaxFail}
                                   THEN now + Window ELSE e.blockedUntil]
    BY Zenon DEF RegisterFailure, Register
  <2>5. /\ fails' = Append(fails, now) /\ now' = now
        /\ pc' = [pc EXCEPT ![c] = "idle"]
    BY DEF RegisterFailure, Register
  <2> HIDE DEF e, n, fresh
  <2> QED BY <2>2, <2>3, <2>4, <2>5
<1>2. /\ l \in Nat /\ now \in Nat /\ n \in Nat
      /\ Len(fails') = l + 1 /\ fails'[l + 1] = now
      /\ \A i \in 1 .. l : fails[i] \in Nat /\ fails'[i] = fails[i]
      /\ \A i \in 1 .. l + 1 : i \in 1 .. l \/ i = l + 1
  BY <1>1 DEF TypeOK
<1>3. TypeOK'
  <2>1. entry' \in [present : BOOLEAN, failCount : Nat, blockedUntil : Nat,
                    lastAttempt : Nat]
    <3>1. now + Window \in Nat /\ entry.blockedUntil \in Nat
      BY DEF TypeOK
    <3> HIDE DEF n, fresh
    <3> QED BY <1>1, <1>2, <3>1
  <2>2. fails' \in Seq(Nat) /\ pc' \in [Clients -> {"idle", "verify", "failed", "succeeded"}]
    BY <1>1, <1>2 DEF TypeOK
  <2> QED BY <1>1, <1>2, <2>1, <2>2 DEF TypeOK
<1>4. InOrder'
  <2>1. \A i \in 1 .. l : fails[i] <= now
    BY DEF InOrder
  <2>2. \A i \in 1 .. l + 1 : fails'[i] <= now
    BY <1>2, <2>1
  <2>3. \A i, j \in 1 .. l + 1 : i <= j => fails'[i] <= fails'[j]
    BY <1>2, <2>1, <2>2 DEF InOrder
  <2> QED BY <1>1, <1>2, <2>2, <2>3 DEF InOrder
<1>5. AbsentSound'
  BY <1>1 DEF AbsentSound
<1>6. fresh => l = 0 \/ now - fails[l] > Window
  BY DEF AbsentSound, CountSound, Expired
<1>7. ~fresh => /\ entry.failCount \in 1 .. l
                /\ now - fails[l] <= Window
  BY <1>2 DEF CountSound, Expired, TypeOK
<1>8. CountSound'
  <2>1. n \in 1 .. l + 1
    BY <1>2, <1>7
  <2>2. ASSUME NEW i \in l + 1 - n + 2 .. l + 1
        PROVE  fails'[i] - fails'[i - 1] <= Window
    <3>1. ~fresh /\ n = entry.failCount + 1
      BY <1>2, <2>2
    <3>2. CASE i = l + 1
      BY <1>2, <1>7, <3>1, <3>2
    <3>3. CASE i # l + 1
      <4>1. i \in l - entry.failCount + 2 .. l /\ i \in 1 .. l /\ i - 1 \in 1 .. l
        BY <1>2, <1>7, <3>1, <3>3, <2>2
      <4>2. fails[i] - fails[i - 1] <= Window
        BY <3>1, <4>1 DEF CountSound
      <4> QED BY <1>2, <4>1, <4>2
    <3> QED BY <3>2, <3>3
  <2>3. n = l + 1 \/ fails'[l + 1 - n + 1] - fails'[l + 1 - n] > Window
    <3>1. CASE fresh
      <4>1. n = 1 /\ l + 1 - n + 1 = l + 1 /\ l + 1 - n = l
        BY <1>2, <3>1
      <4> QED BY <1>2, <1>6, <3>1, <4>1
    <3>2. CASE ~fresh /\ entry.failCount # l
      <4>1. /\ fails[l - entry.failCount + 1] - fails[l - entry.failCount] > Window
            /\ l - entry.failCount + 1 \in 1 .. l /\ l - entry.failCount \in 1 .. l
            /\ l + 1 - n + 1 = l - entry.failCount + 1 /\ l + 1 - n = l - entry.failCount
        <5>1. fails[l - entry.failCount + 1] - fails[l - entry.failCount] > Window
          BY <3>2 DEF CountSound
        <5>2. entry.failCount \in 1 .. l - 1 /\ n = entry.failCount + 1
          BY <1>2, <1>7, <3>2
        <5>3. \A k \in 1 .. l - 1 :
                /\ l - k + 1 \in 1 .. l /\ l - k \in 1 .. l
                /\ l + 1 - (k + 1) + 1 = l - k + 1 /\ l + 1 - (k + 1) = l - k
          BY <1>2
        <5> HIDE DEF n, fresh
        <5> QED BY <5>1, <5>2, <5>3
      <4> QED BY <1>2, <4>1
    <3> QED BY <3>1, <3>2, <1>2, <1>7
  <2>4. entry'.failCount = n /\ entry'.lastAttempt = now
    BY <1>1
  <2> HIDE DEF n
  <2> QED BY <1>2, <2>1, <2>2, <2>3, <2>4 DEF CountSound
<1>9. BlockSound'
  BY <1>1, <1>2, <1>7 DEF BlockSound, TypeOK
<1> QED BY <1>3, <1>4, <1>5, <1>8, <1>9

\* Every step keeps the entry a summary of the failures.
LEMMA EntryStep ==
  ASSUME EntryInv, [Next]_vars
  PROVE  EntryInv'
<1> USE LimiterAssumption DEF EntryInv
<1>1. ASSUME NEW c \in Clients, Allow(c) \/ Login(c)
      PROVE  EntryInv'
  <2>1. /\ now' = now /\ fails' = fails
        /\ entry' = entry \/ (entry' = NoEntry /\ entry.present /\ Expired)
    BY <1>1 DEF Allow, Login
  <2>2. TypeOK'
    <3>1. pc' \in [Clients -> {"idle", "verify", "failed", "succeeded"}]
      BY <1>1 DEF Allow, Login, TypeOK
    <3>2. NoEntry \in [present : BOOLEAN, failCount : Nat, blockedUntil : Nat,
                       lastAttempt : Nat]
      BY DEF NoEntry
    <3> QED BY <2>1, <3>1, <3>2 DEF TypeOK
  <2>3. AbsentSound'
    BY <2>1 DEF AbsentSound, CountSound, Expired, NoEntry
  <2> QED BY <2>1, <2>2, <2>3 DEF InOrder, CountSound, BlockSound, NoEntry
<1>2. ASSUME NEW c \in Clients, RegisterFailure(c)
      PROVE  EntryInv'
  BY <1>2, RegisterKeeps
<1>3. ASSUME NEW c \in Clients, RegisterSuccess(c)
      PROVE  EntryInv'
  BY <1>3 DEF RegisterSuccess, NoEntry, TypeOK, InOrder, AbsentSound, CountSound,
              BlockSound
<1>4. CASE Tick
  <2>1. now' = now + 1 /\ entry' = entry /\ pc' = pc /\ fails' = fails
    BY <1>4 DEF Tick
  <2>2. TypeOK' /\ InOrder'
    BY <2>1 DEF TypeOK, InOrder
  <2>3. AbsentSound'
    BY <2>1 DEF AbsentSound, TypeOK
  <2> QED BY <2>1, <2>2, <2>3 DEF CountSound, BlockSound
<1>5. CASE UNCHANGED vars
  BY <1>5 DEF vars, TypeOK, InOrder, AbsentSound, CountSound, BlockSound
<1> QED BY <1>1, <1>2, <1>3, <1>4, <1>5 DEF Next
-----------------------------------------------------------------------------
(* Guesses within a window.                                                  *)

\* The failures Recent counts.
InWindow(t) == {i \in 1 .. Len(fails) : fails[i] + Window > t /\ fails[i] <= t}

\* They are finitely many.
LEMMA WindowFinite ==
  ASSUME TypeOK
  PROVE  /\ IsFiniteSet(InWindow(now))
         /\ Recent(now) = Cardinality(InWindow(now))
         /\ Recent(now) \in Nat
<1>1. IsFiniteSet(1 .. Len(fails))
  BY FS_Interval DEF TypeOK
<1>2. InWindow(now) \subseteq 1 .. Len(fails)
  BY DEF InWindow
<1>3. IsFiniteSet(InWindow(now))
  BY <1>1, <1>2, FS_Subset
<1>4. Recent(now) = Cardinality(InWindow(now))
  BY DEF Recent, InWindow
<1> QED BY <1>3, <1>4, FS_CardinalityType

\* MaxFail failures within the present window: nobody is let through.
LEMMA FullWindowBlocks ==
  ASSUME EntryInv, Recent(now) >= MaxFail
  PROVE  ~Allowed
<1> USE LimiterAssumption DEF EntryInv
<1> DEFINE l == Len(fails)
           m == l - MaxFail + 1
<1>0. MaxFail \in Nat /\ MaxFail >= 1 /\ Window \in Nat
  OBVIOUS
<1>1. /\ l \in Nat /\ now \in Nat
      /\ \A i \in 1 .. l : fails[i] \in Nat /\ fails[i] <= now
      /\ \A i, j \in 1 .. l : i <= j => fails[i] <= fails[j]
  BY DEF TypeOK, InOrder
<1>2. m \in Int
  BY <1>0, <1>1
<1>3. m \in InWindow(now)
  <2> SUFFICES ASSUME m \notin InWindow(now) PROVE FALSE
    OBVIOUS
  <2>1. ASSUME NEW i \in InWindow(now)
        PROVE  i \in m + 1 .. l
    <3>1. i \in 1 .. l /\ fails[i] + Window > now /\ fails[i] \in Nat
      BY <1>1, <2>1 DEF InWindow
    <3>2. i # m
      BY <2>1
    <3>3. ~(i < m)
      <4> SUFFICES ASSUME i < m PROVE FALSE
        OBVIOUS
      <4>1. m \in 1 .. l /\ i <= m
        BY <1>0, <1>1, <1>2, <3>1
      <4>2. fails[i] <= fails[m] /\ fails[m] \in Nat /\ fails[m] <= now
        BY <1>1, <3>1, <4>1
      <4>3. fails[m] + Window > now
        BY <1>0, <1>1, <3>1, <4>2
      <4> QED BY <4>1, <4>2, <4>3 DEF InWindow
    <3> HIDE DEF m
    <3> QED BY <1>1, <1>2, <3>1, <3>2, <3>3
  <2>2. /\ IsFiniteSet(m + 1 .. l)
        /\ Cardinality(m + 1 .. l) = IF m + 1 > l THEN 0 ELSE l - (m + 1) + 1
    <3>1. m + 1 \in Int /\ l \in Int
      BY <1>1, <1>2
    <3> HIDE DEF m, l
    <3> QED BY <3>1, FS_Interval
  <2>3. Cardinality(m + 1 .. l) <= MaxFail - 1
    <3>1. \A a \in Nat, b \in Int : b = a - MaxFail + 1 =>
            (IF b + 1 > a THEN 0 ELSE a - (b + 1) + 1) <= MaxFail - 1
      BY <1>0
    <3> QED BY <1>1, <1>2, <2>2, <3>1
  <2>4. Cardinality(InWindow(now)) <= Cardinality(m + 1 .. l)
    <3>1. InWindow(now) \subseteq m + 1 .. l
      BY <2>1
    <3> QED BY <2>2, <3>1, FS_Subset
  <2>5. Cardinality(m + 1 .. l) \in Nat
    BY <2>2, FS_CardinalityType
  <2> HIDE DEF m
  <2> QED BY <1>0, <2>3, <2>4, <2>5, WindowFinite
<1>4. m \in 1 .. l /\ fails[m] + Window > now /\ fails[m] \in Nat
  BY <1>1, <1>3 DEF InWindow
<1>5. l \in 1 .. l /\ m <= l /\ l >= MaxFail
  BY <1>0, <1>1, <1>4
<1>6. fails[l] <= now /\ fails[m] <= fails[l] /\ fails[l] \in Nat
  BY <1>1, <1>4, <1>5
<1>7. fails[l] + Window > now /\ fails[m] + Window > fails[l]
  BY <1>0, <1>1, <1>4, <1>6
<1> QED BY <1>5, <1>7, EnoughBlocks DEF BlockHolds

\* The requests past Allow are finitely many, one fewer when one is answered.
LEMMA FlightFinite ==
  ASSUME TypeOK
  PROVE  /\ IsFiniteSet(InFlight)
         /\ Cardinality(InFlight) \in Nat /\ Cardinality(Clients) \in Nat
         /\ Cardinality(InFlight) <= Cardinality(Clients)
<1>1. InFlight \subseteq Clients
  BY DEF InFlight
<1> QED BY <1>1, LimiterAssumption, FS_Subset, FS_CardinalityType

\* Every step keeps the guesses that are still possible bounded.
LEMMA FlightStep ==
  ASSUME EntryInv, EntryInv', FlightBounded, [Next]_vars
  PROVE  FlightBounded'
<1> USE LimiterAssumption
<1> DEFINE F == Cardinality(InFlight)
           R == Recent(now)
           C == Cardinality(Clients)
<1>0. MaxFail \in Nat /\ MaxFail >= 1 /\ Window \in Nat
  OBVIOUS
<1>1. F \in Nat /\ R \in Nat /\ C \in Nat /\ F' \in Nat /\ R' \in Nat
      /\ IsFiniteSet(InFlight) /\ IsFiniteSet(InWindow(now))
      /\ IsFiniteSet(InFlight') /\ IsFiniteSet(InWindow(now)')
      /\ R = Cardinality(InWindow(now)) /\ R' = Cardinality(InWindow(now)')
  <2>1. /\ F \in Nat /\ R \in Nat /\ C \in Nat
        /\ IsFiniteSet(InFlight) /\ IsFiniteSet(InWindow(now))
        /\ R = Cardinality(InWindow(now))
    BY FlightFinite, WindowFinite DEF EntryInv
  <2>2. InFlight' \subseteq Clients /\ InWindow(now)' \subseteq 1 .. Len(fails')
    BY DEF InFlight, InWindow
  <2>3. IsFiniteSet(1 .. Len(fails'))
    BY FS_Interval DEF EntryInv, TypeOK
  <2>4. IsFiniteSet(InFlight') /\ IsFiniteSet(InWindow(now)')
    BY <2>2, <2>3, FS_Subset
  <2>5. R' = Cardinality(InWindow(now)')
    BY DEF Recent, InWindow
  <2>6. F' \in Nat /\ R' \in Nat
    BY <2>4, <2>5, FS_CardinalityType
  <2> QED BY <2>1, <2>4, <2>5, <2>6
<1>2. ASSUME R' <= R, F' <= F
      PROVE  FlightBounded'
  <2> HIDE DEF F, R, C
  <2>1. R >= MaxFail => R + F <= MaxFail + C - 1
    BY DEF FlightBounded, F, R, C
  <2>2. R' >= MaxFail => R' + F' <= MaxFail + C - 1
    BY <1>0, <1>1, <1>2, <2>1
  <2> QED BY <2>2 DEF FlightBounded, F, R, C
<1>3. InFlight' \subseteq InFlight => F' <= F
  BY <1>1, FS_Subset
<1>4. InWindow(now)' \subseteq InWindow(now) => R' <= R
  BY <1>1, FS_Subset
<1>5. ASSUME NEW c \in Clients, Allow(c)
      PROVE  FlightBounded'
  <2>1. now' = now /\ fails' = fails
    BY <1>5 DEF Allow
  <2>2. InWindow(now)' = InWindow(now) /\ R' = R
    BY <2>1 DEF InWindow, Recent
  <2>3. CASE Allowed
    <3>1. ~(R >= MaxFail)
      BY <2>3, FullWindowBlocks
    <3>2. ~(R' >= MaxFail)
      BY <2>2, <3>1
    <3> QED BY <3>2 DEF FlightBounded
  <2>4. CASE ~Allowed
    <3>1. pc' = pc
      BY <1>5, <2>4 DEF Allow
    <3>2. InFlight' \subseteq InFlight
      BY <3>1 DEF InFlight
    <3> HIDE DEF F, R, C
    <3> QED BY <1>1, <1>2, <1>3, <1>4, <2>2, <3>2
  <2> QED BY <2>3, <2>4
<1>6. ASSUME NEW c \in Clients, Login(c)
      PROVE  FlightBounded'
  <2>1. InWindow(now)' \subseteq InWindow(now)
    BY <1>6 DEF Login, InWindow
  <2>2. InFlight' \subseteq InFlight
    BY <1>6 DEF Login, InFlight, EntryInv, TypeOK
  <2> QED BY <1>2, <1>3, <1>4, <2>1, <2>2
<1>7. ASSUME NEW c \in Clients, RegisterFailure(c)
      PROVE  FlightBounded'
  <2>1. /\ pc[c] = "failed" /\ pc' = [pc EXCEPT ![c] = "idle"]
        /\ now' = now /\ fails' = Append(fails, now)
    BY <1>7 DEF RegisterFailure, Register
  <2>2. InFlight' = InFlight \ {c} /\ c \in InFlight
    BY <2>1 DEF InFlight, EntryInv, TypeOK
  <2>3. F' = F - 1
    BY <1>1, <2>2, FS_RemoveElement
  <2>4. InWindow(now)' = InWindow(now) \cup {Len(fails) + 1}
    <3>1. /\ Len(fails) \in Nat /\ now \in Nat /\ Len(fails') = Len(fails) + 1
          /\ fails'[Len(fails) + 1] = now
          /\ \A i \in 1 .. Len(fails) : fails'[i] = fails[i]
          /\ \A i : i \in 1 .. Len(fails') <=> i \in 1 .. Len(fails) \/ i = Len(fails) + 1
      BY <2>1 DEF EntryInv, TypeOK
    <3>2. now + Window > now /\ now <= now /\ Len(fails) + 1 \notin 1 .. Len(fails)
      BY <3>1
    <3>3. Len(fails) + 1 \in InWindow(now)'
      BY <2>1, <3>1, <3>2 DEF InWindow
    <3>4. \A i \in 1 .. Len(fails) : i \in InWindow(now)' <=> i \in InWindow(now)
      BY <2>1, <3>1 DEF InWindow
    <3>5. \A i : i \in InWindow(now)' => i \in 1 .. Len(fails) \/ i = Len(fails) + 1
      BY <3>1 DEF InWindow
    <3>6. \A i : i \in InWindow(now) => i \in 1 .. Len(fails)
      BY DEF InWindow
    <3> QED BY <3>3, <3>4, <3>5, <3>6
  <2>5. Len(fails) + 1 \notin InWindow(now)
    BY DEF InWindow, EntryInv, TypeOK
  <2>6. R' = R + 1
    BY <1>1, <2>4, <2>5, FS_AddElement
  <2>7. R >= MaxFail => R + F <= MaxFail + C - 1
    BY DEF FlightBounded
  <2>8. F <= C
    BY FlightFinite DEF EntryInv
  <2>9. R' >= MaxFail => R' + F' <= MaxFail + C - 1
    <3> HIDE DEF F, R, C
    <3> QED BY <1>0, <1>1, <2>3, <2>6, <2>7, <2>8
  <2> QED BY <2>9 DEF FlightBounded
<1>8. ASSUME NEW c \in Clients, RegisterSuccess(c)
      PROVE  FlightBounded'
  <2>1. fails' = << >>
    BY <1>8 DEF RegisterSuccess
  <2>2. InWindow(now)' \subseteq InWindow(now)
    BY <2>1 DEF InWindow
  <2>3. InFlight' \subseteq InFlight
    BY <1>8 DEF RegisterSuccess, InFlight, EntryInv, TypeOK
  <2> QED BY <1>2, <1>3, <1>4, <2>2, <2>3
<1>9. CASE Tick
  <2>1. now' = now + 1 /\ fails' = fails /\ pc' = pc
    BY <1>9 DEF Tick
  <2>2. /\ now \in Nat
        /\ \A i \in 1 .. Len(fails) : fails[i] \in Nat /\ fails[i] <= now
    BY DEF EntryInv, TypeOK, InOrder
  <2>3. InWindow(now)' \subseteq InWindow(now)
    BY <1>0, <2>1, <2>2 DEF InWindow
  <2>4. InFlight' \subseteq InFlight
    BY <2>1 DEF InFlight
  <2> QED BY <1>2, <1>3, <1>4, <2>3, <2>4
<1>10. CASE UNCHANGED vars
  <2>1. InWindow(now)' \subseteq InWindow(now) /\ InFlight' \subseteq InFlight
    BY <1>10 DEF vars, InWindow, InFlight
  <2> QED BY <1>2, <1>3, <1>4, <2>1
<1> QED BY <1>5, <1>6, <1>7, <1>8, <1>9, <1>10 DEF Next

-----------------------------------------------------------------------------
(* The theorems.                                                             *)

\* Nobody has tried to log in yet.
LEMMA LimiterInit == Init => LimiterInv
<1> SUFFICES ASSUME Init PROVE LimiterInv
  OBVIOUS
<1>1. EntryInv
  BY DEF Init, EntryInv, TypeOK, InOrder, AbsentSound, CountSound, BlockSound, NoEntry
<1>2. InWindow(now) = {}
  BY DEF Init, InWindow
<1>3. Recent(now) = 0
  BY <1>2, FS_EmptySet DEF Recent, InWindow
<1> QED BY <1>1, <1>3, LimiterAssumption DEF LimiterInv, FlightBounded

\* The invariant of the limiter holds in every state.
THEOREM LimiterInvariant == Spec => []LimiterInv
<1>1. LimiterInv /\ [Next]_vars => LimiterInv'
  BY EntryStep, FlightStep DEF LimiterInv
<1> QED BY <1>1, LimiterInit, PTL DEF Spec

\* Once MaxFail failures fell into one window Allow refuses until a window has
\* passed since the last one, however requests interleave.
THEOREM BlockEnforced == Spec => []BlockHolds
<1>1. LimiterInv => BlockHolds
  BY EnoughBlocks DEF LimiterInv
<1> QED BY <1>1, LimiterInvariant, PTL

\* Allow refuses only after MaxFail failures in a row of windows, and only for a
\* window after the last.
THEOREM BlockJustified == Spec => []BlockedForCause
<1>1. LimiterInv => BlockedForCause
  BY BlockedHasCause DEF LimiterInv
<1> QED BY <1>1, LimiterInvariant, PTL

\* However many requests race between Allow and RegisterFailure, a window sees
\* at most MaxFail wrong passwords and one for each other request in flight.
THEOREM GuessBound == Spec => []GuessesBounded
<1>1. LimiterInv => GuessesBounded
  <2> SUFFICES ASSUME LimiterInv PROVE GuessesBounded
    OBVIOUS
  <2> DEFINE F == Cardinality(InFlight)
             R == Recent(now)
             C == Cardinality(Clients)
  <2>1. F \in Nat /\ R \in Nat /\ C \in Nat /\ MaxFail \in Nat
    BY FlightFinite, WindowFinite, LimiterAssumption DEF LimiterInv, EntryInv
  <2>2. R >= MaxFail => R + F <= MaxFail + C - 1
    BY DEF LimiterInv, FlightBounded
  <2>3. R <= MaxFail + C - 1
    <3> HIDE DEF F, R, C
    <3> QED BY <2>1, <2>2
  <2> QED BY <2>3 DEF GuessesBounded
<1> QED BY <1>1, LimiterInvariant, PTL

-----------------------------------------------------------------------------
(* The inductive invariant of the updater.                                   *)

Steps == {"run", "stop", "reset", "retry"}
RequestSet == [pc : Steps \cup {"idle", "wait"}, raced : BOOLEAN, blind : BOOLEAN,
               undated : BOOLEAN]
UnitSet == [state : {"absent", "activating", "exited", "failed"}, since : Nat]

UpdaterTypeOK ==
  /\ unit \in UnitSet
  /\ unit.since <= clock
  /\ req \in [Requests -> RequestSet]
  /\ clock \in Nat

\* The last update, if its unit is still there, ended before the cooldown.
CooldownOver == Exists => clock - unit.since >= Cooldown

\* What the status check of a request established and the code relies on
\* afterwards: no update runs and, if the time of the unit's last change could be
\* read, the cooldown is over.
Clear(r) == ~Running /\ (req[r].undated \/ CooldownOver)

Relies(r) == req[r].pc \in Steps /\ ~req[r].raced /\ ~req[r].blind

UpdaterInv == UpdaterTypeOK /\ \A r \in Requests : Relies(r) => Clear(r)

\* A request that relies on the status after the step did so before it, on the
\* same reading.
SameReading(r) == Relies(r)' => Relies(r) /\ req'[r].undated = req[r].undated

\* The step keeps what a status check can establish about the unit.
UnitStaysClear == ~Running => ~Running' /\ (CooldownOver => CooldownOver')

-----------------------------------------------------------------------------
\* A step that leaves the requests that rely on the status as they were, and
\* the unit and the clock so that a clear unit stays clear, keeps the invariant.
LEMMA ClearStays ==
  ASSUME UpdaterInv, UpdaterTypeOK',
         \A r \in Requests : SameReading(r) \/ Clear(r)',
         UnitStaysClear
  PROVE  UpdaterInv'
BY DEF UpdaterInv, SameReading, UnitStaysClear, Clear

\* So does one that leaves unit and clock alone.
LEMMA SameUnit ==
  ASSUME unit' = unit, clock' = clock
  PROVE  UnitStaysClear /\ (Running' <=> Running) /\ (CooldownOver' <=> CooldownOver)
BY DEF UnitStaysClear, Running, CooldownOver, Exists

\* Every request but r keeps its record.
LEMMA GotoEffect ==
  ASSUME UpdaterTypeOK, NEW r \in Requests, NEW p \in Steps \cup {"idle", "wait"},
         Goto(r, p)
  PROVE  /\ req' \in [Requests -> RequestSet]
         /\ req'[r] = [req[r] EXCEPT !.pc = p]
         /\ \A q \in Requests : q # r => req'[q] = req[q]
BY DEF UpdaterTypeOK, Goto, RequestSet

\* An answered request is idle; every other keeps its record.
LEMMA AnswerEffect ==
  ASSUME UpdaterTypeOK, NEW r \in Requests, Answer(r)
  PROVE  /\ req' \in [Requests -> RequestSet]
         /\ \A q \in Requests : SameReading(q)
<1>1. Idle \in RequestSet
  BY DEF Idle, RequestSet
<1>2. /\ req' \in [Requests -> RequestSet]
      /\ req'[r] = Idle
      /\ \A q \in Requests : q # r => req'[q] = req[q]
  BY <1>1 DEF UpdaterTypeOK, Answer
<1>3. ~Relies(r)'
  BY <1>2 DEF Relies, Idle, Steps
<1> QED BY <1>2, <1>3 DEF Relies, SameReading

\* When a unit starts, no request relies on what it read before.
LEMMA StartUnitKeeps ==
  ASSUME UpdaterInv, NEW r \in Requests, req[r].pc \in Steps, StartUnit(r),
         clock' = clock
  PROVE  UpdaterInv'
<1> USE DEF UpdaterInv, UpdaterTypeOK
<1>1. [Idle EXCEPT !.pc = "wait"] \in RequestSet
  BY DEF Idle, RequestSet
<1>2. \A q \in Requests : [req[q] EXCEPT !.raced = TRUE] \in RequestSet
  BY DEF RequestSet
<1>3. UpdaterTypeOK'
  <2>1. unit' \in UnitSet /\ unit'.since <= clock'
    BY DEF StartUnit, UnitSet
  <2>2. req' \in [Requests -> RequestSet]
    BY <1>1, <1>2 DEF StartUnit
  <2> QED BY <2>1, <2>2
<1>4. ASSUME NEW q \in Requests PROVE ~Relies(q)'
  <2>1. CASE q = r
    <3>1. req'[q] = [Idle EXCEPT !.pc = "wait"]
      BY <2>1 DEF StartUnit
    <3> QED BY <3>1 DEF Relies, Idle, Steps
  <2>2. CASE q # r /\ req[q].pc = "idle"
    <3>1. req'[q] = req[q]
      BY <2>2 DEF StartUnit
    <3> QED BY <2>2, <3>1 DEF Relies, Steps
  <2>3. CASE q # r /\ req[q].pc # "idle"
    <3>1. req'[q] = [req[q] EXCEPT !.raced = TRUE]
      BY <2>3 DEF StartUnit
    <3>2. req'[q].raced
      BY <3>1 DEF RequestSet
    <3> QED BY <3>2 DEF Relies
  <2> QED BY <2>1, <2>2, <2>3
<1> QED BY <1>3, <1>4

\* A request that passes the checks has read that the unit is clear.
LEMMA StartKeeps ==
  ASSUME UpdaterInv, NEW r \in Requests, Start(r)
  PROVE  UpdaterInv'
<1> USE DEF UpdaterInv
<1>1. unit' = unit /\ clock' = clock
  BY DEF Start
<1> DEFINE Read(x) == [Idle EXCEPT !.pc = "run", !.undated = x]
           Unread == [Idle EXCEPT !.pc = "run", !.blind = TRUE]
<1>2. CASE \E dated \in BOOLEAN :
             /\ ~Running /\ CooldownWait(dated) = 0
             /\ req' = [req EXCEPT ![r] = Read(Exists /\ ~dated)]
  <2>1. PICK dated \in BOOLEAN :
             /\ ~Running /\ CooldownWait(dated) = 0
             /\ req' = [req EXCEPT ![r] = Read(Exists /\ ~dated)]
    BY <1>2
  <2>2. dated => CooldownOver
    BY <2>1, UpdaterAssumption
    DEF CooldownWait, CooldownOver, UpdaterTypeOK, UnitSet
  <2>3. (Exists /\ ~dated) \in BOOLEAN
    BY DEF Exists
  <2>4. \A x \in BOOLEAN : Read(x) \in RequestSet /\ Read(x).undated = x
    BY DEF Idle, RequestSet, Steps
  <2>5. UpdaterTypeOK'
    BY <1>1, <2>1, <2>3, <2>4 DEF UpdaterTypeOK
  <2>6. req'[r].undated = (Exists /\ ~dated)
    BY <2>1, <2>3, <2>4 DEF UpdaterTypeOK
  <2>7. Clear(r)'
    BY <1>1, <2>1, <2>2, <2>6, SameUnit DEF Clear, CooldownOver
  <2>8. \A q \in Requests : q # r => SameReading(q)
    BY <2>1 DEF UpdaterTypeOK, SameReading, Relies
  <2> QED BY <1>1, <2>5, <2>7, <2>8, SameUnit, ClearStays
<1>3. CASE req' = [req EXCEPT ![r] = Unread]
  <2>1. Unread \in RequestSet
    BY DEF Idle, RequestSet, Steps
  <2>2. UpdaterTypeOK'
    BY <1>1, <1>3, <2>1 DEF UpdaterTypeOK
  <2>3. req'[r].blind
    BY <1>3 DEF UpdaterTypeOK, Idle
  <2>4. \A q \in Requests : q # r => req'[q] = req[q]
    BY <1>3 DEF UpdaterTypeOK
  <2>5. \A q \in Requests : SameReading(q)
    BY <2>3, <2>4 DEF Relies, SameReading
  <2> QED BY <1>1, <2>2, <2>5, SameUnit, ClearStays
<1> QED BY <1>2, <1>3 DEF Start

\* The unit is only ever removed or, while an update runs, failed by a cleanup.
LEMMA CleanupKeeps ==
  ASSUME UpdaterInv, NEW r \in Requests, CleanupStop(r) \/ CleanupReset(r)
  PROVE  UpdaterInv'
<1> USE DEF UpdaterInv, UpdaterTypeOK
<1>1. clock' = clock
  BY DEF CleanupStop, CleanupReset
<1>2. PICK p \in {"reset", "retry"} : Goto(r, p) /\ req[r].pc \in {"stop", "reset"}
  BY DEF CleanupStop, CleanupReset
<1>3. /\ req' \in [Requests -> RequestSet]
      /\ req'[r] = [req[r] EXCEPT !.pc = p]
      /\ \A q \in Requests : q # r => req'[q] = req[q]
  BY <1>2, GotoEffect DEF Steps
<1>4. \A q \in Requests : SameReading(q)
  BY <1>2, <1>3 DEF SameReading, Relies, Steps, RequestSet
<1>5. /\ unit' \in UnitSet
      /\ unit' = unit \/ (unit'.since = clock /\ (unit.state # "activating" => unit'.state = "absent"))
  <2>1. CASE CleanupStop(r)
    BY <2>1 DEF CleanupStop, UnitSet
  <2>2. CASE CleanupReset(r)
    BY <2>2 DEF CleanupReset, UnitSet
  <2> QED BY <2>1, <2>2
<1>6. UpdaterTypeOK'
  BY <1>1, <1>3, <1>5 DEF UnitSet
<1>7. UnitStaysClear
  BY <1>1, <1>5 DEF UnitStaysClear, CooldownOver, Running, Exists
<1> QED BY <1>4, <1>6, <1>7, ClearStays

-----------------------------------------------------------------------------
\* Every request starts idle and the unit absent.
LEMMA UpdaterBegins == UpdaterInit => UpdaterInv
<1> SUFFICES ASSUME UpdaterInit PROVE UpdaterInv
  OBVIOUS
<1>1. Idle \in RequestSet
  BY DEF Idle, RequestSet
<1>2. UpdaterTypeOK
  BY <1>1 DEF UpdaterInit, UpdaterTypeOK, UnitSet
<1>3. \A r \in Requests : Clear(r)
  BY DEF UpdaterInit, Clear, CooldownOver, Running, Exists
<1> QED BY <1>2, <1>3 DEF UpdaterInv

\* Every step of the updater and of its surroundings keeps the invariant.
LEMMA UpdaterStep == UpdaterInv /\ [UpdaterNext]_updaterVars => UpdaterInv'
<1> SUFFICES ASSUME UpdaterInv, [UpdaterNext]_updaterVars PROVE UpdaterInv'
  OBVIOUS
<1> USE DEF UpdaterInv
<1>1. CASE UNCHANGED updaterVars
  BY <1>1 DEF updaterVars, UpdaterTypeOK, Relies, Clear, CooldownOver, Running, Exists
<1>2. ASSUME NEW r \in Requests, Start(r) PROVE UpdaterInv'
  BY <1>2, StartKeeps
<1>3. ASSUME NEW r \in Requests, SystemdRun(r) PROVE UpdaterInv'
  <2>1. CASE Exists /\ Goto(r, "stop") /\ UNCHANGED <<unit, runs>>
    <3>1. unit' = unit /\ clock' = clock /\ req[r].pc = "run"
      BY <1>3, <2>1 DEF SystemdRun
    <3>2. /\ req' \in [Requests -> RequestSet]
          /\ req'[r] = [req[r] EXCEPT !.pc = "stop"]
          /\ \A q \in Requests : q # r => req'[q] = req[q]
      BY <2>1, GotoEffect DEF Steps
    <3>3. \A q \in Requests : SameReading(q)
      BY <3>1, <3>2 DEF SameReading, Relies, Steps, UpdaterTypeOK, RequestSet
    <3>4. UpdaterTypeOK'
      BY <3>1, <3>2 DEF UpdaterTypeOK
    <3> QED BY <3>1, <3>3, <3>4, SameUnit, ClearStays
  <2>2. CASE StartUnit(r)
    BY <1>3, <2>2, StartUnitKeeps DEF SystemdRun, Steps
  <2> QED BY <1>3, <2>1, <2>2 DEF SystemdRun
<1>4. ASSUME NEW r \in Requests, CleanupStop(r) \/ CleanupReset(r) PROVE UpdaterInv'
  BY <1>4, CleanupKeeps
<1>5. ASSUME NEW r \in Requests, Answer(r), UNCHANGED <<unit, clock>> PROVE UpdaterInv'
  <2>1. UpdaterTypeOK'
    BY <1>5, AnswerEffect DEF UpdaterTypeOK
  <2> QED BY <1>5, <2>1, AnswerEffect, SameUnit, ClearStays
<1>6. ASSUME NEW r \in Requests, Retry(r) PROVE UpdaterInv'
  <2>1. CASE Answer(r) /\ UNCHANGED <<unit, runs>>
    BY <1>5, <1>6, <2>1 DEF Retry
  <2>2. CASE StartUnit(r)
    BY <1>6, <2>2, StartUnitKeeps DEF Retry, Steps
  <2> QED BY <1>6, <2>1, <2>2 DEF Retry
<1>7. ASSUME NEW r \in Requests, RunReturns(r) \/ StartError(r) PROVE UpdaterInv'
  BY <1>5, <1>7 DEF RunReturns, StartError
<1>8. CASE ScriptEnds
  <2>1. req' = req /\ clock' = clock /\ Running
    BY <1>8 DEF ScriptEnds
  <2>2. unit' \in UnitSet /\ unit'.since <= clock'
    BY <1>8, <2>1 DEF ScriptEnds, UpdaterTypeOK, UnitSet
  <2>3. \A q \in Requests : ~Relies(q)
    BY <2>1 DEF Clear
  <2>4. \A q \in Requests : ~Relies(q)'
    BY <2>1, <2>3 DEF Relies
  <2> QED BY <2>1, <2>2, <2>4 DEF UpdaterTypeOK
<1>9. CASE PanelRestart
  <2>1. req' = [r \in Requests |-> Idle] /\ UNCHANGED <<unit, clock>>
    BY <1>9 DEF PanelRestart
  <2>2. Idle \in RequestSet
    BY DEF Idle, RequestSet
  <2>3. \A q \in Requests : ~Relies(q)'
    BY <2>1 DEF Relies, Idle, Steps
  <2> QED BY <2>1, <2>2, <2>3 DEF UpdaterTypeOK
<1>10. CASE ClockTick
  <2>1. clock' = clock + 1 /\ UNCHANGED <<unit, req>>
    BY <1>10 DEF ClockTick
  <2>2. UpdaterTypeOK' /\ UnitStaysClear
    BY <2>1, UpdaterAssumption
    DEF UpdaterTypeOK, UnitSet, UnitStaysClear, CooldownOver, Running, Exists
  <2>3. \A q \in Requests : SameReading(q)
    BY <2>1 DEF SameReading, Relies
  <2> QED BY <2>2, <2>3, ClearStays
<1> QED BY <1>1, <1>2, <1>3, <1>4, <1>6, <1>7, <1>8, <1>9, <1>10
        DEF UpdaterNext, RequestStep

\* As long as no update is started after a request read the status, nothing runs
\* at each later command of its Start; and if it could read when the unit last
\* changed, the cooldown is over as well.
THEOREM UpdaterInvariant == UpdaterSpec => []UpdaterInv
<1> QED BY UpdaterBegins, UpdaterStep, PTL DEF UpdaterSpec

\* A running update is stopped by the cleanup of a request only if that request
\* read the status before the update was started, or could not read it.
THEOREM UpdateLeftAlone == UpdaterSpec => KilledOnlyInRace
<1> DEFINE A == \A r \in Requests :
       (req[r].pc = "stop" /\ req'[r].pc = "reset"
         /\ unit.state = "activating" /\ unit' # unit)
         => req[r].raced \/ req[r].blind
<1>1. UpdaterInv /\ [UpdaterNext]_updaterVars => [A]_updaterVars
  BY DEF UpdaterInv, Relies, Steps, Clear, Running
<1> QED BY <1>1, UpdaterInvariant, PTL DEF UpdaterSpec, KilledOnlyInRace

\* Within the cooldown, what the last update left behind is removed only by a
\* request in that same race or by one that found no readable time stamp.
THEOREM CooldownStands == UpdaterSpec => CooldownKept
<1> DEFINE A == \A r \in Requests :
       (req[r].pc \in {"stop", "reset"} /\ req'[r].pc # req[r].pc
         /\ unit.state \in {"exited", "failed"} /\ unit'.state = "absent"
         /\ clock - unit.since < Cooldown)
         => req[r].raced \/ req[r].blind \/ req[r].undated
<1>1. UpdaterInv /\ [UpdaterNext]_updaterVars => [A]_updaterVars
  <2> SUFFICES ASSUME UpdaterInv, NEW r \in Requests,
                      req[r].pc \in {"stop", "reset"},
                      unit.state \in {"exited", "failed"},
                      clock - unit.since < Cooldown
               PROVE  req[r].raced \/ req[r].blind \/ req[r].undated
    OBVIOUS
  <2>1. ~CooldownOver
    BY UpdaterAssumption DEF UpdaterInv, UpdaterTypeOK, UnitSet, CooldownOver, Exists
  <2> QED BY <2>1 DEF UpdaterInv, Relies, Clear, Steps
<1> QED BY <1>1, UpdaterInvariant, PTL DEF UpdaterSpec, CooldownKept
=============================================================================
