---------------------------- MODULE RateLimiter ----------------------------
(***************************************************************************)
(* The token bucket limiter of internal/handler/ratelimit.go, shared by    *)
(* the goroutines that serve requests.                                     *)
(*                                                                         *)
(* A call of Allow is two steps.  It reads the clock (line 54) before it   *)
(* takes the mutex (line 55), so calls may enter the locked section in     *)
(* another order than the one in which they read the clock.  The locked    *)
(* section is one step: every field it touches is accessed under mu only.  *)
(*                                                                         *)
(* The code counts tokens in floating point.  Here an allowance is counted *)
(* in shares of a token, TicksPerSecond of them, so that a tick earns      *)
(* exactly Rps shares and every quantity is an integer.                    *)
(***************************************************************************)
EXTENDS Integers, FiniteSets

CONSTANTS
  Clients,         \* the keys: client addresses
  Callers,         \* the goroutines that call Allow
  Rps, BurstArg, MaxIdleArg, MaxClientsArg,   \* NewRateLimiter's arguments
  TicksPerSecond,  \* the grain of the clock
  MaxWait,         \* the longest a caller waits for the mutex, in ticks
  MaxClock         \* bound of the model: the clock stops there

\* A nil limiter (rps <= 0) has no state: the callers of RateLimiter check it.
ASSUME LimiterAssumption ==
  /\ Rps \in Nat \ {0}
  /\ BurstArg \in Int /\ MaxIdleArg \in Int /\ MaxClientsArg \in Int
  /\ TicksPerSecond \in Nat \ {0}
  /\ MaxWait \in Nat /\ MaxClock \in Nat
  /\ IsFiniteSet(Clients)

burst == (IF BurstArg <= 0 THEN Rps ELSE BurstArg) * TicksPerSecond
maxIdle == IF MaxIdleArg <= 0 THEN 120 * TicksPerSecond ELSE MaxIdleArg
maxClients == IF MaxClientsArg > 0 THEN MaxClientsArg ELSE 100000

VARIABLES
  clock,         \* time.Now(), in ticks
  clients,       \* the map: a function whose domain is the set of keys in it
  nextCleanup,
  asking,        \* asking[t]: the key t called Allow with last
  now,           \* now[t]: the time t read before it asked for the mutex
  reply,         \* reply[t]: how t's last call ended, "pending" while it waits
  life,          \* history: life[c] tells of c's current entry in the map when
                 \* it was made, how many requests it granted, and the clock at
                 \* its last locked section
  total          \* history: total[c] is the number of grants c ever got

code == <<clock, clients, nextCleanup, asking, now, reply>>
history == <<life, total>>
vars == <<clock, clients, nextCleanup, asking, now, reply, life, total>>

Entry == [allowance : Int, last : Nat, lastSeen : Nat]
Verdict == {"allowed", "limited", "full"}

Init ==
  /\ clock = 0
  /\ clients = [c \in {} |-> 0]
  /\ nextCleanup = clock + maxIdle
  /\ asking \in [Callers -> Clients]
  /\ now = [t \in Callers |-> 0]
  /\ reply = [t \in Callers |-> "none"]
  /\ life = [c \in Clients |-> [since |-> 0, granted |-> 0, touched |-> 0]]
  /\ total = [c \in Clients |-> 0]

-----------------------------------------------------------------------------
\* Mutation of CleanupDue: Before instead of After.
CleanupDue_Before(n) == n < nextCleanup

\* The idle entries are swept when the caller's time is past nextCleanup.
CleanupDue(n) == n > nextCleanup

\* Mutation of Kept: the sweep drops every entry.
Kept_None(n) == IF CleanupDue(n) THEN {} ELSE DOMAIN clients

Kept(n) ==
  IF CleanupDue(n)
  THEN {c \in DOMAIN clients : clients[c].lastSeen >= n - maxIdle}
  ELSE DOMAIN clients
NextCleanup(n) == IF CleanupDue(n) THEN n + maxIdle ELSE nextCleanup

NewEntry(n) == [allowance |-> burst, last |-> n, lastSeen |-> n]

\* The caller's entry after the sweep: its own, or a full bucket.
Found(c, n) == IF c \in Kept(n) THEN clients[c] ELSE NewEntry(n)

\* Mutation of Refilled: by whole seconds only.
Refilled_WholeSeconds(e, n) ==
  LET earned == e.allowance + ((n - e.last) \div TicksPerSecond) * TicksPerSecond * Rps
  IN  IF earned > burst THEN burst ELSE earned

\* n may lie before e.last: the allowance then shrinks.
Refilled(e, n) ==
  LET earned == e.allowance + (n - e.last) * Rps
  IN  IF earned > burst THEN burst ELSE earned

\* Mutations of Touched: the entry is marked as idle, or the time of the refill
\* is not recorded.
Touched_Idle(e, n, spent) ==
  [allowance |-> Refilled(e, n) - spent, last |-> n, lastSeen |-> n - maxIdle]
Touched_NotRecorded(e, n, spent) ==
  [allowance |-> Refilled(e, n) - spent, last |-> e.last, lastSeen |-> n]

Touched(e, n, spent) ==
  [allowance |-> Refilled(e, n) - spent, last |-> n, lastSeen |-> n]

-----------------------------------------------------------------------------
ReadClock(t, c) ==
  /\ reply[t] # "pending"
  /\ asking' = [asking EXCEPT ![t] = c]
  /\ now' = [now EXCEPT ![t] = clock]
  /\ reply' = [reply EXCEPT ![t] = "pending"]
  /\ UNCHANGED <<clock, clients, nextCleanup, life, total>>

HasRoom(c, n) == c \in Kept(n) \/ Cardinality(Kept(n)) < maxClients

\* The locked section up to the return it takes, with the sweep before it.
Return(t, verdict) ==
  /\ reply[t] = "pending"
  /\ reply' = [reply EXCEPT ![t] = verdict]
  /\ nextCleanup' = NextCleanup(now[t])
  /\ UNCHANGED <<clock, asking, now>>

RefuseNewcomer(t) ==
  LET c == asking[t]  n == now[t] IN
  /\ ~HasRoom(c, n)
  /\ Return(t, "full")
  /\ clients' = [d \in Kept(n) |-> clients[d]]
  /\ UNCHANGED history

\* Charge c's entry with `spent` and write it back; others keep theirs.
Charge(c, n, spent) ==
  /\ clients' = [d \in Kept(n) \union {c} |->
                   IF d = c THEN Touched(Found(c, n), n, spent) ELSE clients[d]]
  /\ LET grants == IF spent > 0 THEN 1 ELSE 0
         old == IF c \in Kept(n) THEN life[c]
                ELSE [since |-> n, granted |-> 0, touched |-> clock]
     IN  /\ life' = [life EXCEPT ![c] = [since |-> old.since,
                                        granted |-> old.granted + grants,
                                        touched |-> clock]]
         /\ total' = [total EXCEPT ![c] = @ + grants]

Limit(t) ==
  LET c == asking[t]  n == now[t] IN
  /\ HasRoom(c, n)
  /\ Refilled(Found(c, n), n) < TicksPerSecond
  /\ Return(t, "limited")
  /\ Charge(c, n, 0)

\* Mutation of Grant: any allowance that is not negative will do.
Grant_Overdrawn(t) ==
  LET c == asking[t]  n == now[t] IN
  /\ HasRoom(c, n)
  /\ Refilled(Found(c, n), n) >= 0
  /\ Return(t, "allowed")
  /\ Charge(c, n, TicksPerSecond)

Grant(t) ==
  LET c == asking[t]  n == now[t] IN
  /\ HasRoom(c, n)
  /\ Refilled(Found(c, n), n) >= TicksPerSecond
  /\ Return(t, "allowed")
  /\ Charge(c, n, TicksPerSecond)

\* Time passes, except that no caller waits for the mutex beyond MaxWait.
Tick ==
  /\ clock < MaxClock
  /\ \A t \in Callers : reply[t] = "pending" => clock < now[t] + MaxWait
  /\ clock' = clock + 1
  /\ UNCHANGED <<clients, nextCleanup, asking, now, reply, life, total>>

Next ==
  \/ Tick
  \/ \E t \in Callers :
       \/ \E c \in Clients : ReadClock(t, c)
       \/ RefuseNewcomer(t)
       \/ Limit(t)
       \/ Grant(t)

Spec == Init /\ [][Next]_vars

-----------------------------------------------------------------------------
(* Properties *)

\* Every variable has its type; the map holds no more than maxClients entries;
\* a pending caller read the clock at most MaxWait ago.
TypeOK ==
  /\ clock \in Nat
  /\ DOMAIN clients \subseteq Clients
  /\ clients = [c \in DOMAIN clients |-> clients[c]]
  /\ \A c \in DOMAIN clients : clients[c] \in Entry
  /\ nextCleanup \in Nat
  /\ asking \in [Callers -> Clients]
  /\ now \in [Callers -> Nat]
  /\ reply \in [Callers -> Verdict \union {"none", "pending"}]
  /\ life \in [Clients -> [since : Nat, granted : Nat, touched : Nat]]
  /\ total \in [Clients -> Nat]

\* The map never outgrows maxClients, whatever keys are asked for and whenever
\* the sweep runs (line 71: the check is made after it, before the insertion).
WithinCapacity == Cardinality(DOMAIN clients) <= maxClients

\* The bucket law.  From the moment an entry is made, what it granted and what
\* it still holds never exceed the burst plus what was earned since: a client
\* gets at most burst + rate * time requests, even when calls are charged in
\* another order than the one in which they read the clock (lines 78-89).
BucketLaw ==
  \A c \in DOMAIN clients :
    life[c].granted * TicksPerSecond + clients[c].allowance
      <= burst + Rps * (clients[c].last - life[c].since)

\* A bucket refills within the idle time after which its entry may be dropped,
\* with a margin for the times callers spend waiting for the mutex.
RefillsWhileIdle == burst <= Rps * (maxIdle - 2 * MaxWait)

\* Forgetting gives nothing away: over the whole run, and however often its
\* entry was dropped and made again, a client got at most a burst plus what the
\* rate allows for the time that passed (lines 58-66 and 74).
OverallRate ==
  RefillsWhileIdle =>
    \A c \in Clients : total[c] * TicksPerSecond <= burst + Rps * clock

\* An entry the sweep drops is one whose bucket would be full again, so its
\* owner can not tell that it was forgotten (line 61).
OnlyFullBucketsDropped ==
  [][RefillsWhileIdle =>
       \A c \in DOMAIN clients \ DOMAIN clients' :
         clients[c].allowance + Rps * (clock - clients[c].last) >= burst]_vars

\* A newcomer is refused for want of room only while every entry in its way
\* was in use during the last two idle times: no abandoned entry keeps a place
\* longer, although nothing but a call of Allow ever runs the sweep.
RoomIsReclaimed ==
  [][MaxWait <= maxIdle =>
       \A t \in Callers :
         reply[t] = "pending" /\ reply'[t] = "full" =>
           \A c \in DOMAIN clients' :
             clients'[c].lastSeen >= now[t] - 2 * maxIdle]_vars

\* Reordering may push an allowance below zero, yet only by what the late
\* callers were late: the debt is bounded and is earned back in that time.
BoundedDebt == \A c \in DOMAIN clients : clients[c].allowance >= -(Rps * MaxWait)

-----------------------------------------------------------------------------
(* The inductive invariant: why the properties hold.                       *)

\* A pending caller's time is at most MaxWait behind the clock.
CallersInTime ==
  \A t \in Callers : reply[t] = "pending" => now[t] <= clock /\ clock <= now[t] + MaxWait

\* An entry was charged with a time at most MaxWait old, and its allowance is
\* negative by no more than what that time lay in the past.
EntriesInTime ==
  \A c \in DOMAIN clients :
    LET e == clients[c]  at == life[c].touched IN
    /\ e.lastSeen = e.last
    /\ e.last <= at /\ at <= e.last + MaxWait /\ at <= clock
    /\ e.allowance <= burst
    /\ e.allowance >= -(Rps * (at - e.last))

\* No entry in the map is older than the last sweep allowed.
SweptInTime ==
  MaxWait <= maxIdle =>
    /\ nextCleanup <= clock + maxIdle
    /\ \A c \in DOMAIN clients : clients[c].last >= nextCleanup - 2 * maxIdle

\* The bucket law over all the entries a client had: what a forgotten client
\* was granted is earned by the time any later caller can have read.
Ledger ==
  RefillsWhileIdle =>
    \A c \in Clients :
      IF c \in DOMAIN clients
      THEN total[c] * TicksPerSecond + clients[c].allowance <= burst + Rps * clients[c].last
      ELSE \/ total[c] = 0
           \/ total[c] * TicksPerSecond <= Rps * (clock - MaxWait)

\* The four facts together with the types, the capacity and the bucket law are
\* preserved by every step; the safety properties above follow from them.
IndInv ==
  /\ TypeOK
  /\ WithinCapacity
  /\ CallersInTime
  /\ EntriesInTime
  /\ BucketLaw
  /\ SweptInTime
  /\ Ledger

-----------------------------------------------------------------------------
(* The limiter as the leaky bucket it implements when callers do not overtake *)
(* one another between the clock and the mutex (MaxWait = 0).                 *)

Debt(c) ==
  IF c \notin DOMAIN clients THEN 0
  ELSE LET owed == burst - clients[c].allowance
                   - Rps * (clock - clients[c].last)
       IN  IF owed > 0 THEN owed ELSE 0

Bucket == INSTANCE LeakyBucket WITH
            Rate <- Rps, Cost <- TicksPerSecond, Burst <- burst,
            debt <- [c \in Clients |-> Debt(c)]

\* The limiter is a leaky bucket per client that never forgets: the map, its
\* timestamps, its cleanup and its capacity are invisible, but for the refusal
\* of clients that owe nothing.
ImplementsLeakyBucket == Bucket!Spec
=============================================================================
