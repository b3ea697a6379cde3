------------------------ MODULE RateLimiterProofs --------------------------
(***************************************************************************)
(* Proofs about RateLimiter, for every set of clients and callers, every   *)
(* rate, burst, idle time, capacity and grain of the clock.                *)
(***************************************************************************)
EXTENDS RateLimiter, FiniteSetTheorems, TLAPS

\* The configuration NewRateLimiter computes from its arguments: a burst of at
\* least one token, a positive idle time, room for at least one client.
LEMMA Configuration ==
  /\ burst \in Nat /\ burst >= TicksPerSecond
  /\ maxIdle \in Nat /\ maxIdle > 0
  /\ maxClients \in Nat /\ maxClients > 0
<1>1. \A b \in Nat \ {0} : b * TicksPerSecond \in Nat /\ b * TicksPerSecond >= TicksPerSecond
  BY LimiterAssumption
<1>2. burst \in Nat /\ burst >= TicksPerSecond
  <2>1. (IF BurstArg <= 0 THEN Rps ELSE BurstArg) \in Nat \ {0}
    BY LimiterAssumption
  <2> QED  BY <1>1, <2>1 DEF burst
<1>3. maxIdle \in Nat /\ maxIdle > 0
  BY LimiterAssumption DEF maxIdle
<1>4. maxClients \in Nat /\ maxClients > 0
  BY LimiterAssumption DEF maxClients
<1> QED  BY <1>2, <1>3, <1>4

\* Earning is monotone in time and distributes over a difference of times.
LEMMA Earning ==
  ASSUME NEW a \in Int, NEW b \in Int
  PROVE  /\ Rps * a \in Int
         /\ (a - b) * Rps = Rps * a - Rps * b
         /\ Rps * (a - b) = Rps * a - Rps * b
         /\ Rps * (a + b) = Rps * a + Rps * b
         /\ a <= b => Rps * a <= Rps * b
BY LimiterAssumption

LEMMA Earned ==
  ASSUME NEW a \in Int
  PROVE  Rps * a \in Int /\ a * Rps = Rps * a
BY LimiterAssumption

\* One more grant raises what a client was granted by one token.
LEMMA Granting ==
  ASSUME NEW g \in Nat
  PROVE  /\ g * TicksPerSecond \in Nat
         /\ (g + 1) * TicksPerSecond = g * TicksPerSecond + TicksPerSecond
         /\ g + 0 = g
         /\ 0 * TicksPerSecond = 0
BY LimiterAssumption

\* Refilling keeps an allowance an integer of at most a burst.
LEMMA RefillBounds ==
  ASSUME NEW e \in Entry, NEW n \in Nat
  PROVE  /\ Refilled(e, n) \in Int
         /\ Refilled(e, n) <= burst
         /\ Refilled(e, n) <= e.allowance + Rps * n - Rps * e.last
         /\ \/ Refilled(e, n) = burst
            \/ Refilled(e, n) = e.allowance + Rps * n - Rps * e.last
<1>1. e.allowance \in Int /\ e.last \in Int /\ n \in Int
  BY DEF Entry
<1>2. (n - e.last) * Rps = Rps * n - Rps * e.last /\ Rps * n \in Int /\ Rps * e.last \in Int
  BY <1>1, Earning
<1> QED  BY <1>1, <1>2, Configuration DEF Refilled

-----------------------------------------------------------------------------
(* What a step does to the map. *)

LEMMA KeptEntries ==
  ASSUME TypeOK, NEW n \in Nat
  PROVE  /\ Kept(n) \subseteq DOMAIN clients
         /\ Kept(n) \subseteq Clients
         /\ \A c \in Kept(n) : clients[c] \in Entry
         /\ CleanupDue(n) =>
              /\ \A c \in Kept(n) : clients[c].lastSeen >= n - maxIdle
              /\ \A c \in DOMAIN clients \ Kept(n) : clients[c].lastSeen < n - maxIdle
         /\ ~CleanupDue(n) => Kept(n) = DOMAIN clients
         /\ NextCleanup(n) \in Nat
<1>1. /\ Kept(n) \subseteq DOMAIN clients
      /\ ~CleanupDue(n) => Kept(n) = DOMAIN clients
      /\ CleanupDue(n) => \A c \in Kept(n) : clients[c].lastSeen >= n - maxIdle
  BY DEF Kept
<1>2. ASSUME CleanupDue(n), NEW c \in DOMAIN clients \ Kept(n)
      PROVE  clients[c].lastSeen < n - maxIdle
  <2>1. clients[c].lastSeen \in Nat
    BY DEF TypeOK, Entry
  <2> QED  BY <1>2, <2>1, Configuration DEF Kept
<1>3. NextCleanup(n) \in Nat
  BY Configuration DEF NextCleanup, TypeOK
<1> QED  BY <1>1, <1>2, <1>3 DEF TypeOK

LEMMA FoundEntry ==
  ASSUME TypeOK, NEW c \in Clients, NEW n \in Nat
  PROVE  Found(c, n) \in Entry
BY KeptEntries, Configuration DEF Found, NewEntry, Entry

\* Charging touches the entry of one client and leaves the kept ones alone.
LEMMA ChargeEffect ==
  ASSUME TypeOK, NEW c \in Clients, NEW n \in Nat, NEW spent \in {0, TicksPerSecond},
         Charge(c, n, spent)
  PROVE  /\ DOMAIN clients' = Kept(n) \union {c}
         /\ clients' = [d \in DOMAIN clients' |-> clients'[d]]
         /\ clients'[c] \in Entry
         /\ clients'[c].last = n /\ clients'[c].lastSeen = n
         /\ clients'[c].allowance = Refilled(Found(c, n), n) - spent
         /\ \A d \in Kept(n) \ {c} : clients'[d] = clients[d]
<1>1. Refilled(Found(c, n), n) - spent \in Int
  BY FoundEntry, RefillBounds, LimiterAssumption
<1>2. Touched(Found(c, n), n, spent) =
        [allowance |-> Refilled(Found(c, n), n) - spent, last |-> n, lastSeen |-> n]
  BY DEF Touched
<1>3. clients' = [d \in Kept(n) \union {c} |->
                   IF d = c THEN Touched(Found(c, n), n, spent) ELSE clients[d]]
  BY DEF Charge
<1> QED  BY <1>1, <1>2, <1>3 DEF Entry

\* It keeps the history of the client it charges, and of no other.
LEMMA ChargeHistory ==
  ASSUME TypeOK, NEW c \in Clients, NEW n \in Nat, NEW spent \in {0, TicksPerSecond},
         Charge(c, n, spent)
  PROVE  LET grants == IF spent > 0 THEN 1 ELSE 0 IN
         /\ life' \in [Clients -> [since : Nat, granted : Nat, touched : Nat]]
         /\ total' \in [Clients -> Nat]
         /\ total'[c] = total[c] + grants
         /\ life'[c].touched = clock
         /\ c \in Kept(n) => /\ life'[c].since = life[c].since
                             /\ life'[c].granted = life[c].granted + grants
         /\ c \notin Kept(n) => /\ life'[c].since = n
                                /\ life'[c].granted = grants
         /\ \A d \in Clients \ {c} : life'[d] = life[d] /\ total'[d] = total[d]
<1> DEFINE grants == IF spent > 0 THEN 1 ELSE 0
           old == IF c \in Kept(n) THEN life[c]
                  ELSE [since |-> n, granted |-> 0, touched |-> clock]
<1>1. /\ life' = [life EXCEPT ![c] = [since |-> old.since,
                                     granted |-> old.granted + grants,
                                     touched |-> clock]]
      /\ total' = [total EXCEPT ![c] = @ + grants]
  BY DEF Charge
<1>2. old \in [since : Nat, granted : Nat, touched : Nat] /\ grants \in Nat
  BY DEF TypeOK
<1>3. /\ c \in Kept(n) => old = life[c]
      /\ c \notin Kept(n) => old.since = n /\ old.granted = 0
  OBVIOUS
<1> HIDE DEF old, grants
<1>4. grants = (IF spent > 0 THEN 1 ELSE 0)
  BY DEF grants
<1> QED  BY <1>1, <1>2, <1>3, <1>4 DEF TypeOK

\* A call reads the clock, waits, and ends in one of three ways.
LEMMA CallerTypes ==
  ASSUME TypeOK, NEW t \in Callers
  PROVE  asking[t] \in Clients /\ now[t] \in Nat
BY DEF TypeOK

-----------------------------------------------------------------------------
(* The inductive invariant holds at the start ... *)

LEMMA InitIndInv == Init => IndInv
<1> SUFFICES ASSUME Init PROVE IndInv
  OBVIOUS
<1> USE Configuration, LimiterAssumption
<1>1. DOMAIN clients = {}
  BY DEF Init
<1>2. TypeOK
  BY <1>1 DEF Init, TypeOK
<1>3. WithinCapacity
  BY <1>1, FS_EmptySet DEF WithinCapacity
<1>4. CallersInTime
  BY DEF Init, CallersInTime
<1>5. EntriesInTime /\ BucketLaw
  BY <1>1 DEF EntriesInTime, BucketLaw
<1>6. SweptInTime
  BY <1>1 DEF Init, SweptInTime
<1>7. Ledger
  BY <1>1 DEF Init, Ledger
<1> QED  BY <1>2, <1>3, <1>4, <1>5, <1>6, <1>7 DEF IndInv

-----------------------------------------------------------------------------
(* ... is kept by the steps that leave the map alone ... *)

LEMMA TickKeepsIndInv == IndInv /\ Tick => IndInv'
<1> SUFFICES ASSUME IndInv, Tick PROVE IndInv'
  OBVIOUS
<1> USE Configuration, LimiterAssumption
<1>1. /\ clock \in Nat /\ clock' = clock + 1
      /\ UNCHANGED <<clients, nextCleanup, asking, now, reply, life, total>>
  BY DEF IndInv, TypeOK, Tick
<1>2. TypeOK'
  BY <1>1 DEF IndInv, TypeOK
<1>3. WithinCapacity'
  BY <1>1 DEF IndInv, WithinCapacity
<1>4. CallersInTime'
  BY <1>1 DEF IndInv, TypeOK, CallersInTime, Tick
<1>5. EntriesInTime'
  BY <1>1, <1>2 DEF IndInv, TypeOK, EntriesInTime
<1>6. BucketLaw'
  BY <1>1 DEF IndInv, BucketLaw
<1>7. SweptInTime'
  BY <1>1 DEF IndInv, TypeOK, SweptInTime
<1>8. Ledger'
  <2>1. Rps * (clock - MaxWait) <= Rps * (clock' - MaxWait)
    <3>1. clock - MaxWait \in Int /\ clock' - MaxWait \in Int
      BY <1>1
    <3>2. clock - MaxWait <= clock' - MaxWait
      BY <1>1
    <3> QED  BY <3>1, <3>2, Earning
  <2>2. ASSUME NEW c \in Clients, total[c] * TicksPerSecond <= Rps * (clock - MaxWait)
        PROVE  total[c] * TicksPerSecond <= Rps * (clock' - MaxWait)
    <3>1. /\ total[c] * TicksPerSecond \in Int
          /\ Rps * (clock - MaxWait) \in Int /\ Rps * (clock' - MaxWait) \in Int
      BY <1>1, Granting, Earning DEF IndInv, TypeOK
    <3> QED  BY <2>1, <2>2, <3>1
  <2> QED  BY <1>1, <2>2 DEF IndInv, Ledger, RefillsWhileIdle
<1> QED  BY <1>2, <1>3, <1>4, <1>5, <1>6, <1>7, <1>8 DEF IndInv

LEMMA ReadClockKeepsIndInv ==
  ASSUME IndInv, NEW t \in Callers, NEW c \in Clients, ReadClock(t, c)
  PROVE  IndInv'
<1> USE Configuration, LimiterAssumption DEF ReadClock
<1>1. TypeOK'
  BY DEF IndInv, TypeOK
<1>2. WithinCapacity' /\ EntriesInTime' /\ BucketLaw' /\ SweptInTime' /\ Ledger'
  BY DEF IndInv, WithinCapacity, EntriesInTime, BucketLaw, SweptInTime, Ledger, RefillsWhileIdle
<1>3. CallersInTime'
  BY DEF IndInv, TypeOK, CallersInTime
<1> QED  BY <1>1, <1>2, <1>3 DEF IndInv

-----------------------------------------------------------------------------
(* ... by the sweep, which drops only entries that are full again ... *)

LEMMA DroppedEntry ==
  ASSUME IndInv, RefillsWhileIdle,
         NEW t \in Callers, reply[t] = "pending",
         NEW c \in DOMAIN clients \ Kept(now[t])
  PROVE  /\ clients[c].allowance + Rps * (clock - clients[c].last) >= burst
         /\ total[c] * TicksPerSecond <= Rps * (clock - MaxWait)
<1> DEFINE n == now[t]
           e == clients[c]
           at == life[c].touched
<1> USE Configuration, LimiterAssumption
<1>1. /\ n \in Nat /\ clock \in Nat /\ n <= clock
      /\ c \in Clients /\ e \in Entry
      /\ e.last \in Nat /\ e.allowance \in Int /\ at \in Nat /\ total[c] \in Nat
  BY DEF IndInv, TypeOK, CallersInTime, Entry
<1>2. /\ e.lastSeen = e.last /\ at <= e.last + MaxWait
      /\ e.allowance >= -(Rps * (at - e.last))
  BY DEF IndInv, EntriesInTime
<1>3. e.last < n - maxIdle
  <2>1. TypeOK /\ CleanupDue(n)
    BY <1>1, KeptEntries DEF IndInv
  <2> QED  BY <1>1, <1>2, <2>1, KeptEntries
<1> HIDE DEF n, e, at
<1>4. e.allowance >= -(Rps * MaxWait)
  <2>1. at - e.last \in Int /\ MaxWait \in Int /\ at - e.last <= MaxWait
    BY <1>1, <1>2
  <2>2. Rps * (at - e.last) <= Rps * MaxWait
    BY <2>1, Earning
  <2>3. Rps * (at - e.last) \in Int /\ Rps * MaxWait \in Int
    BY <2>1, Earning
  <2> QED  BY <1>1, <1>2, <2>2, <2>3
<1>5. burst <= Rps * maxIdle - Rps * MaxWait - Rps * MaxWait
  <2>1. Rps * (maxIdle - 2 * MaxWait) = Rps * maxIdle - Rps * MaxWait - Rps * MaxWait
    <3>1. maxIdle \in Int /\ MaxWait \in Int /\ maxIdle - MaxWait \in Int
      OBVIOUS
    <3>2. maxIdle - 2 * MaxWait = (maxIdle - MaxWait) - MaxWait
      OBVIOUS
    <3> QED  BY <3>1, <3>2, Earning
  <2> QED  BY <2>1 DEF RefillsWhileIdle
<1>6. Rps * maxIdle <= Rps * clock - Rps * e.last
  <2>1. maxIdle \in Int /\ clock - e.last \in Int /\ maxIdle <= clock - e.last
    BY <1>1, <1>3
  <2> QED  BY <1>1, <2>1, Earning
<1>7. /\ Rps * MaxWait \in Nat /\ Rps * maxIdle \in Int
      /\ Rps * clock \in Int /\ Rps * e.last \in Int
  BY <1>1, Earning
<1>8. e.allowance + Rps * (clock - e.last) >= burst
  BY <1>1, <1>4, <1>5, <1>6, <1>7, Earning
<1>9. total[c] * TicksPerSecond <= Rps * (clock - MaxWait)
  <2>1. total[c] * TicksPerSecond + e.allowance <= burst + Rps * e.last
    BY <1>1 DEF IndInv, Ledger, e
  <2>2. Rps * (clock - MaxWait) = Rps * clock - Rps * MaxWait
    BY <1>1, Earning
  <2>3. total[c] * TicksPerSecond \in Nat
    BY <1>1, Granting
  <2> QED  BY <1>1, <1>4, <1>5, <1>6, <1>7, <2>1, <2>2, <2>3
<1> QED  BY <1>8, <1>9 DEF e

LEMMA RefuseKeepsIndInv ==
  ASSUME IndInv, NEW t \in Callers, RefuseNewcomer(t)
  PROVE  IndInv'
<1> DEFINE n == now[t]
<1> USE Configuration, LimiterAssumption
<1>1. /\ n \in Nat /\ clock \in Nat /\ nextCleanup \in Nat
      /\ n <= clock /\ clock <= n + MaxWait /\ TypeOK /\ reply[t] = "pending"
  BY DEF IndInv, TypeOK, CallersInTime, RefuseNewcomer, Return
<1>2. /\ clients' = [d \in Kept(n) |-> clients[d]]
      /\ reply' = [reply EXCEPT ![t] = "full"]
      /\ nextCleanup' = NextCleanup(n)
      /\ UNCHANGED <<clock, asking, now, life, total>>
  BY DEF RefuseNewcomer, Return, history
<1> HIDE DEF n
<1>3. /\ DOMAIN clients' = Kept(n)
      /\ Kept(n) \subseteq DOMAIN clients /\ Kept(n) \subseteq Clients
      /\ \A d \in Kept(n) : clients'[d] = clients[d] /\ clients[d] \in Entry
      /\ clients' = [d \in DOMAIN clients' |-> clients'[d]]
  BY <1>1, <1>2, KeptEntries
<1>4. TypeOK'
  BY <1>1, <1>2, <1>3, KeptEntries DEF TypeOK, Verdict
<1>5. WithinCapacity'
  <2>1. IsFiniteSet(DOMAIN clients)
    BY FS_Subset DEF IndInv, TypeOK
  <2>2. Cardinality(Kept(n)) <= Cardinality(DOMAIN clients)
    BY <1>3, <2>1, FS_Subset
  <2>3. Cardinality(Kept(n)) \in Nat /\ Cardinality(DOMAIN clients) \in Nat
    BY <1>3, <2>1, FS_Subset, FS_CardinalityType
  <2> QED  BY <1>3, <2>2, <2>3 DEF IndInv, WithinCapacity
<1>6. CallersInTime'
  BY <1>2 DEF IndInv, TypeOK, CallersInTime
<1>7. EntriesInTime' /\ BucketLaw'
  BY <1>2, <1>3 DEF IndInv, EntriesInTime, BucketLaw
<1>8. SweptInTime'
  <2> SUFFICES ASSUME MaxWait <= maxIdle PROVE SweptInTime'
    BY DEF SweptInTime
  <2>1. nextCleanup <= clock + maxIdle
    BY DEF IndInv, SweptInTime
  <2>2. \A d \in Kept(n) : clients[d].last >= nextCleanup - 2 * maxIdle
                           /\ clients[d].last \in Nat /\ clients[d].lastSeen = clients[d].last
    BY <1>3 DEF IndInv, SweptInTime, Entry, EntriesInTime
  <2>3. CASE CleanupDue(n)
    <3>1. nextCleanup' = n + maxIdle
      BY <1>2, <2>3 DEF NextCleanup
    <3>2. \A d \in Kept(n) : clients[d].lastSeen >= n - maxIdle
      BY <1>1, <2>3, KeptEntries
    <3> QED  BY <1>1, <1>2, <1>3, <2>2, <3>1, <3>2 DEF SweptInTime
  <2>4. CASE ~CleanupDue(n)
    BY <1>2, <1>3, <2>1, <2>2, <2>4 DEF SweptInTime, NextCleanup
  <2> QED  BY <2>3, <2>4
<1>9. Ledger'
  <2> SUFFICES ASSUME RefillsWhileIdle, NEW c \in Clients
               PROVE  IF c \in DOMAIN clients'
                      THEN total[c] * TicksPerSecond + clients'[c].allowance
                             <= burst + Rps * clients'[c].last
                      ELSE \/ total[c] = 0
                           \/ total[c] * TicksPerSecond <= Rps * (clock - MaxWait)
    BY <1>2 DEF Ledger, RefillsWhileIdle
  <2>1. CASE c \in DOMAIN clients \ Kept(n)
    BY <1>1, <1>3, <2>1, DroppedEntry DEF n
  <2>2. CASE c \notin DOMAIN clients \ Kept(n)
    BY <1>3, <2>2 DEF IndInv, Ledger
  <2> QED  BY <2>1, <2>2
<1> QED  BY <1>4, <1>5, <1>6, <1>7, <1>8, <1>9 DEF IndInv

-----------------------------------------------------------------------------
(* ... and by a call that charges its client, granted or limited. *)

LEMMA ChargeKeepsIndInv ==
  ASSUME IndInv, NEW t \in Callers, NEW verdict \in Verdict,
         NEW spent \in {0, TicksPerSecond},
         HasRoom(asking[t], now[t]),
         spent = 0 \/ spent <= Refilled(Found(asking[t], now[t]), now[t]),
         Return(t, verdict), Charge(asking[t], now[t], spent)
  PROVE  IndInv'
<1> DEFINE n == now[t]
           c == asking[t]
           f == Found(c, n)
           grants == IF spent > 0 THEN 1 ELSE 0
<1> USE Configuration, LimiterAssumption
<1>1. /\ n \in Nat /\ clock \in Nat /\ nextCleanup \in Nat /\ c \in Clients
      /\ n <= clock /\ clock <= n + MaxWait /\ TypeOK /\ reply[t] = "pending"
  BY DEF IndInv, TypeOK, CallersInTime, Return
<1>2. /\ reply' = [reply EXCEPT ![t] = verdict]
      /\ nextCleanup' = NextCleanup(n)
      /\ UNCHANGED <<clock, asking, now>>
  BY DEF Return
<1>3. /\ HasRoom(c, n) /\ Charge(c, n, spent)
      /\ spent = 0 \/ spent <= Refilled(f, n)
  OBVIOUS
<1> HIDE DEF n, c
<1>4. /\ f \in Entry
      /\ f.allowance \in Int /\ f.last \in Nat
      /\ c \in Kept(n) => f = clients[c]
      /\ c \notin Kept(n) => f.allowance = burst /\ f.last = n
  BY <1>1, FoundEntry DEF Found, NewEntry, Entry
<1> HIDE DEF f
<1>5. /\ Refilled(f, n) \in Int /\ Refilled(f, n) <= burst
      /\ Refilled(f, n) <= f.allowance + Rps * n - Rps * f.last
      /\ \/ Refilled(f, n) = burst
         \/ Refilled(f, n) = f.allowance + Rps * n - Rps * f.last
  BY <1>1, <1>4, RefillBounds
<1>6. /\ DOMAIN clients' = Kept(n) \union {c}
      /\ clients' = [d \in DOMAIN clients' |-> clients'[d]]
      /\ clients'[c] \in Entry
      /\ clients'[c].last = n /\ clients'[c].lastSeen = n
      /\ clients'[c].allowance = Refilled(f, n) - spent
      /\ \A d \in Kept(n) \ {c} : clients'[d] = clients[d]
  <2>1. TypeOK /\ c \in Clients /\ n \in Nat /\ Charge(c, n, spent)
    BY <1>1, <1>3
  <2>2. clients' = [d \in DOMAIN clients' |-> clients'[d]] /\ DOMAIN clients' = Kept(n) \union {c}
    BY ONLY <2>1 DEF Charge
  <2>3. /\ clients'[c] = Touched(Found(c, n), n, spent)
        /\ \A d \in Kept(n) \ {c} : clients'[d] = clients[d]
    BY ONLY <2>1 DEF Charge
  <2>4. clients'[c] = [allowance |-> Refilled(f, n) - spent, last |-> n, lastSeen |-> n]
    BY ONLY <2>3 DEF Touched, f
  <2>5. Refilled(f, n) - spent \in Int
    BY <1>5, LimiterAssumption
  <2> QED  BY <1>1, <2>2, <2>3, <2>4, <2>5 DEF Entry
<1>7. /\ life' \in [Clients -> [since : Nat, granted : Nat, touched : Nat]]
      /\ total' \in [Clients -> Nat]
      /\ total'[c] = total[c] + grants
      /\ life'[c].touched = clock
      /\ c \in Kept(n) => /\ life'[c].since = life[c].since
                          /\ life'[c].granted = life[c].granted + grants
      /\ c \notin Kept(n) => life'[c].since = n /\ life'[c].granted = grants
      /\ \A d \in Clients \ {c} : life'[d] = life[d] /\ total'[d] = total[d]
  BY <1>1, <1>3, ChargeHistory
<1>8. grants \in {0, 1} /\ grants * TicksPerSecond = spent
  BY DEF grants
<1> HIDE DEF grants
<1>9. /\ Kept(n) \subseteq DOMAIN clients /\ Kept(n) \subseteq Clients
      /\ \A d \in Kept(n) : clients[d] \in Entry
  BY <1>1, KeptEntries
<1>10. Rps * n \in Int /\ Rps * clock \in Int /\ Rps * f.last \in Int
  BY <1>1, <1>4, Earning
<1>11. TypeOK'
  BY <1>1, <1>2, <1>6, <1>7, <1>9, KeptEntries DEF TypeOK
<1>12. WithinCapacity'
  <2>1. IsFiniteSet(DOMAIN clients) /\ IsFiniteSet(Kept(n))
    BY <1>9, FS_Subset DEF IndInv, TypeOK
  <2>2. /\ Cardinality(Kept(n)) <= Cardinality(DOMAIN clients)
        /\ Cardinality(Kept(n)) \in Nat /\ Cardinality(DOMAIN clients) \in Nat
    BY <1>9, <2>1, FS_Subset, FS_CardinalityType
  <2>3. CASE c \in Kept(n)
    <3>1. DOMAIN clients' = Kept(n)
      BY <1>6, <2>3
    <3> QED  BY <2>2, <3>1 DEF IndInv, WithinCapacity
  <2>4. CASE c \notin Kept(n)
    <3>1. Cardinality(DOMAIN clients') = Cardinality(Kept(n)) + 1
      BY <1>6, <2>1, <2>4, FS_AddElement
    <3> QED  BY <1>3, <2>2, <2>4, <3>1 DEF HasRoom, WithinCapacity
  <2> QED  BY <2>3, <2>4
<1>13. CallersInTime'
  BY <1>2 DEF IndInv, TypeOK, CallersInTime, Verdict
<1>14. EntriesInTime'
  <2>1. ASSUME NEW d \in Kept(n) \ {c}
        PROVE  LET e == clients'[d]  at == life'[d].touched IN
               /\ e.lastSeen = e.last
               /\ e.last <= at /\ at <= e.last + MaxWait /\ at <= clock'
               /\ e.allowance <= burst
               /\ e.allowance >= -(Rps * (at - e.last))
    BY <1>2, <1>6, <1>7, <1>9 DEF IndInv, EntriesInTime
  <2>2. Refilled(f, n) - spent >= -(Rps * (clock - n))
    <3>1. Rps * (clock - n) = Rps * clock - Rps * n /\ Rps * n <= Rps * clock
      BY <1>1, Earning
    <3>2. CASE Refilled(f, n) = burst \/ spent # 0
      BY <1>3, <1>5, <1>10, <3>1, <3>2
    <3>3. CASE spent = 0 /\ Refilled(f, n) = f.allowance + Rps * n - Rps * f.last
      <4>1. CASE c \in Kept(n)
        <5> DEFINE at == life[c].touched
        <5>1. /\ at \in Nat /\ at <= clock
              /\ f.allowance >= -(Rps * (at - f.last))
          BY <1>1, <1>4, <1>9, <4>1 DEF IndInv, TypeOK, EntriesInTime
        <5> HIDE DEF at
        <5>2. /\ at \in Int /\ f.last \in Int /\ clock \in Int /\ at <= clock
          BY <1>1, <1>4, <5>1
        <5>3. Rps * (at - f.last) = Rps * at - Rps * f.last
          BY <5>2, Earning
        <5>4. Rps * at <= Rps * clock /\ Rps * at \in Int
          BY <5>2, Earning
        <5> QED  BY <1>4, <1>10, <3>1, <3>3, <5>1, <5>3, <5>4
      <4>2. CASE c \notin Kept(n)
        BY <1>4, <1>10, <3>1, <3>3, <4>2
      <4> QED  BY <4>1, <4>2
    <3> QED  BY <1>5, <3>2, <3>3
  <2>3. LET e == clients'[c]  at == life'[c].touched IN
        /\ e.lastSeen = e.last
        /\ e.last <= at /\ at <= e.last + MaxWait /\ at <= clock'
        /\ e.allowance <= burst
        /\ e.allowance >= -(Rps * (at - e.last))
    BY <1>1, <1>2, <1>5, <1>6, <1>7, <2>2
  <2> QED  BY <1>6, <2>1, <2>3 DEF EntriesInTime
<1>15. BucketLaw'
  <2>1. \A d \in Kept(n) \ {c} :
          life'[d].granted * TicksPerSecond + clients'[d].allowance
            <= burst + Rps * (clients'[d].last - life'[d].since)
    BY <1>6, <1>7, <1>9 DEF IndInv, BucketLaw
  <2>2. life'[c].granted * TicksPerSecond + clients'[c].allowance
          <= burst + Rps * (n - life'[c].since)
    <3>1. CASE c \in Kept(n)
      <4> DEFINE g == life[c].granted
                 since == life[c].since
      <4>1. /\ g \in Nat /\ since \in Nat
            /\ g * TicksPerSecond + f.allowance <= burst + Rps * (f.last - since)
        BY <1>1, <1>4, <1>9, <3>1 DEF IndInv, TypeOK, BucketLaw
      <4>2. life'[c].granted = g + grants /\ life'[c].since = since
        BY <1>7, <3>1
      <4> HIDE DEF g, since
      <4>3. (g + grants) * TicksPerSecond = g * TicksPerSecond + spent
        <5>1. CASE grants = 0
          BY <1>8, <4>1, <5>1, Granting
        <5>2. CASE grants = 1
          BY <1>8, <4>1, <5>2, Granting
        <5> QED  BY <1>8, <5>1, <5>2
      <4>4. /\ Rps * (f.last - since) = Rps * f.last - Rps * since
            /\ Rps * (n - since) = Rps * n - Rps * since
            /\ Rps * since \in Int /\ g * TicksPerSecond \in Nat
        BY <1>1, <1>4, <4>1, Earning, Granting
      <4> QED  BY <1>4, <1>5, <1>6, <1>10, <4>1, <4>2, <4>3, <4>4
    <3>2. CASE c \notin Kept(n)
      <4>1. Rps * (n - n) = 0
        BY <1>1, Earning
      <4> QED  BY <1>5, <1>6, <1>7, <1>8, <3>2, <4>1
    <3> QED  BY <3>1, <3>2
  <2> QED  BY <1>6, <2>1, <2>2 DEF BucketLaw
<1>16. SweptInTime'
  <2> SUFFICES ASSUME MaxWait <= maxIdle PROVE SweptInTime'
    BY DEF SweptInTime
  <2>1. nextCleanup <= clock + maxIdle
    BY DEF IndInv, SweptInTime
  <2>2. \A d \in Kept(n) : clients[d].last >= nextCleanup - 2 * maxIdle
                           /\ clients[d].last \in Nat /\ clients[d].lastSeen = clients[d].last
    BY <1>9 DEF IndInv, SweptInTime, Entry, EntriesInTime
  <2>3. CASE CleanupDue(n)
    <3>1. nextCleanup' = n + maxIdle
      BY <1>2, <2>3 DEF NextCleanup
    <3>2. \A d \in Kept(n) : clients[d].lastSeen >= n - maxIdle
      BY <1>1, <2>3, KeptEntries
    <3> QED  BY <1>1, <1>2, <1>6, <2>2, <3>1, <3>2 DEF SweptInTime
  <2>4. CASE ~CleanupDue(n)
    <3>1. nextCleanup' = nextCleanup
      BY <1>2, <2>4 DEF NextCleanup
    <3>2. n >= nextCleanup - 2 * maxIdle
      BY <1>1, <2>1
    <3> QED  BY <1>1, <1>2, <1>6, <2>1, <2>2, <3>1, <3>2 DEF SweptInTime
  <2> QED  BY <2>3, <2>4
<1>17. Ledger'
  <2> SUFFICES ASSUME RefillsWhileIdle, NEW d \in Clients
               PROVE  IF d \in DOMAIN clients'
                      THEN total'[d] * TicksPerSecond + clients'[d].allowance
                             <= burst + Rps * clients'[d].last
                      ELSE \/ total'[d] = 0
                           \/ total'[d] * TicksPerSecond <= Rps * (clock - MaxWait)
    BY <1>2 DEF Ledger, RefillsWhileIdle
  <2>1. CASE d # c /\ d \in DOMAIN clients \ Kept(n)
    BY <1>1, <1>6, <1>7, <2>1, DroppedEntry DEF n
  <2>2. CASE d # c /\ d \notin DOMAIN clients \ Kept(n)
    BY <1>6, <1>7, <1>9, <2>2 DEF IndInv, Ledger
  <2>3. CASE d = c
    <3>1. /\ total[c] \in Nat /\ total[c] * TicksPerSecond \in Nat
          /\ total'[c] * TicksPerSecond = total[c] * TicksPerSecond + spent
      BY <1>1, <1>7, <1>8, Granting DEF TypeOK
    <3>2. CASE c \in Kept(n)
      <4>1. total[c] * TicksPerSecond + f.allowance <= burst + Rps * f.last
        BY <1>1, <1>4, <1>9, <3>2 DEF IndInv, Ledger
      <4> QED  BY <1>4, <1>5, <1>6, <1>10, <2>3, <3>1, <4>1
    <3>3. CASE c \notin Kept(n)
      <4>1. total[c] * TicksPerSecond <= Rps * n
        <5>1. \/ total[c] = 0
              \/ total[c] * TicksPerSecond <= Rps * (clock - MaxWait)
          <6>1. CASE c \in DOMAIN clients
            BY <1>1, <3>3, <6>1, DroppedEntry DEF n
          <6>2. CASE c \notin DOMAIN clients
            BY <1>1, <6>2 DEF IndInv, Ledger
          <6> QED  BY <6>1, <6>2
        <5>2. Rps * (clock - MaxWait) <= Rps * n /\ Rps * (clock - MaxWait) \in Int
          <6>1. clock - MaxWait \in Int /\ n \in Int /\ clock - MaxWait <= n
            BY <1>1
          <6> QED  BY <6>1, Earning
        <5>3. Rps * n >= 0
          BY <1>1
        <5> QED  BY <1>10, <3>1, <5>1, <5>2, <5>3
      <4> QED  BY <1>5, <1>6, <1>10, <2>3, <3>1, <4>1
    <3> QED  BY <3>2, <3>3
  <2> QED  BY <2>1, <2>2, <2>3
<1> QED  BY <1>11, <1>12, <1>13, <1>14, <1>15, <1>16, <1>17 DEF IndInv

-----------------------------------------------------------------------------
(* The theorems. *)

LEMMA NextKeepsIndInv == IndInv /\ [Next]_vars => IndInv'
<1> SUFFICES ASSUME IndInv, [Next]_vars PROVE IndInv'
  OBVIOUS
<1>1. CASE Tick
  BY <1>1, TickKeepsIndInv
<1>2. CASE \E t \in Callers, c \in Clients : ReadClock(t, c)
  BY <1>2, ReadClockKeepsIndInv
<1>3. CASE \E t \in Callers : RefuseNewcomer(t)
  BY <1>3, RefuseKeepsIndInv
<1>4. CASE \E t \in Callers : Limit(t)
  BY <1>4, ChargeKeepsIndInv DEF Limit, Verdict
<1>5. CASE \E t \in Callers : Grant(t)
  BY <1>5, ChargeKeepsIndInv DEF Grant, Verdict
<1>6. CASE UNCHANGED vars
  BY <1>6 DEF vars, IndInv, TypeOK, WithinCapacity, CallersInTime, EntriesInTime,
              BucketLaw, SweptInTime, Ledger, RefillsWhileIdle
<1> QED  BY <1>1, <1>2, <1>3, <1>4, <1>5, <1>6 DEF Next

\* The inductive invariant holds of every state of every behaviour.
THEOREM Invariance == Spec => []IndInv
BY InitIndInv, NextKeepsIndInv, PTL DEF Spec

\* The limiter's state is well typed.
THEOREM TypeCorrect == Spec => []TypeOK
<1>1. IndInv => TypeOK
  BY DEF IndInv
<1> QED  BY <1>1, Invariance, PTL

\* The map never holds more than maxClients entries.
THEOREM CapacityHolds == Spec => []WithinCapacity
<1>1. IndInv => WithinCapacity
  BY DEF IndInv
<1> QED  BY <1>1, Invariance, PTL

\* An entry never grants more than a burst plus what was earned since it was
\* made, in whatever order its callers enter the locked section.
THEOREM BucketLawHolds == Spec => []BucketLaw
<1>1. IndInv => BucketLaw
  BY DEF IndInv
<1> QED  BY <1>1, Invariance, PTL

\* Reordering pushes no allowance below -Rps * MaxWait.
THEOREM BoundedDebtHolds == Spec => []BoundedDebt
<1>1. ASSUME IndInv PROVE BoundedDebt
  <2> SUFFICES ASSUME NEW c \in DOMAIN clients
               PROVE  clients[c].allowance >= -(Rps * MaxWait)
    BY DEF BoundedDebt
  <2> DEFINE at == life[c].touched
             last == clients[c].last
             a == clients[c].allowance
  <2>1. /\ at \in Nat /\ last \in Nat /\ a \in Int
        /\ at <= last + MaxWait /\ a >= -(Rps * (at - last))
    BY <1>1 DEF IndInv, TypeOK, Entry, EntriesInTime
  <2> HIDE DEF at, last, a
  <2>2. at - last \in Int /\ MaxWait \in Int /\ at - last <= MaxWait
    BY <2>1, LimiterAssumption
  <2>3. Rps * (at - last) <= Rps * MaxWait
    BY <2>2, Earning
  <2>4. Rps * (at - last) \in Int /\ Rps * MaxWait \in Int
    BY <2>2, Earning
  <2> QED  BY <2>1, <2>3, <2>4 DEF a
<1> QED  BY <1>1, Invariance, PTL

\* Over a whole run, and however often its entry is dropped and made again, a
\* client gets at most a burst plus what the rate allows for the time passed.
THEOREM OverallRateHolds == Spec => []OverallRate
<1>1. ASSUME IndInv PROVE OverallRate
  <2> SUFFICES ASSUME RefillsWhileIdle, NEW c \in Clients
               PROVE  total[c] * TicksPerSecond <= burst + Rps * clock
    BY DEF OverallRate
  <2>1. /\ TypeOK /\ total[c] \in Nat /\ clock \in Nat
        /\ total[c] * TicksPerSecond \in Nat /\ Rps * clock \in Int /\ Rps * clock >= 0
    <3>1. TypeOK /\ total[c] \in Nat /\ clock \in Nat
      BY <1>1 DEF IndInv, TypeOK
    <3> QED  BY <3>1, Granting, LimiterAssumption
  <2>2. CASE c \in DOMAIN clients
    <3> DEFINE at == life[c].touched
               last == clients[c].last
               a == clients[c].allowance
    <3>1. /\ at \in Nat /\ last \in Nat /\ a \in Int
          /\ at <= clock /\ a >= -(Rps * (at - last))
      BY <1>1, <2>2 DEF IndInv, TypeOK, Entry, EntriesInTime
    <3>2. total[c] * TicksPerSecond + a <= burst + Rps * last
      BY <1>1, <2>2 DEF IndInv, Ledger
    <3> HIDE DEF at, last, a
    <3>3. Rps * (at - last) = Rps * at - Rps * last
      BY <3>1, Earning
    <3>4. Rps * at <= Rps * clock
      BY <2>1, <3>1, Earning
    <3>5. Rps * at \in Int /\ Rps * last \in Int
      BY <3>1, Earning
    <3> QED  BY <2>1, <3>1, <3>2, <3>3, <3>4, <3>5, Configuration
  <2>3. CASE c \notin DOMAIN clients
    <3>1. clock - MaxWait \in Int /\ clock \in Int /\ clock - MaxWait <= clock
      BY <2>1, LimiterAssumption
    <3>2. Rps * (clock - MaxWait) <= Rps * clock /\ Rps * (clock - MaxWait) \in Int
      BY <3>1, Earning
    <3>3. \/ total[c] = 0
          \/ total[c] * TicksPerSecond <= Rps * (clock - MaxWait)
      BY <1>1, <2>3 DEF IndInv, Ledger
    <3>4. CASE total[c] = 0
      BY <2>1, <3>4, Granting, Configuration
    <3>5. CASE total[c] * TicksPerSecond <= Rps * (clock - MaxWait)
      BY <2>1, <3>2, <3>5, Configuration
    <3> QED  BY <3>3, <3>4, <3>5
  <2> QED  BY <2>2, <2>3
<1> QED  BY <1>1, Invariance, PTL

\* A step that takes an entry out of the map takes one that is full again.
THEOREM DropsOnlyFullBuckets == Spec => OnlyFullBucketsDropped
<1> DEFINE DropsFull ==
      RefillsWhileIdle =>
        \A c \in DOMAIN clients \ DOMAIN clients' :
          clients[c].allowance + Rps * (clock - clients[c].last) >= burst
<1>1. ASSUME IndInv, [Next]_vars PROVE [DropsFull]_vars
  <2>1. CASE UNCHANGED clients
    BY <2>1
  <2>2. ASSUME NEW t \in Callers, RefuseNewcomer(t) \/ Limit(t) \/ Grant(t)
        PROVE  DropsFull
    <3> SUFFICES ASSUME RefillsWhileIdle, NEW c \in DOMAIN clients \ DOMAIN clients'
                 PROVE  clients[c].allowance + Rps * (clock - clients[c].last) >= burst
      OBVIOUS
    <3>1. Kept(now[t]) \subseteq DOMAIN clients' /\ reply[t] = "pending"
      BY <2>2 DEF RefuseNewcomer, Limit, Grant, Charge, Return
    <3> QED  BY <1>1, <3>1, DroppedEntry
  <2> QED  BY <1>1, <2>1, <2>2 DEF Next, Tick, ReadClock, vars
<1> QED  BY <1>1, Invariance, PTL DEF Spec, OnlyFullBucketsDropped

\* A newcomer is refused for want of room only while every entry in the map
\* was in use during the last two idle times.
THEOREM ReclaimsRoom == Spec => RoomIsReclaimed
<1> DEFINE AllInUse ==
      MaxWait <= maxIdle =>
        \A t \in Callers :
          reply[t] = "pending" /\ reply'[t] = "full" =>
            \A c \in DOMAIN clients' : clients'[c].lastSeen >= now[t] - 2 * maxIdle
<1>1. ASSUME IndInv, [Next]_vars PROVE [AllInUse]_vars
  <2> SUFFICES ASSUME MaxWait <= maxIdle, NEW t \in Callers,
                      reply[t] = "pending", reply'[t] = "full",
                      NEW c \in DOMAIN clients'
               PROVE  clients'[c].lastSeen >= now[t] - 2 * maxIdle
    OBVIOUS
  <2>1. IndInv'
    BY <1>1, NextKeepsIndInv
  <2>2. ~CleanupDue(now[t]) => nextCleanup' = nextCleanup
    <3>1. RefuseNewcomer(t)
      BY <1>1 DEF IndInv, TypeOK, Next, Tick, ReadClock, Limit, Grant, Return,
                  RefuseNewcomer, vars
    <3> QED  BY <3>1 DEF RefuseNewcomer, Return, NextCleanup
  <2>3. CleanupDue(now[t]) => nextCleanup' = now[t] + maxIdle
    <3>1. RefuseNewcomer(t)
      BY <1>1 DEF IndInv, TypeOK, Next, Tick, ReadClock, Limit, Grant, Return,
                  RefuseNewcomer, vars
    <3> QED  BY <3>1 DEF RefuseNewcomer, Return, NextCleanup
  <2>4. /\ clients'[c].last \in Nat /\ clients'[c].lastSeen = clients'[c].last
        /\ nextCleanup \in Nat /\ now[t] \in Nat
        /\ clients'[c].last >= nextCleanup' - 2 * maxIdle
    BY <1>1, <2>1 DEF IndInv, TypeOK, Entry, EntriesInTime, SweptInTime
  <2>5. nextCleanup' >= now[t] /\ nextCleanup' \in Nat
    BY <2>2, <2>3, <2>4, Configuration DEF CleanupDue
  <2> QED  BY <2>4, <2>5, Configuration
<1> QED  BY <1>1, Invariance, PTL DEF Spec, RoomIsReclaimed

-----------------------------------------------------------------------------
(* The refinement.  Without overtaking a pending caller's time is the clock. *)

LEMMA DebtValue ==
  ASSUME TypeOK, NEW c \in Clients
  PROVE  /\ Debt(c) \in Nat
         /\ c \notin DOMAIN clients => Debt(c) = 0
         /\ c \in DOMAIN clients =>
              LET owed == burst - clients[c].allowance - Rps * (clock - clients[c].last)
              IN  owed \in Int /\ Debt(c) = IF owed > 0 THEN owed ELSE 0
<1> DEFINE owed == burst - clients[c].allowance - Rps * (clock - clients[c].last)
<1>1. c \in DOMAIN clients => owed \in Int
  <2> SUFFICES ASSUME c \in DOMAIN clients PROVE owed \in Int
    OBVIOUS
  <2>1. /\ clients[c].allowance \in Int /\ clients[c].last \in Int
        /\ clock - clients[c].last \in Int
    BY DEF TypeOK, Entry
  <2> QED  BY <2>1, Earned, Configuration
<1>2. c \in DOMAIN clients => Debt(c) = IF owed > 0 THEN owed ELSE 0
  BY DEF Debt
<1>3. c \notin DOMAIN clients => Debt(c) = 0
  BY DEF Debt
<1> HIDE DEF owed
<1>4. Debt(c) \in Nat
  BY <1>1, <1>2, <1>3
<1> QED  BY <1>1, <1>2, <1>3, <1>4 DEF owed

\* What the caller finds at the present clock is a burst less its debt; an
\* entry that was dropped had no debt.
LEMMA RefilledIsBurstLessDebt ==
  ASSUME IndInv, RefillsWhileIdle, NEW t \in Callers,
         reply[t] = "pending", now[t] = clock, NEW c \in Clients
  PROVE  /\ Refilled(Found(c, clock), clock) = burst - Debt(c)
         /\ c \notin Kept(clock) => Debt(c) = 0
<1>1. TypeOK /\ clock \in Nat
  BY DEF IndInv, TypeOK
<1>2. CASE c \in Kept(clock)
  <2> DEFINE a == clients[c].allowance
             last == clients[c].last
  <2>1. /\ a \in Int /\ last \in Nat /\ c \in DOMAIN clients
        /\ Found(c, clock) = clients[c]
    BY <1>1, <1>2, KeptEntries DEF Found, Entry
  <2>2. /\ Refilled(clients[c], clock) =
            IF a + (clock - last) * Rps > burst THEN burst ELSE a + (clock - last) * Rps
        /\ Debt(c) = IF burst - a - Rps * (clock - last) > 0
                     THEN burst - a - Rps * (clock - last) ELSE 0
    BY <1>1, <2>1, DebtValue DEF Refilled
  <2> HIDE DEF a, last
  <2>3. (clock - last) * Rps = Rps * (clock - last) /\ Rps * (clock - last) \in Int
    <3>1. clock - last \in Int
      BY <1>1, <2>1
    <3> QED  BY <3>1, Earned
  <2> QED  BY <1>2, <2>1, <2>2, <2>3, Configuration
<1>3. CASE c \notin Kept(clock)
  <2>1. Found(c, clock) = NewEntry(clock)
    BY <1>3 DEF Found
  <2>2. Refilled(NewEntry(clock), clock) = burst
    <3>1. (clock - clock) * Rps = 0
      BY <1>1, LimiterAssumption
    <3> QED  BY <3>1, Configuration DEF Refilled, NewEntry
  <2>3. Debt(c) = 0
    <3>1. CASE c \in DOMAIN clients
      <4> DEFINE owed == burst - clients[c].allowance - Rps * (clock - clients[c].last)
      <4>1. owed \in Int /\ Debt(c) = IF owed > 0 THEN owed ELSE 0
        BY <1>1, <3>1, DebtValue
      <4>2. clients[c].allowance + Rps * (clock - clients[c].last) >= burst
        BY <1>3, <3>1, DroppedEntry
      <4>3. clients[c].allowance \in Int /\ Rps * (clock - clients[c].last) \in Int
        <5>1. /\ clients[c].allowance \in Int
              /\ clock \in Int /\ clock - clients[c].last \in Int
          BY <1>1, <3>1 DEF TypeOK, Entry
        <5> QED  BY <5>1, Earned
      <4>4. ~(owed > 0)
        BY <4>2, <4>3, Configuration
      <4> QED  BY <4>1, <4>4
    <3>2. CASE c \notin DOMAIN clients
      BY <1>1, <3>2, DebtValue
    <3> QED  BY <3>1, <3>2
  <2> QED  BY <1>3, <2>1, <2>2, <2>3, Configuration
<1> QED  BY <1>2, <1>3

\* A sweep forgives nobody: who is not charged owes as much after as before.
LEMMA DebtUnchanged ==
  ASSUME IndInv, RefillsWhileIdle, NEW t \in Callers,
         reply[t] = "pending", now[t] = clock, clock' = clock, NEW c \in Clients,
         c \in DOMAIN clients' <=> c \in Kept(clock),
         c \in Kept(clock) => clients'[c] = clients[c]
  PROVE  Debt(c)' = Debt(c)
<1>1. CASE c \in Kept(clock)
  BY <1>1, KeptEntries DEF Debt, IndInv, TypeOK
<1>2. CASE c \notin Kept(clock)
  <2>1. Debt(c)' = 0
    BY <1>2 DEF Debt
  <2> QED  BY <1>2, <2>1, RefilledIsBurstLessDebt
<1> QED  BY <1>1, <1>2

\* Who is charged owes what it owed and what the call costs.
LEMMA DebtCharged ==
  ASSUME IndInv, RefillsWhileIdle, NEW t \in Callers,
         reply[t] = "pending", now[t] = clock, clock' = clock,
         NEW spent \in {0, TicksPerSecond},
         NEW k \in Clients, Charge(k, clock, spent)
  PROVE  [c \in Clients |-> Debt(c)]' =
           [[c \in Clients |-> Debt(c)] EXCEPT ![k] = @ + spent]
<1>1. TypeOK /\ clock \in Nat
  BY DEF IndInv, TypeOK
<1>3. /\ DOMAIN clients' = Kept(clock) \union {k}
      /\ clients'[k].last = clock
      /\ clients'[k].allowance = Refilled(Found(k, clock), clock) - spent
      /\ \A d \in Kept(clock) \ {k} : clients'[d] = clients[d]
  BY <1>1, ChargeEffect
<1>4. ASSUME NEW c \in Clients, c # k PROVE Debt(c)' = Debt(c)
  <2>1. c \in DOMAIN clients' <=> c \in Kept(clock)
    BY <1>3, <1>4
  <2>2. c \in Kept(clock) => clients'[c] = clients[c]
    BY <1>3, <1>4
  <2> QED  BY <2>1, <2>2, DebtUnchanged
<1>5. Debt(k)' = Debt(k) + spent
  <2>1. Refilled(Found(k, clock), clock) = burst - Debt(k) /\ Debt(k) \in Nat
    BY <1>1, RefilledIsBurstLessDebt, DebtValue
  <2>2. Rps * (clock - clock) = 0
    BY <1>1, LimiterAssumption
  <2> DEFINE owed == burst - clients'[k].allowance - Rps * (clock - clients'[k].last)
  <2>3. Debt(k)' = IF owed > 0 THEN owed ELSE 0
    BY <1>3 DEF Debt, burst
  <2>4. owed = Debt(k) + spent
    BY <1>3, <2>1, <2>2, Configuration, LimiterAssumption
  <2> HIDE DEF owed
  <2> QED  BY <2>1, <2>3, <2>4, LimiterAssumption
<1>6. \A c \in Clients : Debt(c)' = IF c = k THEN Debt(k) + spent ELSE Debt(c)
  BY <1>4, <1>5
<1> QED  BY <1>6

\* Without overtaking the limiter is a leaky bucket per client that never
\* forgets, provided a bucket refills within the idle time.
THEOREM Refinement ==
  ASSUME MaxWait = 0, RefillsWhileIdle
  PROVE  Spec => ImplementsLeakyBucket
<1> DEFINE debt == [c \in Clients |-> Debt(c)]
<1>1. Init => Bucket!Init
  BY DEF Init, Bucket!Init, Debt
<1>2. ASSUME IndInv, [Next]_vars PROVE [Bucket!Next]_(Bucket!bucketVars)
  <2>1. TypeOK /\ clock \in Nat
    BY <1>2 DEF IndInv, TypeOK
  <2>2. ASSUME NEW t \in Callers, reply[t] = "pending" PROVE now[t] = clock
    <3>1. now[t] \in Nat /\ now[t] <= clock /\ clock <= now[t] + MaxWait
      BY <1>2, <2>2 DEF IndInv, TypeOK, CallersInTime
    <3> QED  BY <2>1, <3>1
  <2>3. ASSUME NEW c \in Clients PROVE Debt(c) \in Nat /\ debt[c] = Debt(c)
    BY <2>1, <2>3, DebtValue
  <2>4. ASSUME Tick PROVE Bucket!Next
    <3>1. ASSUME NEW c \in Clients
          PROVE  Debt(c)' = IF Debt(c) > Rps THEN Debt(c) - Rps ELSE 0
      <4>1. CASE c \notin DOMAIN clients
        <5>1. Debt(c)' = 0 /\ Debt(c) = 0
          BY <2>4, <4>1 DEF Tick, Debt
        <5> QED  BY <5>1, LimiterAssumption
      <4>2. CASE c \in DOMAIN clients
        <5> DEFINE owed == burst - clients[c].allowance - Rps * (clock - clients[c].last)
        <5>1. owed \in Int /\ Debt(c) = IF owed > 0 THEN owed ELSE 0
          BY <2>1, <4>2, DebtValue
        <5>2. clock' = clock + 1 /\ clients' = clients
          BY <2>4 DEF Tick
        <5>3. Rps * (clock' - clients[c].last) = Rps * (clock - clients[c].last) + Rps
          <6>1. clients[c].last \in Int /\ clock - clients[c].last \in Int
            BY <2>1, <4>2 DEF TypeOK, Entry
          <6>2. clock' - clients[c].last = (clock - clients[c].last) + 1
            BY <2>1, <5>2, <6>1
          <6> QED  BY <6>1, <6>2, LimiterAssumption
        <5>4. clients[c].allowance \in Int /\ Rps * (clock - clients[c].last) \in Int
          <6>1. clients[c].allowance \in Int /\ clock - clients[c].last \in Int
            BY <2>1, <4>2 DEF TypeOK, Entry
          <6> QED  BY <6>1, Earned
        <5>5. burst - clients[c].allowance - Rps * (clock' - clients[c].last) = owed - Rps
          BY <5>3, <5>4, Configuration, LimiterAssumption
        <5>6. Debt(c)' = IF owed - Rps > 0 THEN owed - Rps ELSE 0
          BY <4>2, <5>2, <5>5 DEF Debt, burst
        <5> HIDE DEF owed
        <5> QED  BY <5>1, <5>6, LimiterAssumption
      <4> QED  BY <4>1, <4>2
    <3>2. debt' = [c \in Clients |-> IF debt[c] > Rps THEN debt[c] - Rps ELSE 0]
      BY <2>3, <3>1
    <3> QED  BY <2>4, <3>2 DEF Tick, Bucket!Next, Bucket!Tick
  <2>5. ASSUME NEW t \in Callers, NEW c \in Clients, ReadClock(t, c) PROVE Bucket!Next
    <3>1. debt' = debt
      BY <2>5 DEF ReadClock, Debt
    <3> QED  BY <2>5, <3>1 DEF ReadClock, Bucket!Next, Bucket!Call
  <2>6. ASSUME NEW t \in Callers, RefuseNewcomer(t) PROVE Bucket!Next
    <3>1. now[t] = clock /\ reply[t] = "pending" /\ clock' = clock /\ asking[t] \in Clients
      BY <2>1, <2>2, <2>6 DEF RefuseNewcomer, Return, TypeOK
    <3>2. clients' = [d \in Kept(clock) |-> clients[d]] /\ ~HasRoom(asking[t], clock)
      BY <2>6, <3>1 DEF RefuseNewcomer
    <3>3. debt' = debt
      BY <1>2, <3>1, <3>2, DebtUnchanged
    <3>4. debt[asking[t]] = 0
      BY <1>2, <2>3, <3>1, <3>2, RefilledIsBurstLessDebt DEF HasRoom
    <3> HIDE DEF debt
    <3> QED
      BY <2>6, <3>1, <3>3, <3>4
      DEF RefuseNewcomer, Return, Bucket!Next, Bucket!TurnAway, Bucket!Answer, debt
  <2>7. ASSUME NEW t \in Callers, Limit(t) PROVE Bucket!Next
    <3>1. now[t] = clock /\ reply[t] = "pending" /\ clock' = clock /\ asking[t] \in Clients
      BY <2>1, <2>2, <2>7 DEF Limit, Return, TypeOK
    <3>2. Refilled(Found(asking[t], clock), clock) < TicksPerSecond /\ Charge(asking[t], clock, 0)
      BY <2>7, <3>1 DEF Limit
    <3>3. debt' = [debt EXCEPT ![asking[t]] = @ + 0]
      BY <1>2, <3>1, <3>2, DebtCharged
    <3>4. debt' = debt
      BY <2>3, <3>1, <3>3
    <3>5. debt[asking[t]] + TicksPerSecond > burst
      BY <1>2, <2>3, <3>1, <3>2, RefilledIsBurstLessDebt, Configuration, LimiterAssumption
    <3> QED
      BY <2>7, <3>1, <3>4, <3>5 DEF Limit, Return, Bucket!Next, Bucket!Limit, Bucket!Answer
  <2>8. ASSUME NEW t \in Callers, Grant(t) PROVE Bucket!Next
    <3>1. now[t] = clock /\ reply[t] = "pending" /\ clock' = clock /\ asking[t] \in Clients
      BY <2>1, <2>2, <2>8 DEF Grant, Return, TypeOK
    <3>2. /\ Refilled(Found(asking[t], clock), clock) >= TicksPerSecond
          /\ Charge(asking[t], clock, TicksPerSecond)
      BY <2>8, <3>1 DEF Grant
    <3>3. /\ Refilled(Found(asking[t], clock), clock) = burst - Debt(asking[t])
          /\ Debt(asking[t]) \in Nat
      BY <1>2, <2>3, <3>1, RefilledIsBurstLessDebt
    <3>4. TicksPerSecond <= Refilled(Found(asking[t], clock), clock)
      BY <3>2, <3>3, Configuration, LimiterAssumption
    <3>5. debt' = [debt EXCEPT ![asking[t]] = @ + TicksPerSecond]
      BY <1>2, <3>1, <3>2, <3>4, DebtCharged
    <3>6. debt[asking[t]] + TicksPerSecond <= burst
      BY <2>3, <3>1, <3>3, <3>4, Configuration, LimiterAssumption
    <3> QED
      BY <2>8, <3>1, <3>5, <3>6 DEF Grant, Return, Bucket!Next, Bucket!Grant, Bucket!Answer
  <2>9. ASSUME UNCHANGED vars PROVE UNCHANGED Bucket!bucketVars
    BY <2>9 DEF vars, Bucket!bucketVars, Debt
  <2> QED  BY <1>2, <2>4, <2>5, <2>6, <2>7, <2>8, <2>9 DEF Next
<1>3. Spec => Bucket!Spec
  BY <1>1, <1>2, Invariance, PTL DEF Spec, Bucket!Spec
<1> QED  BY <1>3 DEF ImplementsLeakyBucket
=============================================================================
