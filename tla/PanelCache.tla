----------------------------- MODULE PanelCache -----------------------------
(***************************************************************************)
(* Lookups in the panel through the cache of its answers: Client.get with  *)
(* Cache.Get and Cache.Set (internal/panel).  A lookup reads its entry     *)
(* under the lock of the cache, looks at the clock after it, deletes an    *)
(* expired entry under a second lock, asks the panel without any lock, and *)
(* stores the answer under a third.  Lookups of the same key interleave.   *)
(*                                                                         *)
(* An answer is told apart by the version of the panel's data it shows:    *)
(* version n of key k is what the panel had after its n-th change of k.    *)
(***************************************************************************)
EXTENDS Integers, Sequences, FiniteSets

CONSTANTS
  Callers,      \* handlers that look something up
  Keys,         \* the paths of the panel's API
  TTL,          \* life of an entry, in ticks; 0 configures no cache
  MaxSize,      \* entries the cache may hold
  MaxFetch,     \* bound: ticks from asking the panel to storing its answer;
                \* the timeout of the client ends a fetch
  MaxChanges,   \* bound: changes of each key in the panel
  MaxClock      \* bound: end of time

ASSUME CacheAssumption ==
  /\ TTL \in Nat /\ MaxFetch \in Nat /\ MaxChanges \in Nat /\ MaxClock \in Nat
  /\ MaxSize \in Nat \ {0}

VARIABLES
  items,        \* the cache: a function from some keys to entries
  lookup,       \* lookup[c]: the lookup caller c makes, or made last
  changes,      \* changes[k][n]: when the panel made version n of k
  clock

vars == <<items, lookup, changes, clock>>

Steps == {"read", "check", "evict", "ask", "asked", "answered", "done", "failed"}
Entry == [value : Nat, expires : Nat]

\* entry is the one Get copied; since is when the lookup began or, later, when it
\* asked the panel; value and ended are what it returned and when.
Lookup == [at : Steps, key : Keys, useCache : BOOLEAN, entry : Entry,
           since : Nat, value : Nat, ended : Nat]

NoEntry == [value |-> 0, expires |-> 0]

Init ==
  /\ items = [k \in {} |-> NoEntry]
  /\ \E k \in Keys :
       lookup = [c \in Callers |->
         [at |-> "failed", key |-> k, useCache |-> FALSE, entry |-> NoEntry,
          since |-> 0, value |-> 0, ended |-> 0]]
  /\ changes = [k \in Keys |-> <<>>]
  /\ clock = 0

Version(k) == Len(changes[k])

-----------------------------------------------------------------------------
(* The cache. *)

Cached == DOMAIN items
\* Mutation of Expired: an entry lives twice as long.
Expired_Late(entry) == clock > entry.expires + TTL

Expired(entry) == clock > entry.expires
KeepOnly(keys) == [k \in keys |-> items[k]]

\* What Set leaves before it stores: at capacity the expired entries go, and if
\* there are none an entry that expires first, even if the key that is stored
\* has an entry already.
Unexpired == {k \in Cached : ~Expired(items[k])}
Oldest(keys) == {k \in keys : \A j \in keys : items[k].expires <= items[j].expires}
Full(keys) == Cardinality(keys) >= MaxSize

Room(keys) ==
  IF ~Full(Cached) THEN keys = Cached
  ELSE IF ~Full(Unexpired) THEN keys = Unexpired
  ELSE \E k \in Oldest(Unexpired) : keys = Unexpired \ {k}

\* Mutation of NewEntry: it expired a life ago.
NewEntry_Past(v) == [value |-> v, expires |-> clock - TTL]

NewEntry(v) == [value |-> v, expires |-> clock + TTL]

Set(key, v) ==
  \E keys \in SUBSET Cached :
    /\ Room(keys)
    /\ items' = [k \in keys \union {key} |-> IF k = key THEN NewEntry(v) ELSE items[k]]

-----------------------------------------------------------------------------
(* A lookup. *)

At(c, step) == lookup[c].at = step
Becomes(c, l) == lookup' = [lookup EXCEPT ![c] = l] /\ UNCHANGED <<changes, clock>>
Go(c, step) == Becomes(c, [lookup[c] EXCEPT !.at = step, !.entry = NoEntry])
Return(c, v) ==
  Becomes(c, [lookup[c] EXCEPT !.at = "done", !.entry = NoEntry, !.value = v, !.ended = clock])

\* Mutation of Begin: useCache is ignored when the cache is read.
Begin_Cached(c, k, useCache) ==
  /\ lookup[c].at \in {"done", "failed"}
  /\ Becomes(c, [at |-> IF TTL > 0 THEN "read" ELSE "ask", key |-> k,
                 useCache |-> useCache, entry |-> NoEntry, since |-> clock, value |-> 0, ended |-> 0])
  /\ UNCHANGED items

\* UserByShortUUID and its like use the cache, ...Fresh and the admin's other
\* calls do not.
Begin(c, k, useCache) ==
  /\ lookup[c].at \in {"done", "failed"}
  /\ Becomes(c, [at |-> IF useCache /\ TTL > 0 THEN "read" ELSE "ask", key |-> k,
                 useCache |-> useCache, entry |-> NoEntry, since |-> clock, value |-> 0, ended |-> 0])
  /\ UNCHANGED items

\* Get: the entry is copied under the read lock.
Read(c) ==
  LET k == lookup[c].key IN
  /\ At(c, "read")
  /\ \/ k \notin Cached /\ Go(c, "ask")
     \/ k \in Cached /\ Becomes(c, [lookup[c] EXCEPT !.at = "check", !.entry = items[k]])
  /\ UNCHANGED items

\* The copy is judged by the clock without a lock.
Check(c) ==
  /\ At(c, "check")
  /\ \/ Expired(lookup[c].entry) /\ Go(c, "evict")
     \/ ~Expired(lookup[c].entry) /\ Return(c, lookup[c].entry.value)
  /\ UNCHANGED items

\* Mutation of Evict: the entry is not judged again under the lock.
Evict_Blindly(c) ==
  /\ At(c, "evict") /\ Go(c, "ask")
  /\ items' = KeepOnly(Cached \ {lookup[c].key})

\* Under the write lock the entry is looked up and judged again.
Evict(c) ==
  LET k == lookup[c].key IN
  /\ At(c, "evict") /\ Go(c, "ask")
  /\ items' = IF k \in Cached /\ Expired(items[k]) THEN KeepOnly(Cached \ {k}) ELSE items

Ask(c) ==
  /\ At(c, "ask")
  /\ Becomes(c, [lookup[c] EXCEPT !.at = "asked", !.since = clock])
  /\ UNCHANGED items

\* The panel reads its data and answers.
Answer(c) ==
  /\ At(c, "asked")
  /\ Becomes(c, [lookup[c] EXCEPT !.at = "answered", !.value = Version(lookup[c].key)])
  /\ UNCHANGED items

\* No answer in time, an error status, or a body that can not be used.
Fail(c) ==
  /\ lookup[c].at \in {"asked", "answered"}
  /\ Becomes(c, [lookup[c] EXCEPT !.at = "failed", !.value = 0])
  /\ UNCHANGED items

Store(c) ==
  /\ At(c, "answered")
  /\ IF lookup[c].useCache /\ TTL > 0 THEN Set(lookup[c].key, lookup[c].value)
     ELSE UNCHANGED items
  /\ Return(c, lookup[c].value)

-----------------------------------------------------------------------------
(* The panel and time. *)

Change(k) ==
  /\ Version(k) < MaxChanges
  /\ changes' = [changes EXCEPT ![k] = Append(@, clock)]
  /\ UNCHANGED <<items, lookup, clock>>

Fetching(c) == lookup[c].at \in {"asked", "answered"}

Tick ==
  /\ clock < MaxClock
  /\ \A c \in Callers : Fetching(c) => clock - lookup[c].since < MaxFetch
  /\ clock' = clock + 1
  /\ UNCHANGED <<items, lookup, changes>>

LookupStep(c) == Read(c) \/ Check(c) \/ Evict(c) \/ Ask(c) \/ Answer(c) \/ Fail(c) \/ Store(c)

Next ==
  \/ \E c \in Callers :
       \/ \E k \in Keys, useCache \in BOOLEAN : Begin(c, k, useCache)
       \/ LookupStep(c)
  \/ \E k \in Keys : Change(k)
  \/ Tick

Spec == Init /\ [][Next]_vars

-----------------------------------------------------------------------------
(* Properties *)

\* Every variable has its type.
TypeOK ==
  /\ Cached \subseteq Keys
  /\ items \in [Cached -> Entry]
  /\ lookup \in [Callers -> Lookup]
  /\ changes \in [Keys -> Seq(Nat)]
  /\ clock \in Nat

\* The cache never holds more than MaxSize entries, although Set makes room
\* before it knows whether its key needs any (cache.go:66-75).
WithinSize == Cardinality(Cached) <= MaxSize

\* log being the changes of a key: its version v was what the panel had at
\* time t or later.
WasCurrent(log, v, t) ==
  /\ v \in 0..Len(log)
  /\ v < Len(log) => log[v + 1] >= t

\* Nobody is answered with data the panel replaced more than the life of an
\* entry and one fetch ago, however lookups of the key interleave, even when
\* a slow answer overwrites a newer one with a fresh life.
BoundedStaleness ==
  \A c \in Callers :
    LET l == lookup[c] IN
    l.at = "done" => WasCurrent(changes[l.key], l.value, l.ended - TTL - MaxFetch)

\* A lookup past the cache returns data the panel had after it was asked: an
\* administrator who fetches headers does not get a cached answer.
FreshIsFresh ==
  \A c \in Callers :
    LET l == lookup[c] IN
    l.at = "done" /\ ~l.useCache => WasCurrent(changes[l.key], l.value, l.since)

\* An entry that is still good is dropped only to make room in a full cache,
\* and then no other expires earlier; in particular a Get that saw an expired
\* entry does not drop the one another lookup has stored since (cache.go:49).
GoodEntriesStay ==
  [][\A k \in Cached \ Cached' :
       Expired(items[k]) \/ (Cardinality(Cached) = MaxSize /\ k \in Oldest(Cached))]_vars

\* An entry is replaced only by one that lives at least as long.
LivesGrow ==
  [][\A k \in Cached \intersect Cached' : items'[k].expires >= items[k].expires]_vars

-----------------------------------------------------------------------------
(* The inductive invariant behind these properties. log and now stand for   *)
(* the changes of the key and the clock.                                    *)

GoodEntry(entry, log, now) ==
  /\ entry.expires <= now + TTL
  /\ WasCurrent(log, entry.value, entry.expires - TTL - MaxFetch)

GoodLookup(l, log, now) ==
  /\ l.at \in {"read", "check"} => l.useCache
  /\ l.at = "check" => GoodEntry(l.entry, log, now)
  /\ l.since <= now
  /\ l.at \in {"asked", "answered"} => now <= l.since + MaxFetch
  /\ l.at = "answered" => WasCurrent(log, l.value, l.since)
  /\ l.at = "done" =>
       /\ l.ended <= now
       /\ WasCurrent(log, l.value, l.ended - TTL - MaxFetch)
       /\ ~l.useCache => WasCurrent(log, l.value, l.since)

EntriesGood == \A k \in Cached : GoodEntry(items[k], changes[k], clock)
LookupsGood == \A c \in Callers : GoodLookup(lookup[c], changes[lookup[c].key], clock)

IndInv == TypeOK /\ IsFiniteSet(Cached) /\ WithinSize /\ EntriesGood /\ LookupsGood
=============================================================================
