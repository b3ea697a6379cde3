------------------------- MODULE PanelCacheProofs ---------------------------
(***************************************************************************)
(* Proofs about PanelCache, for any lookups, keys, sizes and lives of      *)
(* entries.                                                                *)
(***************************************************************************)
EXTENDS PanelCache, FiniteSetTheorems, TLAPS

-----------------------------------------------------------------------------
(* How data grow old.                                                       *)

LEMMA EarlierByALife ==
  ASSUME NEW t \in Nat, NEW u \in Nat, u <= t
  PROVE  u - TTL - MaxFetch <= t - TTL - MaxFetch
BY CacheAssumption

LEMMA WasCurrentEarlier ==
  ASSUME NEW log \in Seq(Nat), NEW v \in Nat, NEW t \in Int, NEW u \in Int, u <= t,
         WasCurrent(log, v, t)
  PROVE  WasCurrent(log, v, u)
<1>1. Len(log) \in Nat
  OBVIOUS
<1>2. v + 1 \in 1..Len(log) => log[v + 1] \in Nat
  OBVIOUS
<1> QED  BY <1>1, <1>2 DEF WasCurrent

\* A change of the panel makes no version older than the moment of the change.
LEMMA WasCurrentAfterChange ==
  ASSUME NEW log \in Seq(Nat), NEW now \in Nat, NEW v \in Nat, NEW t \in Int, t <= now,
         WasCurrent(log, v, t)
  PROVE  WasCurrent(Append(log, now), v, t)
<1>1. /\ Len(log) \in Nat /\ Len(Append(log, now)) = Len(log) + 1
      /\ Append(log, now)[Len(log) + 1] = now
      /\ \A n \in 1..Len(log) : Append(log, now)[n] = log[n]
  OBVIOUS
<1>2. CASE v = Len(log)
  BY <1>1, <1>2 DEF WasCurrent
<1>3. CASE v < Len(log)
  <2>1. v + 1 \in 1..Len(log)
    BY <1>1, <1>3
  <2> QED  BY <1>1, <1>3, <2>1 DEF WasCurrent
<1> QED  BY <1>1, <1>2, <1>3 DEF WasCurrent

LEMMA GoodEntryLasts ==
  ASSUME NEW log \in Seq(Nat), NEW now \in Nat, NEW entry \in Entry,
         GoodEntry(entry, log, now)
  PROVE  /\ GoodEntry(entry, Append(log, now), now)
         /\ GoodEntry(entry, log, now + 1)
<1>1. /\ entry.value \in Nat /\ entry.expires \in Nat /\ entry.expires <= now + TTL
      /\ entry.expires - TTL - MaxFetch \in Int /\ entry.expires - TTL - MaxFetch <= now
      /\ entry.expires <= now + 1 + TTL
  BY CacheAssumption DEF Entry, GoodEntry
<1>2. WasCurrent(log, entry.value, entry.expires - TTL - MaxFetch)
  BY DEF GoodEntry
<1>3. WasCurrent(Append(log, now), entry.value, entry.expires - TTL - MaxFetch)
  BY <1>1, <1>2, WasCurrentAfterChange
<1> QED  BY <1>1, <1>2, <1>3 DEF GoodEntry

\* A lookup stays good when the panel changes its key.
LEMMA GoodLookupAfterChange ==
  ASSUME NEW log \in Seq(Nat), NEW now \in Nat, NEW l \in Lookup,
         GoodLookup(l, log, now)
  PROVE  GoodLookup(l, Append(log, now), now)
<1>1. l.entry \in Entry /\ l.value \in Nat /\ l.since \in Nat /\ l.ended \in Nat
  BY DEF Lookup
<1>2. l.at = "check" => GoodEntry(l.entry, Append(log, now), now)
  BY <1>1, GoodEntryLasts DEF GoodLookup
<1>3. l.at = "answered" => WasCurrent(Append(log, now), l.value, l.since)
  BY <1>1, WasCurrentAfterChange DEF GoodLookup
<1>4. l.at = "done" => WasCurrent(Append(log, now), l.value, l.ended - TTL - MaxFetch)
  <2> HAVE l.at = "done"
  <2>1. l.ended - TTL - MaxFetch \in Int /\ l.ended - TTL - MaxFetch <= now
    BY <1>1, CacheAssumption DEF GoodLookup
  <2> QED  BY <1>1, <2>1, WasCurrentAfterChange DEF GoodLookup
<1>5. l.at = "done" /\ ~l.useCache => WasCurrent(Append(log, now), l.value, l.since)
  BY <1>1, WasCurrentAfterChange DEF GoodLookup
<1> QED  BY <1>2, <1>3, <1>4, <1>5 DEF GoodLookup

\* A lookup stays good when time passes, unless it has waited long enough.
LEMMA GoodLookupAfterTick ==
  ASSUME NEW log \in Seq(Nat), NEW now \in Nat, NEW l \in Lookup,
         GoodLookup(l, log, now),
         l.at \in {"asked", "answered"} => now - l.since < MaxFetch
  PROVE  GoodLookup(l, log, now + 1)
<1>1. l.entry \in Entry /\ l.since \in Nat /\ l.ended \in Nat
  BY DEF Lookup
<1>2. l.at = "check" => GoodEntry(l.entry, log, now + 1)
  BY <1>1, GoodEntryLasts DEF GoodLookup
<1> QED  BY <1>1, <1>2, CacheAssumption DEF GoodLookup

-----------------------------------------------------------------------------
(* The steps of a lookup.                                                   *)

\* A lookup goes on; the entries that stay are those of before, or good ones.
LEMMA LookupGoesOn ==
  ASSUME IndInv, NEW c \in Callers, NEW l \in Lookup, Becomes(c, l),
         GoodLookup(l, changes[l.key], clock),
         Cached' \subseteq Keys, items' \in [Cached' -> Entry],
         IsFiniteSet(Cached'), WithinSize',
         \A k \in Cached' : GoodEntry(items'[k], changes[k], clock)
  PROVE  IndInv'
<1>1. /\ lookup' = [lookup EXCEPT ![c] = l] /\ changes' = changes /\ clock' = clock
      /\ lookup \in [Callers -> Lookup]
  BY DEF Becomes, IndInv, TypeOK
<1>2. TypeOK'
  BY <1>1 DEF IndInv, TypeOK
<1>3. EntriesGood'
  BY <1>1 DEF EntriesGood
<1>4. LookupsGood'
  BY <1>1 DEF IndInv, LookupsGood
<1> QED  BY <1>2, <1>3, <1>4 DEF IndInv

\* As most steps leave the cache alone:
LEMMA LookupKeepsCache ==
  ASSUME IndInv, NEW c \in Callers, NEW l \in Lookup, Becomes(c, l), UNCHANGED items,
         GoodLookup(l, changes[l.key], clock)
  PROVE  IndInv'
<1>1. /\ Cached' \subseteq Keys /\ items' \in [Cached' -> Entry]
      /\ IsFiniteSet(Cached') /\ WithinSize'
      /\ \A k \in Cached' : GoodEntry(items'[k], changes[k], clock)
  BY DEF IndInv, TypeOK, WithinSize, EntriesGood, Cached
<1> QED  BY <1>1, LookupGoesOn

LEMMA LookupType ==
  ASSUME IndInv, NEW c \in Callers
  PROVE  /\ lookup[c] \in Lookup /\ lookup[c].key \in Keys
         /\ lookup[c].useCache \in BOOLEAN
         /\ lookup[c].entry \in Entry /\ NoEntry \in Entry
         /\ lookup[c].value \in Nat /\ lookup[c].since \in Nat /\ lookup[c].ended \in Nat
         /\ clock \in Nat
         /\ changes[lookup[c].key] \in Seq(Nat)
         /\ Version(lookup[c].key) \in Nat
         /\ GoodLookup(lookup[c], changes[lookup[c].key], clock)
<1>1. lookup[c] \in Lookup /\ lookup[c].key \in Keys
  BY DEF IndInv, TypeOK, Lookup
<1>2. changes[lookup[c].key] \in Seq(Nat)
  BY <1>1 DEF IndInv, TypeOK
<1>3. Version(lookup[c].key) \in Nat
  BY <1>2 DEF Version
<1> QED  BY <1>1, <1>2, <1>3 DEF IndInv, TypeOK, Lookup, LookupsGood, NoEntry, Entry

LEMMA BeginKeepsInv ==
  ASSUME IndInv, NEW c \in Callers, NEW k \in Keys, NEW useCache \in BOOLEAN,
         Begin(c, k, useCache)
  PROVE  IndInv'
<1> DEFINE l == [at |-> IF useCache /\ TTL > 0 THEN "read" ELSE "ask", key |-> k,
                 useCache |-> useCache, entry |-> NoEntry, since |-> clock, value |-> 0, ended |-> 0]
<1>1. l \in Lookup
  BY DEF Lookup, Steps, Entry, NoEntry, IndInv, TypeOK
<1>2. GoodLookup(l, changes[l.key], clock)
  BY DEF GoodLookup, IndInv, TypeOK
<1> QED  BY <1>1, <1>2, LookupKeepsCache DEF Begin

\* A lookup that goes on without an entry and is neither fetching nor done.
LEMMA GoKeepsCache ==
  ASSUME IndInv, NEW c \in Callers, NEW step \in {"ask", "evict"}, Go(c, step), UNCHANGED items
  PROVE  IndInv'
<1> DEFINE l == [lookup[c] EXCEPT !.at = step, !.entry = NoEntry]
<1>1. l \in Lookup
  BY LookupType DEF Lookup, Steps
<1>2. GoodLookup(l, changes[l.key], clock)
  BY LookupType DEF GoodLookup, Lookup
<1> QED  BY <1>1, <1>2, LookupKeepsCache DEF Go

LEMMA ReadKeepsInv ==
  ASSUME IndInv, NEW c \in Callers, Read(c)
  PROVE  IndInv'
<1> DEFINE k == lookup[c].key
           l == [lookup[c] EXCEPT !.at = "check", !.entry = items[k]]
<1>1. CASE Go(c, "ask") /\ UNCHANGED items
  BY <1>1, GoKeepsCache
<1>2. CASE k \in Cached /\ Becomes(c, l) /\ UNCHANGED items
  <2>1. items[k] \in Entry /\ GoodEntry(items[k], changes[k], clock)
    BY <1>2 DEF IndInv, TypeOK, EntriesGood
  <2>2. l \in Lookup /\ l.key = k /\ l.at = "check" /\ l.entry = items[k]
        /\ l.useCache = lookup[c].useCache /\ l.since = lookup[c].since
    BY <2>1, LookupType DEF Lookup, Steps
  <2>3. lookup[c].useCache /\ lookup[c].since <= clock
    BY LookupType DEF Read, At, GoodLookup
  <2>4. GoodLookup(l, changes[l.key], clock)
    BY <2>1, <2>2, <2>3 DEF GoodLookup
  <2> QED  BY <1>2, <2>2, <2>4, LookupKeepsCache
<1> QED  BY <1>1, <1>2 DEF Read

LEMMA CheckKeepsInv ==
  ASSUME IndInv, NEW c \in Callers, Check(c)
  PROVE  IndInv'
<1> DEFINE m == lookup[c]
           l == [m EXCEPT !.at = "done", !.entry = NoEntry, !.value = m.entry.value, !.ended = clock]
<1>1. CASE Go(c, "evict") /\ UNCHANGED items
  BY <1>1, GoKeepsCache
<1>2. CASE ~Expired(m.entry) /\ Becomes(c, l) /\ UNCHANGED items
  <2>0. /\ m.entry.value \in Nat /\ m.entry.expires \in Nat /\ m.at = "check"
        /\ clock \in Nat /\ m.since \in Nat /\ changes[m.key] \in Seq(Nat)
    BY LookupType DEF Check, At, Entry
  <2>a. ~(clock > m.entry.expires)
    BY <1>2 DEF Expired
  <2>1. /\ m.entry.expires - TTL - MaxFetch \in Int /\ clock - TTL - MaxFetch \in Int
        /\ clock <= m.entry.expires
    BY <2>0, <2>a, CacheAssumption
  <2>2. WasCurrent(changes[m.key], m.entry.value, m.entry.expires - TTL - MaxFetch)
        /\ m.useCache
    BY <2>0, LookupType DEF GoodLookup, GoodEntry
  <2>3. clock - TTL - MaxFetch <= m.entry.expires - TTL - MaxFetch
    BY <2>0, <2>1, EarlierByALife
  <2>4. WasCurrent(changes[m.key], m.entry.value, clock - TTL - MaxFetch)
    BY <2>0, <2>1, <2>2, <2>3, WasCurrentEarlier
  <2>5. /\ l \in Lookup /\ l.key = m.key /\ l.at = "done" /\ l.useCache = m.useCache
        /\ l.value = m.entry.value /\ l.ended = clock /\ l.since = m.since
    BY <2>0, LookupType DEF Lookup, Steps
  <2>6. m.since <= clock
    BY LookupType DEF GoodLookup
  <2>7. GoodLookup(l, changes[l.key], clock)
    BY <2>0, <2>2, <2>4, <2>5, <2>6 DEF GoodLookup
  <2> QED  BY <1>2, <2>5, <2>7, LookupKeepsCache
<1> QED  BY <1>1, <1>2 DEF Check, Return

\* What an Evict leaves: an entry goes only if it has expired.
LEMMA EvictEffect ==
  ASSUME IndInv, NEW c \in Callers, Evict(c)
  PROVE  /\ Cached' \subseteq Cached
         /\ \A k \in Cached' : items'[k] = items[k]
         /\ items' \in [Cached' -> Entry]
         /\ \A k \in Cached \ Cached' : Expired(items[k])
<1>1. items \in [Cached -> Entry]
  BY DEF IndInv, TypeOK
<1>2. CASE items' = items
  BY <1>1, <1>2 DEF Cached
<1>3. CASE /\ Expired(items[lookup[c].key])
           /\ items' = KeepOnly(Cached \ {lookup[c].key})
  <2>1. Cached' = Cached \ {lookup[c].key}
    BY <1>3 DEF KeepOnly, Cached
  <2>2. \A k \in Cached' : items'[k] = items[k]
    BY <1>3, <2>1 DEF KeepOnly
  <2>3. items' \in [Cached' -> Entry]
    BY <1>1, <1>3, <2>1 DEF KeepOnly
  <2> QED  BY <1>3, <2>1, <2>2, <2>3
<1> QED  BY <1>2, <1>3 DEF Evict

LEMMA EvictKeepsInv ==
  ASSUME IndInv, NEW c \in Callers, Evict(c)
  PROVE  IndInv'
<1> DEFINE l == [lookup[c] EXCEPT !.at = "ask", !.entry = NoEntry]
<1>1. l \in Lookup
  BY LookupType DEF Lookup, Steps
<1>2. GoodLookup(l, changes[l.key], clock)
  BY LookupType DEF GoodLookup, Lookup
<1>3. /\ Cached' \subseteq Cached /\ items' \in [Cached' -> Entry]
      /\ \A k \in Cached' : items'[k] = items[k]
  BY EvictEffect
<1>4. IsFiniteSet(Cached') /\ Cardinality(Cached') <= Cardinality(Cached)
  BY <1>3, FS_Subset DEF IndInv
<1>5. Cardinality(Cached) \in Nat /\ Cardinality(Cached') \in Nat
  BY <1>4, FS_CardinalityType DEF IndInv
<1>6. WithinSize'
  BY <1>4, <1>5, CacheAssumption DEF IndInv, WithinSize
<1>7. Cached' \subseteq Keys /\ \A k \in Cached' : GoodEntry(items'[k], changes[k], clock)
  BY <1>3 DEF IndInv, TypeOK, EntriesGood
<1> QED  BY <1>1, <1>2, <1>3, <1>4, <1>6, <1>7, LookupGoesOn DEF Evict, Go

LEMMA AskKeepsInv ==
  ASSUME IndInv, NEW c \in Callers, Ask(c)
  PROVE  IndInv'
<1> DEFINE l == [lookup[c] EXCEPT !.at = "asked", !.since = clock]
<1>1. /\ l \in Lookup /\ l.at = "asked" /\ l.since = clock
  BY LookupType DEF Lookup, Steps
<1>2. GoodLookup(l, changes[l.key], clock)
  BY <1>1, LookupType, CacheAssumption DEF GoodLookup
<1> QED  BY <1>1, <1>2, LookupKeepsCache DEF Ask

LEMMA AnswerKeepsInv ==
  ASSUME IndInv, NEW c \in Callers, Answer(c)
  PROVE  IndInv'
<1> DEFINE m == lookup[c]
           l == [m EXCEPT !.at = "answered", !.value = Version(m.key)]
<1>1. /\ l \in Lookup /\ l.at = "answered" /\ l.since = m.since /\ l.key = m.key
      /\ l.value = Len(changes[m.key])
  BY LookupType DEF Lookup, Steps, Version
<1>2. m.since <= clock /\ clock <= m.since + MaxFetch
  BY LookupType DEF GoodLookup, Answer, At
<1>3. WasCurrent(changes[l.key], l.value, l.since)
  BY <1>1, LookupType DEF WasCurrent, Version
<1>4. GoodLookup(l, changes[l.key], clock)
  BY <1>1, <1>2, <1>3 DEF GoodLookup
<1> QED  BY <1>1, <1>4, LookupKeepsCache DEF Answer

LEMMA FailKeepsInv ==
  ASSUME IndInv, NEW c \in Callers, Fail(c)
  PROVE  IndInv'
<1> DEFINE l == [lookup[c] EXCEPT !.at = "failed", !.value = 0]
<1>1. l \in Lookup /\ l.at = "failed" /\ l.since = lookup[c].since
  BY LookupType DEF Lookup, Steps
<1>2. GoodLookup(l, changes[l.key], clock)
  BY <1>1, LookupType DEF GoodLookup
<1> QED  BY <1>1, <1>2, LookupKeepsCache DEF Fail

-----------------------------------------------------------------------------
(* Storing an answer.                                                       *)

\* The room Set makes: no key gains an entry, there is room for one more, and
\* what goes has expired, or expires first in a full cache.
LEMMA RoomEffect ==
  ASSUME IndInv, NEW keys, Room(keys)
  PROVE  /\ keys \subseteq Cached /\ IsFiniteSet(keys) /\ Cardinality(keys) < MaxSize
         /\ \A k \in Cached \ keys :
              \/ Expired(items[k])
              \/ Cardinality(Cached) = MaxSize /\ k \in Oldest(Cached)
<1>1. /\ IsFiniteSet(Cached) /\ Cardinality(Cached) \in Nat /\ Cardinality(Cached) <= MaxSize
      /\ MaxSize \in Nat
  BY FS_CardinalityType, CacheAssumption DEF IndInv, WithinSize
<1>2. /\ Unexpired \subseteq Cached /\ IsFiniteSet(Unexpired)
      /\ Cardinality(Unexpired) \in Nat /\ Cardinality(Unexpired) <= Cardinality(Cached)
      /\ \A k \in Cached \ Unexpired : Expired(items[k])
  BY <1>1, FS_Subset, FS_CardinalityType DEF Unexpired
<1>3. CASE ~Full(Cached)
  <2>1. keys = Cached
    BY <1>3 DEF Room
  <2> QED  BY <1>1, <1>3, <2>1 DEF Full
<1>4. CASE Full(Cached) /\ ~Full(Unexpired)
  <2>1. keys = Unexpired
    BY <1>4 DEF Room
  <2> QED  BY <1>1, <1>2, <1>4, <2>1 DEF Full
<1>5. CASE Full(Cached) /\ Full(Unexpired)
  <2>1. PICK k \in Oldest(Unexpired) : keys = Unexpired \ {k}
    BY <1>5 DEF Room
  <2>2. Cardinality(Unexpired) = MaxSize /\ Cardinality(Cached) = MaxSize
    BY <1>1, <1>2, <1>5 DEF Full
  <2>3. Unexpired = Cached
    BY <1>1, <1>2, <2>2, FS_Subset
  <2>4. k \in Unexpired
    BY DEF Oldest
  <2>5. IsFiniteSet(keys) /\ Cardinality(keys) = Cardinality(Unexpired) - 1
    BY <1>2, <2>1, <2>4, FS_RemoveElement
  <2> QED  BY <1>1, <2>1, <2>2, <2>3, <2>5
<1> QED  BY <1>3, <1>4, <1>5

LEMMA SetEffect ==
  ASSUME IndInv, NEW key \in Keys, NEW v \in Nat, Set(key, v),
         WasCurrent(changes[key], v, clock - MaxFetch)
  PROVE  /\ Cached' \subseteq Keys /\ items' \in [Cached' -> Entry]
         /\ IsFiniteSet(Cached') /\ WithinSize'
         /\ \A k \in Cached' : GoodEntry(items'[k], changes[k], clock)
         /\ \A k \in Cached \ Cached' :
              \/ Expired(items[k])
              \/ Cardinality(Cached) = MaxSize /\ k \in Oldest(Cached)
         /\ \A k \in Cached \intersect Cached' : items'[k].expires >= items[k].expires
<1>1. PICK keys \in SUBSET Cached :
        /\ Room(keys)
        /\ items' = [k \in keys \union {key} |-> IF k = key THEN NewEntry(v) ELSE items[k]]
  BY DEF Set
<1>2. /\ keys \subseteq Cached /\ IsFiniteSet(keys) /\ Cardinality(keys) < MaxSize
      /\ \A k \in Cached \ keys :
           \/ Expired(items[k])
           \/ Cardinality(Cached) = MaxSize /\ k \in Oldest(Cached)
  BY <1>1, RoomEffect
<1>3. /\ Cached' = keys \union {key}
      /\ items'[key] = NewEntry(v)
      /\ \A k \in keys : k # key => items'[k] = items[k]
  BY <1>1 DEF Cached
<1>4. /\ clock \in Nat /\ NewEntry(v) \in Entry /\ NewEntry(v).expires = clock + TTL
      /\ NewEntry(v).value = v
      /\ clock + TTL - TTL - MaxFetch = clock - MaxFetch
  BY CacheAssumption DEF IndInv, TypeOK, NewEntry, Entry
<1>5. GoodEntry(NewEntry(v), changes[key], clock)
  BY <1>4, CacheAssumption DEF GoodEntry
<1>6. /\ Cached \subseteq Keys /\ items \in [Cached -> Entry]
      /\ \A k \in Cached : GoodEntry(items[k], changes[k], clock)
  BY DEF IndInv, TypeOK, EntriesGood
<1>7. items' \in [Cached' -> Entry] /\ Cached' \subseteq Keys
  BY <1>1, <1>2, <1>3, <1>4, <1>6
<1>8. /\ IsFiniteSet(Cached')
      /\ Cardinality(Cached') = Cardinality(keys) \/ Cardinality(Cached') = Cardinality(keys) + 1
  BY <1>2, <1>3, FS_AddElement
<1>9. WithinSize'
  BY <1>2, <1>8, FS_CardinalityType, CacheAssumption DEF WithinSize
<1>10. \A k \in Cached' : GoodEntry(items'[k], changes[k], clock)
  BY <1>2, <1>3, <1>5, <1>6
<1>11. ASSUME NEW k \in Cached \intersect Cached'
       PROVE  items'[k].expires >= items[k].expires
  <2>1. items[k].expires \in Nat /\ items[k].expires <= clock + TTL
    BY <1>6 DEF Entry, GoodEntry
  <2> QED  BY <1>3, <1>4, <2>1, CacheAssumption
<1> QED  BY <1>2, <1>3, <1>7, <1>8, <1>9, <1>10, <1>11

LEMMA AnsweredInTime ==
  ASSUME IndInv, NEW c \in Callers, lookup[c].at = "answered"
  PROVE  /\ clock - MaxFetch \in Int /\ clock - TTL - MaxFetch \in Int
         /\ WasCurrent(changes[lookup[c].key], lookup[c].value, lookup[c].since)
         /\ WasCurrent(changes[lookup[c].key], lookup[c].value, clock - MaxFetch)
         /\ WasCurrent(changes[lookup[c].key], lookup[c].value, clock - TTL - MaxFetch)
<1>1. /\ lookup[c].since \in Nat /\ clock \in Nat /\ lookup[c].value \in Nat
      /\ changes[lookup[c].key] \in Seq(Nat)
      /\ clock <= lookup[c].since + MaxFetch
      /\ WasCurrent(changes[lookup[c].key], lookup[c].value, lookup[c].since)
  BY LookupType DEF GoodLookup
<1>2. /\ clock - MaxFetch \in Int /\ clock - TTL - MaxFetch \in Int
      /\ clock - MaxFetch <= lookup[c].since /\ clock - TTL - MaxFetch <= lookup[c].since
  BY <1>1, CacheAssumption
<1> QED  BY <1>1, <1>2, WasCurrentEarlier

LEMMA StoreEffect ==
  ASSUME IndInv, NEW c \in Callers, Store(c)
  PROVE  /\ Cached' \subseteq Keys /\ items' \in [Cached' -> Entry]
         /\ IsFiniteSet(Cached') /\ WithinSize'
         /\ \A k \in Cached' : GoodEntry(items'[k], changes[k], clock)
         /\ \A k \in Cached \ Cached' :
              \/ Expired(items[k])
              \/ Cardinality(Cached) = MaxSize /\ k \in Oldest(Cached)
         /\ \A k \in Cached \intersect Cached' : items'[k].expires >= items[k].expires
<1>1. CASE Set(lookup[c].key, lookup[c].value)
  BY <1>1, LookupType, AnsweredInTime, SetEffect DEF Store, At
<1>2. CASE UNCHANGED items
  <2>1. /\ Cached' = Cached /\ items' = items /\ clock \in Nat
        /\ \A k \in Cached : items[k].expires \in Nat
    BY <1>2 DEF Cached, IndInv, TypeOK, Entry
  <2> QED  BY <2>1 DEF IndInv, TypeOK, WithinSize, EntriesGood
<1> QED  BY <1>1, <1>2 DEF Store

LEMMA StoreKeepsInv ==
  ASSUME IndInv, NEW c \in Callers, Store(c)
  PROVE  IndInv'
<1> DEFINE m == lookup[c]
           l == [m EXCEPT !.at = "done", !.entry = NoEntry, !.value = m.value, !.ended = clock]
<1>1. /\ l \in Lookup /\ l.key = m.key /\ l.at = "done" /\ l.useCache = m.useCache
      /\ l.value = m.value /\ l.ended = clock /\ l.since = m.since
  BY LookupType DEF Lookup, Steps
<1>2. m.since <= clock
  BY LookupType DEF GoodLookup
<1>3. /\ WasCurrent(changes[m.key], m.value, m.since)
      /\ WasCurrent(changes[m.key], m.value, clock - TTL - MaxFetch)
  BY AnsweredInTime DEF Store, At
<1>4. GoodLookup(l, changes[l.key], clock)
  BY <1>1, <1>2, <1>3, LookupType DEF GoodLookup
<1> QED  BY <1>1, <1>4, StoreEffect, LookupGoesOn DEF Store, Return

-----------------------------------------------------------------------------
(* The panel and time.                                                      *)

LEMMA ChangeKeepsInv ==
  ASSUME IndInv, NEW k \in Keys, Change(k)
  PROVE  IndInv'
<1>1. /\ changes \in [Keys -> Seq(Nat)] /\ clock \in Nat
      /\ changes' = [changes EXCEPT ![k] = Append(changes[k], clock)]
      /\ items' = items /\ lookup' = lookup /\ clock' = clock /\ Cached' = Cached
  BY DEF IndInv, TypeOK, Change, Cached
<1>2. changes[k] \in Seq(Nat) /\ Append(changes[k], clock) \in Seq(Nat)
  BY <1>1
<1>3. TypeOK'
  BY <1>1, <1>2 DEF IndInv, TypeOK
<1>4. \A j \in Keys : changes'[j] = IF j = k THEN Append(changes[j], clock) ELSE changes[j]
  BY <1>1
<1>5. EntriesGood'
  <2> SUFFICES ASSUME NEW j \in Cached PROVE GoodEntry(items[j], changes'[j], clock)
    BY <1>1 DEF EntriesGood
  <2>1. /\ j \in Keys /\ items[j] \in Entry /\ changes[j] \in Seq(Nat)
        /\ GoodEntry(items[j], changes[j], clock)
    BY <1>1 DEF IndInv, TypeOK, EntriesGood
  <2> QED  BY <1>1, <1>4, <2>1, GoodEntryLasts
<1>6. LookupsGood'
  <2> SUFFICES ASSUME NEW c \in Callers
               PROVE  GoodLookup(lookup[c], changes'[lookup[c].key], clock)
    BY <1>1 DEF LookupsGood
  <2> QED  BY <1>1, <1>4, LookupType, GoodLookupAfterChange
<1> QED  BY <1>1, <1>3, <1>5, <1>6 DEF IndInv, WithinSize

LEMMA TickKeepsInv ==
  ASSUME IndInv, Tick
  PROVE  IndInv'
<1>1. /\ clock \in Nat /\ clock' = clock + 1
      /\ items' = items /\ lookup' = lookup /\ changes' = changes /\ Cached' = Cached
  BY DEF IndInv, TypeOK, Tick, Cached
<1>2. TypeOK'
  BY <1>1 DEF IndInv, TypeOK
<1>3. EntriesGood'
  <2> SUFFICES ASSUME NEW j \in Cached PROVE GoodEntry(items[j], changes[j], clock + 1)
    BY <1>1 DEF EntriesGood
  <2>1. /\ items[j] \in Entry /\ changes[j] \in Seq(Nat)
        /\ GoodEntry(items[j], changes[j], clock)
    BY DEF IndInv, TypeOK, EntriesGood
  <2> QED  BY <1>1, <2>1, GoodEntryLasts
<1>4. LookupsGood'
  <2> SUFFICES ASSUME NEW c \in Callers
               PROVE  GoodLookup(lookup[c], changes[lookup[c].key], clock + 1)
    BY <1>1 DEF LookupsGood
  <2>1. lookup[c].at \in {"asked", "answered"} => clock - lookup[c].since < MaxFetch
    BY DEF Tick, Fetching
  <2> QED  BY <2>1, LookupType, GoodLookupAfterTick
<1> QED  BY <1>1, <1>2, <1>3, <1>4 DEF IndInv, WithinSize

-----------------------------------------------------------------------------
(* The theorems.                                                            *)

LEMMA InitInv == Init => IndInv
<1> SUFFICES ASSUME Init PROVE IndInv
  OBVIOUS
<1>1. Cached = {} /\ clock = 0 /\ changes = [k \in Keys |-> <<>>]
  BY DEF Init, Cached
<1>2. PICK k \in Keys :
        lookup = [c \in Callers |->
          [at |-> "failed", key |-> k, useCache |-> FALSE, entry |-> NoEntry,
           since |-> 0, value |-> 0, ended |-> 0]]
  BY DEF Init
<1>3. lookup \in [Callers -> Lookup]
  BY <1>2 DEF Lookup, Steps, Entry, NoEntry
<1>4. TypeOK
  <2>1. items \in [Cached -> Entry]
    BY <1>1 DEF Init, Cached
  <2>2. changes \in [Keys -> Seq(Nat)]
    <3>1. <<>> \in Seq(Nat)
      OBVIOUS
    <3> QED  BY <1>1, <3>1
  <2> QED  BY <1>1, <1>3, <2>1, <2>2 DEF TypeOK
<1>5. IsFiniteSet(Cached) /\ WithinSize
  BY <1>1, FS_EmptySet, CacheAssumption DEF WithinSize
<1>6. EntriesGood
  BY <1>1 DEF EntriesGood
<1>7. LookupsGood
  BY <1>1, <1>2 DEF LookupsGood, GoodLookup
<1> QED  BY <1>4, <1>5, <1>6, <1>7 DEF IndInv

LEMMA NextKeepsInv ==
  ASSUME IndInv, [Next]_vars
  PROVE  IndInv'
<1>1. ASSUME NEW c \in Callers, NEW k \in Keys, NEW u \in BOOLEAN, Begin(c, k, u)
      PROVE  IndInv'
  BY <1>1, BeginKeepsInv
<1>2. ASSUME NEW c \in Callers, LookupStep(c)
      PROVE  IndInv'
  BY <1>2, ReadKeepsInv, CheckKeepsInv, EvictKeepsInv, AskKeepsInv, AnswerKeepsInv,
     FailKeepsInv, StoreKeepsInv DEF LookupStep
<1>3. ASSUME NEW k \in Keys, Change(k)
      PROVE  IndInv'
  BY <1>3, ChangeKeepsInv
<1>4. CASE Tick
  BY <1>4, TickKeepsInv
<1>5. CASE UNCHANGED vars
  BY <1>5 DEF vars, IndInv, TypeOK, WithinSize, EntriesGood, LookupsGood, Cached
<1> QED  BY <1>1, <1>2, <1>3, <1>4, <1>5 DEF Next

\* The cache stays in its bounds, and every entry and every lookup under way
\* is of the age its step allows.
THEOREM Invariance == Spec => []IndInv
<1>1. IndInv /\ [Next]_vars => IndInv'
  BY NextKeepsInv
<1> QED  BY InitInv, <1>1, PTL DEF Spec

THEOREM TypeCorrect == Spec => []TypeOK
<1>1. IndInv => TypeOK
  BY DEF IndInv
<1> QED  BY <1>1, Invariance, PTL

\* The cache never holds more than MaxSize entries (cache.go:58-76).
THEOREM WithinSizeHolds == Spec => []WithinSize
<1>1. IndInv => WithinSize
  BY DEF IndInv
<1> QED  BY <1>1, Invariance, PTL

\* Nobody is answered with data the panel replaced more than the life of an
\* entry and one fetch ago (cache.go:37-76, client.go:158-209).
THEOREM BoundedStalenessHolds == Spec => []BoundedStaleness
<1>1. IndInv => BoundedStaleness
  BY DEF IndInv, LookupsGood, GoodLookup, BoundedStaleness
<1> QED  BY <1>1, Invariance, PTL

\* A lookup past the cache returns data the panel had after it was asked.
THEOREM FreshIsFreshHolds == Spec => []FreshIsFresh
<1>1. IndInv => FreshIsFresh
  BY DEF IndInv, LookupsGood, GoodLookup, FreshIsFresh
<1> QED  BY <1>1, Invariance, PTL

\* Only an Evict and a Store take entries out of the cache.
LEMMA OthersKeepItems ==
  ASSUME [Next]_vars, ~\E c \in Callers : Evict(c) \/ Store(c)
  PROVE  items' = items
BY DEF Next, LookupStep, Begin, Read, Check, Ask, Answer, Fail, Change, Tick, vars

\* An entry that is still good is dropped only to make room in a full cache,
\* and then no other expires earlier.
THEOREM GoodEntriesStayHolds == Spec => GoodEntriesStay
<1> DEFINE Stay == \A k \in Cached \ Cached' :
                     Expired(items[k]) \/ (Cardinality(Cached) = MaxSize /\ k \in Oldest(Cached))
<1>1. ASSUME IndInv, [Next]_vars
      PROVE  Stay
  <2>1. ASSUME NEW c \in Callers, Evict(c)
        PROVE  Stay
    BY <1>1, <2>1, EvictEffect
  <2>2. ASSUME NEW c \in Callers, Store(c)
        PROVE  Stay
    BY <1>1, <2>2, StoreEffect
  <2>3. CASE items' = items
    BY <2>3 DEF Cached
  <2> QED  BY <1>1, <2>1, <2>2, <2>3, OthersKeepItems
<1>2. IndInv /\ [Next]_vars => [Stay]_vars
  BY <1>1
<1> QED  BY <1>2, Invariance, PTL DEF Spec, GoodEntriesStay

\* An entry is replaced only by one that lives at least as long.
THEOREM LivesGrowHolds == Spec => LivesGrow
<1> DEFINE Grow == \A k \in Cached \intersect Cached' : items'[k].expires >= items[k].expires
<1>1. ASSUME IndInv, [Next]_vars
      PROVE  Grow
  <2>1. \A k \in Cached : items[k].expires \in Nat
    BY <1>1 DEF IndInv, TypeOK, Entry
  <2>2. ASSUME NEW c \in Callers, Evict(c)
        PROVE  Grow
    BY <1>1, <2>1, <2>2, EvictEffect
  <2>3. ASSUME NEW c \in Callers, Store(c)
        PROVE  Grow
    BY <1>1, <2>3, StoreEffect
  <2>4. CASE items' = items
    BY <2>1, <2>4
  <2> QED  BY <1>1, <2>2, <2>3, <2>4, OthersKeepItems
<1>2. IndInv /\ [Next]_vars => [Grow]_vars
  BY <1>1
<1> QED  BY <1>2, Invariance, PTL DEF Spec, LivesGrow
=============================================================================
