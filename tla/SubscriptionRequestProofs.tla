--------------------- MODULE SubscriptionRequestProofs ---------------------
(***************************************************************************)
(* Proofs about SubscriptionRequest, for any number of devices and any     *)
(* times.  IndInv says, step by step of a request, what it has waited for, *)
(* how old its copies and the cache's entries are, and what it left in     *)
(* the cache; the four properties follow from it.                          *)
(***************************************************************************)
EXTENDS SubscriptionRequest, TLAPS

-----------------------------------------------------------------------------
(* Copies and records. *)

LEMMA CopyFacts ==
  ASSUME NEW copy \in Copies
  PROVE  /\ Replaced(copy) \in Copies /\ Older(copy) \in Copies
         /\ Replaced(copy) = None <=> copy = None
         /\ Older(copy) = None <=> copy = None
         /\ copy # None => /\ copy \in Nat
                           /\ Replaced(copy) \in Nat /\ Older(copy) \in Nat
                           /\ Replaced(copy) <= 1 \/ Replaced(copy) = copy
                           /\ Older(copy) <= copy + 1
                           /\ copy = 0 => Older(copy) = 0
BY TimesAssumption DEF Copies, MaxLag, Replaced, Older

LEMMA Members ==
  /\ None \in Copies /\ 0 \in Copies /\ 0 \in 0..Fetch /\ FALSE \in BOOLEAN
  /\ "reply" \in Running \union Ended /\ "look" \in Running \union Ended
  /\ "wait" \in Running \union Ended /\ "got" \in Running \union Ended
  /\ "raw" \in Parts /\ "config" \in Outcomes
BY TimesAssumption DEF Copies, MaxLag, Running, Waiting, Parts, Outcomes

LEMMA NewTyped ==
  ASSUME NEW at \in {"look", "idle", "lost"}, NEW absent \in BOOLEAN
  PROVE  /\ New(at, absent) \in Request
         /\ Timed(New(at, absent)) /\ Young(New(at, absent))
BY TimesAssumption DEF New, Request, Copies, Running, Waiting, Ended, Outcomes, Parts, Timed, Young

\* A decided error is a good record, whatever the request came from.
LEMMA FailedGood ==
  ASSUME NEW q \in Request, q.at \in Running, Timed(q),
         NEW outcome \in Outcomes \ {"none", "config"}
  PROVE  /\ Failed(q, outcome) \in Request
         /\ Timed(Failed(q, outcome)) /\ Young(Failed(q, outcome))
<1> DEFINE n == Failed(q, outcome)
<1>1. /\ n.at = "reply" /\ n.copy = None /\ n.user = None /\ n.waited = 0
      /\ n.outcome = outcome /\ n.part = q.part /\ n.waits = q.waits /\ n.elapsed = q.elapsed
  BY DEF Failed, Request
<1>2. n \in Request
  BY Members, ZenonT(30) DEF Failed, Request
<1>3. Timed(n)
  BY <1>1 DEF Timed, Running, Waiting
<1>4. Young(n)
  BY <1>1 DEF Young, Waiting
<1> QED
  BY <1>2, <1>3, <1>4

\* So is what a lookup leads to, if its copy is young enough.
LEMMA FoundGood ==
  ASSUME NEW q \in Request, q.at \in {"look", "got"}, Timed(q), Young(q),
         NEW copy \in Copies \ {None}, copy <= 1 + TTL + Fetch,
         NEW next \in Found(q, copy)
  PROVE  next \in Request /\ Timed(next) /\ Young(next)
<1>1. CASE next \in {Failed(q, "panel_error"), Failed(q, "invalid_core")}
  BY <1>1, FailedGood DEF Running, Waiting, Outcomes
<1>2. CASE q.part = "user" /\ next = [q EXCEPT !.at = "look", !.part = "raw", !.user = copy,
                                              !.copy = None, !.waited = 0]
  <2>1. /\ next.at = "look" /\ next.part = "raw" /\ next.user = copy /\ next.waited = 0
        /\ next.outcome = q.outcome /\ next.waits = q.waits /\ next.elapsed = q.elapsed
    BY <1>2 DEF Request
  <2>2. next \in Request
    BY <1>2, Members, ZenonT(30) DEF Request
  <2>3. Timed(next)
    <3>1. q.waits \in 0..1 /\ (q.waits = 0 => q.elapsed = 0) /\ q.elapsed <= Fetch
      BY <1>2, TimesAssumption DEF Timed, Request, Running, Waiting
    <3> QED
      BY <2>1, <3>1 DEF Timed, Running, Waiting
  <2>4. Young(next)
    BY <2>1, TimesAssumption DEF Young, Waiting, Copies, MaxLag
  <2> QED
    BY <2>2, <2>3, <2>4
<1>3. CASE q.part = "raw" /\ next = [q EXCEPT !.at = "reply", !.raw = copy, !.copy = None,
                                             !.waited = 0, !.absent = FALSE, !.outcome = "config"]
  <2>1. /\ next.at = "reply" /\ next.part = "raw" /\ next.user = q.user /\ next.raw = copy
        /\ next.outcome = "config" /\ next.waits = q.waits /\ next.elapsed = q.elapsed
    BY <1>3 DEF Request
  <2>2. next \in Request
    BY <1>3, Members, ZenonT(30) DEF Request
  <2>3. Timed(next)
    BY <1>3, <2>1 DEF Timed, Running, Waiting
  <2>4. Young(next)
    <3>1. q.user # None /\ q.user \in Nat /\ q.waited \in 0..Fetch /\ q.user <= 1 + TTL + Fetch + q.waited
      BY <1>3, TimesAssumption DEF Request, Copies, MaxLag, Young, Waiting
    <3> QED
      BY <2>1, <3>1, TimesAssumption DEF Young, Waiting, Copies, MaxLag
  <2> QED
    BY <2>2, <2>3, <2>4
<1> QED
  BY <1>1, <1>2, <1>3 DEF Found, Request, Parts

-----------------------------------------------------------------------------
(* Initial states. *)

LEMMA InitInv == Init => IndInv
<1> SUFFICES ASSUME Init PROVE IndInv
  OBVIOUS
<1>1. \A r \in Requests : /\ req[r] = New("idle", FALSE) /\ req[r] \in Request
                          /\ Timed(req[r]) /\ Young(req[r])
  BY NewTyped DEF Init, Over
<1>2. TypeOK
  <2>1. req \in [Requests -> Request]
    BY <1>1 DEF Init
  <2> QED
    BY <2>1, TimesAssumption DEF Init, TypeOK, NoCache, Copies
<1> QED
  BY <1>1, <1>2, TimesAssumption
  DEF Init, IndInv, NoCache, Parts, New, Running, Waiting, RequestsAreTimed, CopiesAreYoung,
      EntriesAreYoung, RequestsFit, AbsenceIsKept, StopIsTimed, RecordIsCached

-----------------------------------------------------------------------------
(* Steps of one request. *)

\* A request may become any good record that fits the state.
LEMMA RequestStep ==
  ASSUME IndInv, NEW r \in Requests,
         NEW q \in Request, Timed(q), Young(q),
         AbsenceIsKept(q), StopIsTimed(q), RecordIsCached(q),
         Becomes(r, q), UNCHANGED <<up, grace, known, cache, age>>
  PROVE  IndInv'
<1>1. /\ req' \in [Requests -> Request] /\ req'[r] = q
      /\ \A s \in Requests : s # r => req'[s] = req[s]
  BY DEF IndInv, TypeOK, Becomes
<1>2. TypeOK'
  BY <1>1 DEF IndInv, TypeOK
<1>3. RequestsAreTimed' /\ CopiesAreYoung'
  BY <1>1 DEF IndInv, RequestsAreTimed, CopiesAreYoung
<1>4. EntriesAreYoung'
  BY DEF IndInv, EntriesAreYoung
<1>5. RequestsFit'
  <2> SUFFICES ASSUME NEW s \in Requests
               PROVE  /\ AbsenceIsKept(req'[s]) /\ StopIsTimed(req'[s]) /\ RecordIsCached(req'[s])
    BY DEF RequestsFit, AbsenceIsKept, StopIsTimed, RecordIsCached, UserIsCached
  <2> QED
    BY <1>1 DEF IndInv, RequestsFit
<1> QED
  BY <1>2, <1>3, <1>4, <1>5 DEF IndInv

LEMMA RequestFacts ==
  ASSUME IndInv, NEW r \in Requests
  PROVE  /\ req[r] \in Request /\ Timed(req[r]) /\ Young(req[r])
         /\ AbsenceIsKept(req[r]) /\ StopIsTimed(req[r]) /\ RecordIsCached(req[r])
BY DEF IndInv, TypeOK, RequestsAreTimed, CopiesAreYoung, RequestsFit

LEMMA BeginStep ==
  ASSUME IndInv, NEW r \in Requests, Begin(r) \/ Refuse(r)
  PROVE  IndInv'
<1>1. CASE Begin(r)
  <2> DEFINE q == New("look", ~known)
  <2>1. q \in Request /\ Timed(q) /\ Young(q)
    BY NewTyped DEF IndInv, TypeOK
  <2>2. AbsenceIsKept(q) /\ StopIsTimed(q) /\ RecordIsCached(q)
    BY <1>1 DEF Begin, New, AbsenceIsKept, StopIsTimed, RecordIsCached
  <2> QED
    BY <1>1, <2>1, <2>2, RequestStep DEF Begin, Environment, Cache
<1>2. CASE Refuse(r)
  <2> DEFINE q == Over("idle")
  <2>1. q \in Request /\ Timed(q) /\ Young(q)
    BY NewTyped DEF Over
  <2>2. AbsenceIsKept(q) /\ StopIsTimed(q) /\ RecordIsCached(q)
    BY DEF Over, New, AbsenceIsKept, StopIsTimed, RecordIsCached, Running, Waiting
  <2> QED
    BY <1>2, <2>1, <2>2, RequestStep DEF Refuse, Environment, Cache
<1> QED
  BY <1>1, <1>2

\* A decided error fits, whatever the request came from.
LEMMA FailedFits ==
  ASSUME IndInv, NEW r \in Requests, req[r].at \in Running,
         NEW outcome \in Outcomes \ {"none", "config"},
         Becomes(r, Failed(req[r], outcome)), UNCHANGED <<up, grace, known, cache, age>>
  PROVE  IndInv'
<1> DEFINE q == req[r]  n == Failed(q, outcome)
<1>1. q \in Request /\ Timed(q) /\ StopIsTimed(q) /\ RecordIsCached(q)
  BY RequestFacts
<1>2. n \in Request /\ Timed(n) /\ Young(n)
  BY <1>1, FailedGood
<1>3. /\ n.at = "reply" /\ n.part = q.part /\ n.evicted = q.evicted
      /\ n.waits = q.waits /\ n.elapsed = q.elapsed
  BY <1>1 DEF Failed, Request
<1>4. AbsenceIsKept(n) /\ StopIsTimed(n)
  BY <1>1, <1>3 DEF AbsenceIsKept, StopIsTimed, Waiting, Running
<1>5. RecordIsCached(n)
  <2>1. q.waits = 2 => q.at # "look"
    BY <1>1 DEF Timed, Request
  <2>2. q.waited \in Nat /\ q.waited <= Fetch /\ (cache["user"] # None => age["user"] \in Nat)
    BY <1>1, TimesAssumption DEF Request, IndInv, TypeOK, Parts
  <2> QED
    BY <1>1, <1>3, <2>1, <2>2, TimesAssumption DEF RecordIsCached, UserIsCached, Running, Waiting
<1> QED
  BY <1>2, <1>4, <1>5, RequestStep

LEMMA EndStep ==
  ASSUME IndInv, NEW r \in Requests, NEW at \in Ended,
         Becomes(r, Over(at)), UNCHANGED <<up, grace, known, cache, age>>
  PROVE  IndInv'
<1>1. Over(at) \in Request /\ Timed(Over(at)) /\ Young(Over(at))
  BY NewTyped DEF Over, Ended
<1>2. AbsenceIsKept(Over(at)) /\ StopIsTimed(Over(at)) /\ RecordIsCached(Over(at))
  BY DEF Over, New, AbsenceIsKept, StopIsTimed, RecordIsCached, Ended, Running, Waiting
<1> QED
  BY <1>1, <1>2, RequestStep

LEMMA AskStep ==
  ASSUME IndInv, NEW r \in Requests, Ask(r)
  PROVE  IndInv'
<1> DEFINE q == req[r]  n == [q EXCEPT !.at = "wait", !.waits = @ + 1]
<1>1. /\ q \in Request /\ Timed(q) /\ Young(q) /\ q.at = "look"
      /\ AbsenceIsKept(q) /\ StopIsTimed(q) /\ RecordIsCached(q)
  BY RequestFacts DEF Ask, At
<1>2. /\ n.at = "wait" /\ n.part = q.part /\ n.evicted = q.evicted /\ n.absent = q.absent
      /\ n.waits = q.waits + 1 /\ n.elapsed = q.elapsed /\ n.waited = q.waited
      /\ n.user = q.user /\ n.outcome = q.outcome
  BY <1>1 DEF Request
<1>3. q.waited = 0 /\ q.waits \in 0..1 /\ q.elapsed \in Nat
  BY <1>1, TimesAssumption DEF Timed, Request, Parts
<1>4. n \in Request
  <2>1. q.waits + 1 \in 0..2
    BY <1>3
  <2> QED
    BY <1>1, <2>1, Members, ZenonT(30) DEF Request
<1>5. Timed(n)
  <2>1. /\ q.waits = 0 => q.elapsed = 0
        /\ q.part = "user" => q.waits = 0
        /\ q.part # "user" => q.part = "raw"
        /\ q.elapsed <= Fetch
    BY <1>1, <1>3 DEF Timed, Running, Request, Parts
  <2> HIDE DEF n
  <2> QED
    BY <1>2, <1>3, <2>1, TimesAssumption DEF Timed, Running, Waiting
<1>6. Young(n)
  BY <1>1, <1>2 DEF Young, Waiting
<1>7. AbsenceIsKept(n) /\ StopIsTimed(n)
  BY <1>1, <1>2 DEF AbsenceIsKept, StopIsTimed, Running, Waiting
<1>8. RecordIsCached(n)
  BY <1>1, <1>2, <1>3 DEF RecordIsCached, Waiting
<1> QED
  BY <1>4, <1>5, <1>6, <1>7, <1>8, RequestStep DEF Ask, Environment, Cache

LEMMA PanelAnswersStep ==
  ASSUME IndInv, NEW r \in Requests, PanelAnswers(r)
  PROVE  IndInv'
<1> DEFINE q == req[r]
           c == IF known THEN 0 ELSE None
           n == [q EXCEPT !.at = "got", !.copy = c]
<1>1. /\ q \in Request /\ Timed(q) /\ Young(q) /\ q.at = "wait"
      /\ AbsenceIsKept(q) /\ StopIsTimed(q) /\ RecordIsCached(q)
  BY RequestFacts DEF PanelAnswers, At
<1>2. /\ n.at = "got" /\ n.part = q.part /\ n.evicted = q.evicted /\ n.absent = q.absent
      /\ n.waits = q.waits /\ n.elapsed = q.elapsed /\ n.waited = q.waited
      /\ n.user = q.user /\ n.outcome = q.outcome /\ n.copy = c
  BY <1>1 DEF Request
<1>3. n \in Request
  <2>1. c \in Copies
    BY Members
  <2> QED
    BY <1>1, <2>1, Members, ZenonT(30) DEF Request
<1>4. Timed(n)
  BY <1>1, <1>2 DEF Timed, Running, Waiting
<1>5. Young(n)
  <2>1. q.waited \in Nat
    BY <1>1, TimesAssumption DEF Request
  <2> QED
    BY <1>1, <1>2, <2>1 DEF Young, Waiting
<1>6. AbsenceIsKept(n) /\ StopIsTimed(n) /\ RecordIsCached(n)
  BY <1>1, <1>2, TimesAssumption
  DEF AbsenceIsKept, StopIsTimed, RecordIsCached, Running, Waiting
<1> QED
  BY <1>3, <1>4, <1>5, <1>6, RequestStep DEF PanelAnswers, Environment, Cache

\* A lookup that ends with a copy: from the cache, or from the panel.
LEMMA HitStep ==
  ASSUME IndInv, NEW r \in Requests, Hit(r)
  PROVE  IndInv'
<1> DEFINE q == req[r]  copy == cache[q.part]
<1>1. /\ q \in Request /\ Timed(q) /\ Young(q) /\ q.at = "look" /\ q.part \in Parts
      /\ AbsenceIsKept(q) /\ StopIsTimed(q) /\ RecordIsCached(q)
  BY RequestFacts DEF Hit, At, Request
<1>2. copy \in Copies \ {None} /\ copy <= 1 + TTL + Fetch
  <2>1. copy # None /\ copy \in Copies /\ age[q.part] \in 0..TTL /\ copy <= 1 + Fetch + age[q.part]
    BY <1>1 DEF Hit, IndInv, TypeOK, EntriesAreYoung
  <2>2. copy \in Nat
    BY <2>1, CopyFacts
  <2> QED
    BY <2>1, <2>2, TimesAssumption
<1>3. PICK n \in Found(q, copy) : Becomes(r, n)
  BY DEF Hit
<1>4. n \in Request /\ Timed(n) /\ Young(n)
  BY <1>1, <1>2, FoundGood
<1>5. CASE n \in {Failed(q, "panel_error"), Failed(q, "invalid_core")}
  BY <1>1, <1>3, <1>5, FailedFits DEF Hit, Environment, Cache, Running, Outcomes
<1>6. CASE q.part = "user" /\ n = [q EXCEPT !.at = "look", !.part = "raw", !.user = copy,
                                           !.copy = None, !.waited = 0]
  <2>1. /\ n.at = "look" /\ n.absent = q.absent /\ n.waits = q.waits /\ n.elapsed = q.elapsed
    BY <1>1, <1>6 DEF Request
  <2>2. q.waits = 0
    BY <1>1, <1>6 DEF Timed
  <2>3. AbsenceIsKept(n) /\ StopIsTimed(n) /\ RecordIsCached(n)
    BY <1>1, <2>1, <2>2 DEF AbsenceIsKept, StopIsTimed, RecordIsCached, Running, Waiting
  <2> QED
    BY <1>3, <1>4, <2>3, RequestStep DEF Hit, Environment, Cache
<1>7. CASE q.part = "raw" /\ n = [q EXCEPT !.at = "reply", !.raw = copy, !.copy = None,
                                          !.waited = 0, !.absent = FALSE, !.outcome = "config"]
  <2>1. /\ n.at = "reply" /\ n.waits = q.waits /\ n.elapsed = q.elapsed
    BY <1>1, <1>7 DEF Request
  <2>2. q.waits \in 0..1
    BY <1>1, <1>7 DEF Timed, Request
  <2>3. AbsenceIsKept(n) /\ StopIsTimed(n) /\ RecordIsCached(n)
    BY <1>1, <2>1, <2>2 DEF AbsenceIsKept, StopIsTimed, RecordIsCached, Running, Waiting
  <2> QED
    BY <1>3, <1>4, <2>3, RequestStep DEF Hit, Environment, Cache
<1> HIDE DEF q, copy
<1> QED
  BY <1>1, <1>3, <1>5, <1>6, <1>7 DEF Found, Parts

\* The copy of a received answer is stored: the entry is young, and requests
\* that rely on one still find it.
LEMMA StoredFacts ==
  ASSUME IndInv, NEW part \in Parts, NEW copy \in Copies \ {None}, copy <= 1 + Fetch,
         Stored(part, copy)
  PROVE  /\ cache' \in [Parts -> Copies] /\ age' \in [Parts -> 0..TTL]
         /\ EntriesAreYoung'
         /\ Fetch <= TTL /\ part = "user" => cache'["user"] # None /\ age'["user"] = 0
         /\ part = "raw" => cache'["user"] = cache["user"] /\ age'["user"] = age["user"]
<1>1. cache \in [Parts -> Copies] /\ age \in [Parts -> 0..TTL] /\ copy \in Nat
  BY CopyFacts DEF IndInv, TypeOK
<1>2. cache' \in [Parts -> Copies] /\ age' \in [Parts -> 0..TTL]
  BY <1>1, TimesAssumption DEF Stored
<1>3. ASSUME NEW k \in Parts, cache'[k] # None
      PROVE  cache'[k] <= 1 + Fetch + age'[k]
  <2>1. CASE k = part /\ TTL # 0
    BY <1>1, <2>1, TimesAssumption DEF Stored
  <2>2. CASE k = part /\ TTL = 0
    <3>1. age[k] = 0 /\ age'[k] = 0 /\ cache'[k] = cache[k]
      BY <1>1, <2>2 DEF Stored
    <3> QED
      BY <1>3, <3>1 DEF IndInv, EntriesAreYoung
  <2>3. CASE k # part
    <3>1. age'[k] = age[k] /\ cache'[k] = cache[k]
      BY <1>1, <2>3 DEF Stored
    <3> QED
      BY <1>3, <3>1 DEF IndInv, EntriesAreYoung
  <2> QED
    BY <2>1, <2>2, <2>3
<1> QED
  BY <1>1, <1>2, <1>3, TimesAssumption DEF EntriesAreYoung, Stored, Parts

LEMMA ReceiveStep ==
  ASSUME IndInv, NEW r \in Requests, Receive(r)
  PROVE  IndInv'
<1> DEFINE q == req[r]  copy == req[r].copy
<1>1. /\ q \in Request /\ Timed(q) /\ Young(q) /\ q.at = "got" /\ q.part \in Parts
      /\ AbsenceIsKept(q) /\ StopIsTimed(q) /\ RecordIsCached(q)
  BY RequestFacts DEF Receive, At, Request
<1>2. copy \in Copies \ {None} /\ copy <= 1 + Fetch
  <2>1. copy # None /\ copy \in Copies /\ q.waited \in 0..Fetch /\ copy <= 1 + q.waited
    BY <1>1 DEF Receive, Young, Request
  <2>2. copy \in Nat
    BY <2>1, CopyFacts
  <2> QED
    BY <2>1, <2>2, TimesAssumption
<1>3. PICK n \in Found(q, copy) : Becomes(r, n)
  BY DEF Receive
<1>4. n \in Request /\ Timed(n) /\ Young(n)
  <2>1. copy <= 1 + TTL + Fetch
    BY <1>2, TimesAssumption, CopyFacts
  <2> QED
    BY <1>1, <1>2, <2>1, FoundGood
<1>5. /\ cache' \in [Parts -> Copies] /\ age' \in [Parts -> 0..TTL]
      /\ EntriesAreYoung'
      /\ Fetch <= TTL /\ q.part = "user" => cache'["user"] # None /\ age'["user"] = 0
      /\ q.part = "raw" => cache'["user"] = cache["user"] /\ age'["user"] = age["user"]
  BY <1>1, <1>2, StoredFacts DEF Receive
<1>6. /\ req' \in [Requests -> Request] /\ req'[r] = n
      /\ \A s \in Requests : s # r => req'[s] = req[s]
  BY <1>3, <1>4 DEF IndInv, TypeOK, Becomes
<1>7. UNCHANGED <<up, grace, known>>
  BY DEF Receive, Environment
<1>8. TypeOK' /\ (up' # "stopping" => grace' = 0)
  BY <1>5, <1>6, <1>7 DEF IndInv, TypeOK
<1>9. RequestsAreTimed' /\ CopiesAreYoung'
  BY <1>4, <1>6 DEF IndInv, RequestsAreTimed, CopiesAreYoung
<1>10. /\ n.at \in {"look", "reply"} /\ n.elapsed = q.elapsed /\ n.evicted = q.evicted
       /\ n.at = "look" => n.absent = q.absent
       /\ n.waits = q.waits
       /\ n.at = "reply" => n.part = q.part
       /\ n.at = "look" => q.part = "user"
  <2>1. CASE n \in {Failed(q, "panel_error"), Failed(q, "invalid_core")}
    <3>1. PICK o : n = Failed(q, o)
      BY <2>1
    <3>2. /\ n.at = "reply" /\ n.elapsed = q.elapsed /\ n.evicted = q.evicted
          /\ n.waits = q.waits /\ n.part = q.part
      BY <1>1, <3>1 DEF Failed, Request
    <3> QED  BY <3>2
  <2>2. CASE q.part = "user" /\ n = [q EXCEPT !.at = "look", !.part = "raw", !.user = copy,
                                             !.copy = None, !.waited = 0]
    BY <1>1, <2>2 DEF Request
  <2>3. CASE q.part = "raw" /\ n = [q EXCEPT !.at = "reply", !.raw = copy, !.copy = None,
                                            !.waited = 0, !.absent = FALSE, !.outcome = "config"]
    BY <1>1, <2>3 DEF Request
  <2> HIDE DEF q, copy
  <2> QED
    BY <1>1, <1>3, <2>1, <2>2, <2>3 DEF Found, Parts
<1>11. ASSUME NEW s \in Requests
       PROVE  AbsenceIsKept(req[s])' /\ StopIsTimed(req[s])' /\ RecordIsCached(req[s])'
  <2>1. CASE s # r
    <3>1. AbsenceIsKept(req[s])' /\ StopIsTimed(req[s])'
      BY <1>6, <1>7, <2>1, RequestFacts DEF AbsenceIsKept, StopIsTimed
    <3>2. req'[s] = req[s] /\ req[s] \in Request /\ RecordIsCached(req[s])
      BY <1>6, <2>1, RequestFacts
    <3>3. RecordIsCached(req[s])'
      <4>1. req[s].waited >= 0 /\ Fetch >= 0
        BY <3>2, TimesAssumption DEF Request
      <4> QED
        BY <1>1, <1>5, <3>2, <4>1 DEF RecordIsCached, UserIsCached, Parts
    <3> QED
      BY <3>1, <3>3
  <2>2. CASE s = r
    <3>1. AbsenceIsKept(req[s])' /\ StopIsTimed(req[s])'
      BY <1>1, <1>6, <1>7, <1>10, <2>2 DEF AbsenceIsKept, StopIsTimed, Running, Waiting
    <3>2. RecordIsCached(req[s])'
      <4>1. CASE n.at = "look"
        BY <1>5, <1>6, <1>10, <2>2, <4>1 DEF RecordIsCached, UserIsCached, Waiting
      <4>2. CASE n.at = "reply"
        <5>1. q.waited \in 0..Fetch /\ age["user"] \in 0..TTL
          BY <1>1 DEF Request, IndInv, TypeOK, Parts
        <5>2. q.part = "raw" /\ q.waits = 2 /\ Fetch <= TTL /\ ~q.evicted =>
                cache'["user"] # None /\ age'["user"] <= Fetch
          BY <1>1, <1>5, <5>1, TimesAssumption DEF RecordIsCached, UserIsCached, Waiting
        <5> HIDE DEF q
        <5> QED
          BY <1>6, <1>10, <2>2, <4>2, <5>2 DEF RecordIsCached, UserIsCached, Waiting
      <4> QED
        BY <1>10, <4>1, <4>2
    <3> QED
      BY <3>1, <3>2
  <2> QED
    BY <2>1, <2>2
<1>12. RequestsFit'
  BY <1>11 DEF RequestsFit
<1> QED
  BY <1>5, <1>8, <1>9, <1>12 DEF IndInv

\* The other steps of a request decide an error, or end it.
LEMMA EndingStep ==
  ASSUME IndInv, NEW r \in Requests,
         ReceiveNotFound(r) \/ PanelFails(r) \/ Reply(r) \/ Cancel(r) \/ Hangup(r)
  PROVE  IndInv'
<1>1. CASE ReceiveNotFound(r)
  BY <1>1, FailedFits DEF ReceiveNotFound, At, Environment, Cache, Running, Waiting, Outcomes
<1>2. CASE PanelFails(r)
  BY <1>2, FailedFits
  DEF PanelFails, PanelError, At, Environment, Cache, Running, Waiting, Outcomes
<1>3. CASE Reply(r)
  BY <1>3, EndStep DEF Reply, Environment, Cache, Ended
<1>4. CASE Cancel(r)
  BY <1>4, EndStep DEF Cancel, Environment, Cache, Ended
<1>5. CASE Hangup(r)
  BY <1>5, EndStep DEF Hangup, Environment, Cache, Ended
<1> QED
  BY <1>1, <1>2, <1>3, <1>4, <1>5

-----------------------------------------------------------------------------
(* Steps of all requests at once. *)

\* A step that takes every request to a good record that fits.
LEMMA AllStep ==
  ASSUME IndInv,
         up' \in {"up", "stopping", "down"}, grace' \in 0..(Grace + 1), known' \in BOOLEAN,
         up' # "stopping" => grace' = 0,
         cache' \in [Parts -> Copies], age' \in [Parts -> 0..TTL], EntriesAreYoung',
         NEW f \in [Requests -> Request], req' = f,
         \A r \in Requests : Timed(f[r]) /\ Young(f[r]),
         \A r \in Requests : AbsenceIsKept(f[r])' /\ StopIsTimed(f[r])' /\ RecordIsCached(f[r])'
  PROVE  IndInv'
BY DEF IndInv, TypeOK, RequestsAreTimed, CopiesAreYoung, RequestsFit, AbsenceIsKept, StopIsTimed,
       RecordIsCached, UserIsCached
LEMMA ChangeStep ==
  ASSUME IndInv, Change
  PROVE  IndInv'
<1> DEFINE n(q) == [q EXCEPT !.copy = Replaced(@), !.user = Replaced(@), !.raw = Replaced(@),
                             !.absent = @ \/ (q.at \in Waiting \union {"look"} /\ ~known')]
<1>0. PICK f : f = [r \in Requests |-> n(req[r])]
  OBVIOUS
<1>1. /\ UNCHANGED <<up, grace, age>> /\ known' \in BOOLEAN /\ known
      /\ cache' = [k \in Parts |-> Replaced(cache[k])]
      /\ req' = f
  BY <1>0, Zenon DEF Change, At
<1>2. TypeOK
  BY DEF IndInv
<1>3. \A k \in Parts : cache[k] \in Copies /\ age[k] \in 0..TTL
  BY <1>2 DEF TypeOK
<1>4. cache' \in [Parts -> Copies] /\ \A k \in Parts : cache'[k] = None <=> cache[k] = None
  BY <1>1, <1>3, CopyFacts
<1>5. EntriesAreYoung'
  <2> SUFFICES ASSUME NEW k \in Parts, cache'[k] # None
               PROVE  cache'[k] <= 1 + Fetch + age'[k]
    BY DEF EntriesAreYoung
  <2>1. cache[k] # None /\ cache[k] \in Copies /\ cache[k] <= 1 + Fetch + age[k]
    BY <1>3, <1>4 DEF IndInv, EntriesAreYoung
  <2>2. cache'[k] = Replaced(cache[k]) /\ age'[k] = age[k] /\ age[k] \in Nat
    BY <1>1, <1>3, TimesAssumption
  <2>3. Replaced(cache[k]) <= 1 \/ Replaced(cache[k]) = cache[k]
    BY <2>1, CopyFacts
  <2>4. Replaced(cache[k]) \in Nat
    BY <2>1, CopyFacts
  <2> QED
    BY <2>1, <2>2, <2>3, <2>4, TimesAssumption
<1>6. ASSUME NEW r \in Requests
      PROVE  /\ f[r] \in Request /\ Timed(f[r]) /\ Young(f[r])
             /\ AbsenceIsKept(f[r])' /\ StopIsTimed(f[r])' /\ RecordIsCached(f[r])'
  <2>0. PICK q, m : q = req[r] /\ m = n(q)
    OBVIOUS
  <2>1. /\ q \in Request /\ Timed(q) /\ Young(q)
        /\ AbsenceIsKept(q) /\ StopIsTimed(q) /\ RecordIsCached(q)
    BY <2>0, RequestFacts
  <2>2. /\ q.copy \in Copies /\ q.user \in Copies /\ q.raw \in Copies /\ q.waited \in Nat
        /\ q.absent \in BOOLEAN
    BY <2>1, TimesAssumption DEF Request
  <2>3. /\ Replaced(q.copy) \in Copies /\ Replaced(q.user) \in Copies /\ Replaced(q.raw) \in Copies
    BY <2>2, CopyFacts
  <2>4. f[r] = m
    BY <1>0, <2>0
  <2>5. /\ m.at = q.at /\ m.part = q.part /\ m.waited = q.waited /\ m.waits = q.waits
        /\ m.elapsed = q.elapsed /\ m.evicted = q.evicted /\ m.outcome = q.outcome
        /\ m.copy = Replaced(q.copy) /\ m.user = Replaced(q.user) /\ m.raw = Replaced(q.raw)
    BY <2>0, <2>1 DEF Request
  <2>6. m.absent = (q.absent \/ (q.at \in Waiting \union {"look"} /\ ~known'))
    BY <2>0, <2>1 DEF Request
  <2>7. m \in Request
    <3>1. (q.absent \/ (q.at \in Waiting \union {"look"} /\ ~known')) \in BOOLEAN
      OBVIOUS
    <3> QED
      BY <2>0, <2>1, <2>3, <3>1, ZenonT(30) DEF Request
  <2> HIDE DEF n
  <2>8. Timed(m)
    BY <2>1, <2>5 DEF Timed
  <2>9. Young(m)
    <3>1. \A copy \in Copies, bound \in Nat \ {0} :
             copy # None /\ copy <= bound => Replaced(copy) # None /\ Replaced(copy) <= bound
      <4> SUFFICES ASSUME NEW copy \in Copies, NEW bound \in Nat \ {0},
                          copy # None, copy <= bound
                   PROVE  Replaced(copy) # None /\ Replaced(copy) <= bound
        OBVIOUS
      <4> QED
        BY CopyFacts
    <3>2. /\ 1 + q.waited \in Nat \ {0} /\ 1 + TTL + Fetch + q.waited \in Nat \ {0}
          /\ 1 + TTL + Fetch \in Nat \ {0} /\ 1 + TTL + 2 * Fetch \in Nat \ {0}
      BY <2>2, TimesAssumption
    <3>3. Replaced(q.copy) # None => q.copy # None
      BY <2>2, CopyFacts
    <3>4. m.at = "got" /\ m.copy # None => m.copy <= 1 + m.waited
      BY <2>1, <2>2, <2>5, <3>1, <3>2, <3>3 DEF Young
    <3>5. m.at \in Waiting \union {"look"} /\ m.part = "raw" =>
            m.user # None /\ m.user <= 1 + TTL + Fetch + m.waited
      BY <2>1, <2>2, <2>5, <3>1, <3>2 DEF Young
    <3>6. m.at = "reply" /\ m.outcome = "config" =>
            /\ m.raw # None /\ m.raw <= 1 + TTL + Fetch
            /\ m.user # None /\ m.user <= 1 + TTL + 2 * Fetch
      BY <2>1, <2>2, <2>5, <3>1, <3>2 DEF Young
    <3>7. m.outcome = "none" <=> m.at # "reply"
      BY <2>1, <2>5 DEF Young
    <3> QED
      BY <3>4, <3>5, <3>6, <3>7 DEF Young
  <2>10. AbsenceIsKept(m)'
    <3>1. m.copy = None => q.copy = None
      BY <2>2, <2>5, CopyFacts
    <3> QED
      BY <2>1, <2>5, <2>6, <3>1, <1>1 DEF AbsenceIsKept
  <2>11. StopIsTimed(m)'
    BY <1>1, <2>1, <2>5 DEF StopIsTimed
  <2>12. RecordIsCached(m)'
    BY <1>1, <1>4, <2>1, <2>5 DEF RecordIsCached, UserIsCached, Parts
  <2> QED
    BY <2>4, <2>7, <2>8, <2>9, <2>10, <2>11, <2>12
<1>7. f \in [Requests -> Request]
  BY <1>0, <1>6
<1> QED
  BY <1>1, <1>2, <1>4, <1>5, <1>6, <1>7, AllStep DEF IndInv, TypeOK
\* Only a request without a panel to ask relies on its having no such user.
LEMMA RestoreStep ==
  ASSUME IndInv, Restore
  PROVE  IndInv'
<1>1. UNCHANGED <<up, grace, cache, age, req>> /\ known' = TRUE
  BY DEF Restore
<1>2. TypeOK' /\ RequestsAreTimed' /\ CopiesAreYoung' /\ EntriesAreYoung'
  BY <1>1 DEF IndInv, TypeOK, RequestsAreTimed, CopiesAreYoung, EntriesAreYoung
<1>3. RequestsFit'
  BY <1>1 DEF IndInv, RequestsFit, AbsenceIsKept, StopIsTimed, RecordIsCached, UserIsCached
<1> QED
  BY <1>1, <1>2, <1>3 DEF IndInv

LEMMA ForgetStep ==
  ASSUME IndInv, NEW part \in Parts, Forget(part)
  PROVE  IndInv'
<1> DEFINE n(q) == [q EXCEPT !.evicted = @ \/ (q.part = "raw" /\ part = "user")]
<1>0. PICK f : f = [r \in Requests |-> n(req[r])]
  OBVIOUS
<1>1. /\ UNCHANGED <<up, grace, known>>
      /\ cache' = [cache EXCEPT ![part] = None] /\ age' = [age EXCEPT ![part] = 0]
      /\ req' = f
  BY <1>0, Zenon DEF Forget, Environment
<1>2. TypeOK
  BY DEF IndInv
<1>3. /\ cache' \in [Parts -> Copies] /\ age' \in [Parts -> 0..TTL]
      /\ cache'[part] = None
      /\ \A k \in Parts \ {part} : cache'[k] = cache[k] /\ age'[k] = age[k]
  BY <1>1, <1>2, Members, TimesAssumption DEF TypeOK
<1>4. EntriesAreYoung'
  BY <1>3 DEF IndInv, EntriesAreYoung
<1>5. ASSUME NEW r \in Requests
      PROVE  /\ f[r] \in Request /\ Timed(f[r]) /\ Young(f[r])
             /\ AbsenceIsKept(f[r])' /\ StopIsTimed(f[r])' /\ RecordIsCached(f[r])'
  <2>0. PICK q, m : q = req[r] /\ m = n(q)
    OBVIOUS
  <2>1. /\ q \in Request /\ Timed(q) /\ Young(q)
        /\ AbsenceIsKept(q) /\ StopIsTimed(q) /\ RecordIsCached(q)
    BY <2>0, RequestFacts
  <2>2. f[r] = m
    BY <1>0, <2>0
  <2>3. /\ m.at = q.at /\ m.part = q.part /\ m.waited = q.waited /\ m.waits = q.waits
        /\ m.elapsed = q.elapsed /\ m.outcome = q.outcome /\ m.absent = q.absent
        /\ m.copy = q.copy /\ m.user = q.user /\ m.raw = q.raw
    BY <2>0, <2>1 DEF Request
  <2>4. m.evicted = (q.evicted \/ (q.part = "raw" /\ part = "user"))
    BY <2>0, <2>1 DEF Request
  <2>5. m \in Request
    <3>1. q.evicted \in BOOLEAN
      BY <2>1 DEF Request
    <3>2. (q.evicted \/ (q.part = "raw" /\ part = "user")) \in BOOLEAN
      OBVIOUS
    <3> QED
      BY <2>0, <2>1, <3>2, ZenonT(30) DEF Request
  <2> HIDE DEF n
  <2>6. Timed(m) /\ Young(m)
    BY <2>1, <2>3 DEF Timed, Young
  <2>7. AbsenceIsKept(m)' /\ StopIsTimed(m)'
    BY <1>1, <2>1, <2>3 DEF AbsenceIsKept, StopIsTimed
  <2>8. RecordIsCached(m)'
    <3>1. CASE part = "user"
      BY <2>3, <2>4, <3>1 DEF RecordIsCached
    <3>2. CASE part # "user"
      BY <1>3, <2>1, <2>3, <2>4, <3>2 DEF RecordIsCached, UserIsCached, Parts
    <3> QED
      BY <3>1, <3>2
  <2> QED
    BY <2>2, <2>5, <2>6, <2>7, <2>8
<1>6. f \in [Requests -> Request]
  BY <1>0, <1>5
<1> QED
  BY <1>1, <1>2, <1>3, <1>4, <1>5, <1>6, AllStep DEF IndInv, TypeOK

LEMMA StopStep ==
  ASSUME IndInv, Stop
  PROVE  IndInv'
<1>1. UNCHANGED <<grace, known, cache, age, req>> /\ up = "up" /\ up' = "stopping"
  BY DEF Stop
<1>2. TypeOK' /\ RequestsAreTimed' /\ CopiesAreYoung' /\ EntriesAreYoung'
  BY <1>1 DEF IndInv, TypeOK, RequestsAreTimed, CopiesAreYoung, EntriesAreYoung
<1>3. ASSUME NEW r \in Requests
      PROVE  StopIsTimed(req[r])'
  <2>1. req[r].elapsed >= 0
    BY TimesAssumption, RequestFacts DEF Request
  <2> QED
    BY <1>1, <2>1 DEF StopIsTimed, IndInv
<1>4. RequestsFit'
  BY <1>1, <1>3 DEF IndInv, RequestsFit, AbsenceIsKept, RecordIsCached, UserIsCached
<1> QED
  BY <1>1, <1>2, <1>4 DEF IndInv

\* Nothing is left of the memory of a process that is gone.
LEMMA ExitStep ==
  ASSUME IndInv, NEW at \in Ended, Exit(at)
  PROVE  IndInv'
<1>0. PICK f : f = [r \in Requests |-> IF At(r, Running) THEN Over(at) ELSE req[r]]
  OBVIOUS
<1>1. /\ up' = "down" /\ grace' = 0 /\ UNCHANGED known
      /\ cache' = [k \in Parts |-> None] /\ age' = [k \in Parts |-> 0]
      /\ req' = f
  BY <1>0, Zenon DEF Exit, NoCache
<1>2. /\ cache' \in [Parts -> Copies] /\ age' \in [Parts -> 0..TTL] /\ EntriesAreYoung'
  BY <1>1, Members, TimesAssumption DEF EntriesAreYoung
<1>3. ASSUME NEW r \in Requests
      PROVE  f[r] \in Request /\ Timed(f[r]) /\ Young(f[r]) /\ f[r].at \notin Running
  <2>1. CASE At(r, Running)
    <3>1. f[r] = Over(at)
      BY <1>0, <2>1
    <3>2. Over(at) \in Request /\ Timed(Over(at)) /\ Young(Over(at))
      BY NewTyped DEF Over, Ended
    <3>3. Over(at).at = at
      BY DEF Over, New
    <3> QED
      BY <3>1, <3>2, <3>3 DEF Ended, Running, Waiting
  <2>2. CASE ~At(r, Running)
    BY <1>0, <2>2, RequestFacts DEF At
  <2> QED
    BY <2>1, <2>2
<1>4. ASSUME NEW r \in Requests
      PROVE  AbsenceIsKept(f[r])' /\ StopIsTimed(f[r])' /\ RecordIsCached(f[r])'
  BY <1>3 DEF AbsenceIsKept, StopIsTimed, RecordIsCached, Running, Waiting
<1>5. f \in [Requests -> Request]
  BY <1>0, <1>3
<1>6. up' \in {"up", "stopping", "down"} /\ grace' \in 0..(Grace + 1) /\ known' \in BOOLEAN
  BY <1>1, TimesAssumption DEF IndInv, TypeOK
<1> QED
  BY <1>1, <1>2, <1>3, <1>4, <1>5, <1>6, AllStep

LEMMA RestartStep ==
  ASSUME IndInv, Restart
  PROVE  IndInv'
<1>1. UNCHANGED <<grace, known, cache, age, req>> /\ up = "down" /\ up' = "up"
  BY DEF Restart
<1>2. TypeOK' /\ RequestsAreTimed' /\ CopiesAreYoung' /\ EntriesAreYoung'
  BY <1>1 DEF IndInv, TypeOK, RequestsAreTimed, CopiesAreYoung, EntriesAreYoung
<1>3. RequestsFit'
  BY <1>1
  DEF IndInv, RequestsFit, AbsenceIsKept, StopIsTimed, RecordIsCached, UserIsCached
<1> QED
  BY <1>1, <1>2, <1>3 DEF IndInv
\* While time passes every request waits, or is over.
LEMMA TickStep ==
  ASSUME IndInv, Tick
  PROVE  IndInv'
<1> DEFINE n(q) == [q EXCEPT !.copy = Older(@), !.user = Older(@), !.waited = @ + 1, !.elapsed = @ + 1]
<1>0. PICK f : f = [r \in Requests |-> IF At(r, Waiting) THEN n(req[r]) ELSE req[r]]
  OBVIOUS
<1>1. /\ TimePasses /\ UNCHANGED <<up, known>>
      /\ cache' = [k \in Parts |-> IF Expires(k) THEN None ELSE Older(cache[k])]
      /\ age' = [k \in Parts |-> IF cache[k] = None \/ Expires(k) THEN 0 ELSE age[k] + 1]
      /\ req' = f
      /\ grace' = IF up = "stopping" THEN grace + 1 ELSE grace
  BY <1>0, Zenon DEF Tick
<1>2. TypeOK
  BY DEF IndInv
<1>3. grace' \in 0..(Grace + 1) /\ (up' # "stopping" => grace' = 0)
  <2>1. grace \in 0..(Grace + 1) /\ (up = "stopping" => grace <= Grace)
    BY <1>1, <1>2 DEF TypeOK, TimePasses
  <2>2. up # "stopping" => grace = 0
    BY DEF IndInv
  <2> QED
    BY <1>1, <2>1, <2>2, TimesAssumption
<1>4. ASSUME NEW k \in Parts
      PROVE  /\ cache'[k] \in Copies /\ age'[k] \in 0..TTL
             /\ cache'[k] # None => cache'[k] <= 1 + Fetch + age'[k]
             /\ cache[k] # None /\ age[k] < TTL => cache'[k] # None /\ age'[k] = age[k] + 1
  <2>1. cache[k] \in Copies /\ age[k] \in 0..TTL
    BY <1>2 DEF TypeOK
  <2>2. CASE cache[k] = None \/ Expires(k)
    <3>1. cache'[k] = None /\ age'[k] = 0
      BY <1>1, <2>1, <2>2, CopyFacts
    <3> QED
      BY <2>1, <2>2, <3>1, Members, TimesAssumption DEF Expires
  <2>3. CASE cache[k] # None /\ ~Expires(k)
    <3>1. cache'[k] = Older(cache[k]) /\ age'[k] = age[k] + 1
      BY <1>1, <2>3
    <3>2. age[k] < TTL /\ age[k] \in Nat
      BY <2>1, <2>3, TimesAssumption DEF Expires
    <3>3. /\ Older(cache[k]) \in Copies /\ Older(cache[k]) # None
          /\ Older(cache[k]) \in Nat /\ cache[k] \in Nat /\ Older(cache[k]) <= cache[k] + 1
      BY <2>1, <2>3, CopyFacts
    <3>4. cache[k] <= 1 + Fetch + age[k]
      BY <2>3 DEF IndInv, EntriesAreYoung
    <3> QED
      BY <3>1, <3>2, <3>3, <3>4, TimesAssumption
  <2> QED
    BY <2>2, <2>3
<1>5. cache' \in [Parts -> Copies] /\ age' \in [Parts -> 0..TTL] /\ EntriesAreYoung'
  <2>1. cache' = [k \in Parts |-> cache'[k]] /\ age' = [k \in Parts |-> age'[k]]
    BY <1>1
  <2> QED
    BY <1>4, <2>1 DEF EntriesAreYoung
<1>6. ASSUME NEW r \in Requests
      PROVE  /\ f[r] \in Request /\ Timed(f[r]) /\ Young(f[r])
             /\ AbsenceIsKept(f[r])' /\ StopIsTimed(f[r])' /\ RecordIsCached(f[r])'
  <2>0. PICK q : q = req[r]
    OBVIOUS
  <2>1. /\ q \in Request /\ Timed(q) /\ Young(q)
        /\ AbsenceIsKept(q) /\ StopIsTimed(q) /\ RecordIsCached(q)
    BY <2>0, RequestFacts
  <2>2. CASE q.at \notin Waiting
    <3>1. f[r] = q
      BY <1>0, <2>0, <2>2 DEF At
    <3>2. q.at \notin Running
      BY <1>1, <2>0, <2>2 DEF TimePasses, At, Running
    <3>3. AbsenceIsKept(q)' /\ StopIsTimed(q)' /\ RecordIsCached(q)'
      BY <3>2 DEF AbsenceIsKept, StopIsTimed, RecordIsCached, Running, Waiting
    <3> QED
      BY <2>1, <3>1, <3>3
  <2>3. CASE q.at \in Waiting
    <3>0. PICK m : m = n(q)
      OBVIOUS
    <3>1. f[r] = m
      BY <1>0, <2>0, <2>3, <3>0 DEF At
    <3>2. /\ m.at = q.at /\ m.part = q.part /\ m.waited = q.waited + 1 /\ m.waits = q.waits
          /\ m.elapsed = q.elapsed + 1 /\ m.outcome = q.outcome /\ m.absent = q.absent
          /\ m.copy = Older(q.copy) /\ m.user = Older(q.user) /\ m.evicted = q.evicted
      BY <2>1, <3>0 DEF Request
    <3>3. /\ q.copy \in Copies /\ q.user \in Copies
          /\ q.waited \in Nat /\ q.elapsed \in Nat /\ q.waits \in 0..2 /\ q.part \in Parts
      BY <2>1, TimesAssumption DEF Request
    <3>4. q.waited < Fetch
      BY <1>1, <2>0, <2>3 DEF TimePasses, At
    <3>5. /\ q.waits \in 1..2
          /\ q.waits = 1 => q.elapsed = q.waited
          /\ q.waits = 2 => q.elapsed <= Fetch + q.waited /\ q.part = "raw"
      BY <2>1, <2>3, <3>3 DEF Timed, Running, Waiting
    <3>6. q.waited + 1 \in 0..Fetch /\ q.elapsed + 1 \in 0..(2 * Fetch)
      BY <3>3, <3>4, <3>5, TimesAssumption
    <3>7. Older(q.copy) \in Copies /\ Older(q.user) \in Copies
      BY <3>3, CopyFacts
    <3>8. m \in Request
      BY <2>1, <3>0, <3>6, <3>7, ZenonT(30) DEF Request
    <3> HIDE DEF n
    <3>9. Timed(m)
      <4>1. /\ m.waits < 2 => m.elapsed <= Fetch
            /\ m.waits = 2 => m.elapsed <= Fetch + m.waited
            /\ m.waits = 1 => m.elapsed = m.waited
        BY <3>2, <3>3, <3>4, <3>5, TimesAssumption
      <4>2. q.part = "user" => q.waits = 1
        BY <2>1, <2>3 DEF Timed
      <4> QED
        BY <2>3, <3>2, <3>5, <4>1, <4>2 DEF Timed, Waiting
    <3>10. Young(m)
      <4>1. q.at = "got" /\ Older(q.copy) # None => Older(q.copy) <= 1 + (q.waited + 1)
        <5>1. CASE q.at = "got" /\ q.copy # None
          BY <2>1, <3>3, <5>1, CopyFacts DEF Young
        <5> QED
          BY <3>3, <5>1, CopyFacts
      <4>2. q.part = "raw" =>
              Older(q.user) # None /\ Older(q.user) <= 1 + TTL + Fetch + (q.waited + 1)
        <5>1. CASE q.part = "raw"
          <6>1. q.user # None /\ q.user <= 1 + TTL + Fetch + q.waited
            BY <2>1, <2>3, <5>1 DEF Young
          <6> QED
            BY <3>3, <6>1, CopyFacts, TimesAssumption
        <5> QED
          BY <5>1
      <4>3. q.outcome = "none"
        BY <2>1, <2>3 DEF Young, Waiting
      <4> QED
        BY <2>3, <3>2, <4>1, <4>2, <4>3 DEF Young, Waiting
    <3>11. AbsenceIsKept(m)'
      <4>1. m.copy = None => q.copy = None
        BY <3>2, <3>3, CopyFacts
      <4> QED
        BY <1>1, <2>1, <3>2, <4>1 DEF AbsenceIsKept
    <3>12. StopIsTimed(m)'
      <4>1. grace \in Nat
        BY <1>2, TimesAssumption DEF TypeOK
      <4> QED
        BY <1>1, <2>1, <3>2, <3>3, <4>1 DEF StopIsTimed
    <3>13. RecordIsCached(m)'
      <4> SUFFICES ASSUME Fetch <= TTL, m.part = "raw", ~m.evicted, m.waits = 2
                   PROVE  UserIsCached(m.waited)'
        BY <2>3, <3>2 DEF RecordIsCached, Waiting
      <4>1. cache["user"] # None /\ age["user"] <= q.waited
        BY <2>1, <2>3, <3>2 DEF RecordIsCached, UserIsCached
      <4>2. age["user"] \in Nat
        BY <1>2, TimesAssumption DEF TypeOK, Parts
      <4>3. age["user"] < TTL
        BY <3>3, <3>4, <4>1, <4>2, TimesAssumption
      <4>4. cache'["user"] # None /\ age'["user"] = age["user"] + 1
        BY <1>4, <4>1, <4>3 DEF Parts
      <4> QED
        BY <3>2, <3>3, <4>1, <4>2, <4>4 DEF UserIsCached
    <3> QED
      BY <3>1, <3>8, <3>9, <3>10, <3>11, <3>12, <3>13
  <2> QED
    BY <2>2, <2>3
<1>7. f \in [Requests -> Request]
  BY <1>0, <1>6
<1>8. up' \in {"up", "stopping", "down"} /\ known' \in BOOLEAN
  BY <1>1, <1>2 DEF TypeOK
<1> QED
  BY <1>1, <1>3, <1>5, <1>6, <1>7, <1>8, AllStep
-----------------------------------------------------------------------------
(* The invariant. *)

LEMMA NextInv ==
  ASSUME IndInv, [Next]_vars
  PROVE  IndInv'
<1>1. CASE UNCHANGED vars
  BY <1>1
  DEF vars, IndInv, TypeOK, RequestsAreTimed, CopiesAreYoung, EntriesAreYoung, RequestsFit,
      AbsenceIsKept, StopIsTimed, RecordIsCached, UserIsCached
<1>2. CASE \E r \in Requests : Begin(r) \/ Refuse(r)
  BY <1>2, BeginStep
<1>3. CASE \E r \in Requests : Hit(r) \/ Ask(r) \/ PanelAnswers(r) \/ Receive(r)
  BY <1>3, HitStep, AskStep, PanelAnswersStep, ReceiveStep
<1>4. CASE \E r \in Requests : \/ ReceiveNotFound(r) \/ PanelFails(r) \/ Reply(r)
                               \/ Cancel(r) \/ Hangup(r)
  BY <1>4, EndingStep
<1>5. CASE Change \/ Restore \/ Tick \/ Stop \/ Restart
  BY <1>5, ChangeStep, RestoreStep, TickStep, StopStep, RestartStep
<1>6. CASE \E part \in Parts : Forget(part)
  BY <1>6, ForgetStep
<1>7. CASE Drained \/ CutOff \/ Crash
  BY <1>7, ExitStep DEF Drained, CutOff, Crash, Ended
<1> QED
  BY <1>1, <1>2, <1>3, <1>4, <1>5, <1>6, <1>7 DEF Next, Step

\* Of any number of devices, at any times: what a request has waited for, how
\* old its copies are and what it left in the cache.
THEOREM Invariance == Spec => []IndInv
<1>1. Init => IndInv
  BY InitInv
<1>2. IndInv /\ [Next]_vars => IndInv'
  BY NextInv
<1> QED
  BY <1>1, <1>2, PTL DEF Spec

\* Every variable has its type: no lookup outlives Fetch, no request twice
\* that, no entry its life and no stop its grace by more than a tick.
THEOREM TypeCorrect == Spec => []TypeOK
<1>1. IndInv => TypeOK
  BY DEF IndInv
<1> QED
  BY <1>1, Invariance, PTL

-----------------------------------------------------------------------------
(* The properties. *)

\* Of all steps, the panel's 404 alone tells a request of a missing user, and
\* only a late answer and a stop that waits no longer lose one.
Innocent(r) == req'[r].outcome # "user_not_found" /\ req'[r].at # "lost"
Keeps(r) == req'[r].outcome = req[r].outcome /\ req'[r].at = req[r].at
LosesLate(r) == req[r].at \in Waiting \union {"reply"} /\ ~InTime(req[r]) /\ UNCHANGED <<up, cache, age>>
LosesAtStop(r) == req[r].at \in Running /\ up = "stopping" /\ grace > Grace /\ up' = "down"

LEMMA OneStep ==
  ASSUME IndInv, NEW r \in Requests, NEW s \in Requests, NEW q, Becomes(s, q)
  PROVE  req'[r] = IF r = s THEN q ELSE req[r]
BY DEF IndInv, TypeOK, Becomes

LEMMA StepOf ==
  ASSUME IndInv, NEW r \in Requests, NEW s \in Requests,
         \/ Begin(s) \/ Refuse(s) \/ Step(s)
         \/ PanelAnswers(s) \/ PanelFails(s) \/ Cancel(s) \/ Hangup(s)
  PROVE  \/ Keeps(r) \/ Innocent(r)
         \/ r = s /\ ReceiveNotFound(s) /\ req'[r].at = "reply"
         \/ LosesLate(r) /\ req'[r].outcome = "none"
<1>0. req[s] \in Request /\ req[r] \in Request
  BY RequestFacts
<1>1. CASE Begin(s) \/ Refuse(s) \/ Hangup(s)
  <2>1. PICK q : /\ q \in {New("look", ~known), Over("idle")}
                 /\ Becomes(s, q)
    BY <1>1 DEF Begin, Refuse, Hangup
  <2>2. q.outcome = "none" /\ q.at # "lost"
    BY <2>1 DEF New, Over
  <2> QED
    BY <2>1, <2>2, OneStep DEF Keeps, Innocent
<1>2. CASE Hit(s) \/ Receive(s)
  <2>1. PICK q, copy : q \in Found(req[s], copy) /\ Becomes(s, q)
    BY <1>2 DEF Hit, Receive
  <2>2. q.outcome \in {"panel_error", "invalid_core", "config"} \/ q.outcome = req[s].outcome
    BY <1>0, <2>1 DEF Found, Failed, Request
  <2>3. q.at \in {"look", "reply"}
    BY <1>0, <2>1 DEF Found, Failed, Request
  <2>4. req[s].outcome # "user_not_found"
    BY <1>2, RequestFacts DEF Hit, Receive, At, Young
  <2> QED
    BY <2>1, <2>2, <2>3, <2>4, OneStep DEF Keeps, Innocent
<1>3. CASE Ask(s) \/ PanelAnswers(s)
  <2>1. PICK q : /\ Becomes(s, q)
                 /\ \/ q = [req[s] EXCEPT !.at = "wait", !.waits = @ + 1]
                    \/ q = [req[s] EXCEPT !.at = "got", !.copy = IF known THEN 0 ELSE None]
    BY <1>3, Zenon DEF Ask, PanelAnswers
  <2>3. q.outcome = req[s].outcome /\ q.at \in {"wait", "got"}
    BY <1>0, <2>1 DEF Request
  <2>2. req[s].outcome # "user_not_found"
    BY <1>3, RequestFacts DEF Ask, PanelAnswers, At, Young
  <2> QED
    BY <2>1, <2>2, <2>3, OneStep DEF Keeps, Innocent
<1>4. CASE ReceiveNotFound(s)
  <2>1. Becomes(s, Failed(req[s], "user_not_found")) /\ Failed(req[s], "user_not_found").at = "reply"
    BY <1>0, <1>4 DEF ReceiveNotFound, Failed, Request
  <2> QED
    BY <1>4, <2>1, OneStep DEF Keeps
<1>5. CASE PanelFails(s)
  <2> DEFINE q == Failed(req[s], "panel_error")
  <2>1. Becomes(s, q)
    BY <1>5 DEF PanelFails, PanelError
  <2>2. q.outcome = "panel_error" /\ q.at = "reply"
    BY <1>0 DEF Failed, Request
  <2> HIDE DEF q
  <2> QED
    BY <2>1, <2>2, OneStep DEF Keeps, Innocent
<1>6. CASE Reply(s) \/ Cancel(s)
  <2>1. PICK at \in {"idle", "lost"} :
          /\ Becomes(s, Over(at)) /\ (at = "lost" => ~InTime(req[s]))
          /\ req[s].at \in Waiting \union {"reply"} /\ UNCHANGED <<up, cache, age>>
    BY <1>6 DEF Reply, Cancel, At, Environment, Cache
  <2>2. Over(at).outcome = "none" /\ Over(at).at = at
    BY DEF Over, New
  <2> QED
    BY <2>1, <2>2, OneStep DEF Keeps, Innocent, LosesLate
<1> QED
  BY <1>1, <1>2, <1>3, <1>4, <1>5, <1>6 DEF Step

LEMMA AnyStep ==
  ASSUME IndInv, NEW r \in Requests, Next
  PROVE  \/ Keeps(r) \/ Innocent(r)
         \/ ReceiveNotFound(r) /\ req'[r].at = "reply"
         \/ (LosesLate(r) \/ LosesAtStop(r)) /\ req'[r].outcome = "none"
<1>0. req[r] \in Request
  BY RequestFacts
<1>1. CASE \E s \in Requests :
             \/ Begin(s) \/ Refuse(s) \/ Step(s)
             \/ PanelAnswers(s) \/ PanelFails(s) \/ Cancel(s) \/ Hangup(s)
  BY <1>1, StepOf
<1>2. CASE Change
  BY <1>0, <1>2 DEF Change, Keeps, Request
<1>3. CASE \E part \in Parts : Forget(part)
  BY <1>0, <1>3 DEF Forget, Keeps, Request
<1>4. CASE Tick
  BY <1>0, <1>4 DEF Tick, Keeps, Request
<1>5. CASE Restore \/ Stop \/ Restart
  BY <1>5 DEF Restore, Stop, Restart, Keeps
<1>6. CASE Drained \/ CutOff \/ Crash
  <2>1. CASE ~At(r, Running)
    BY <1>6, <2>1 DEF Drained, CutOff, Crash, Exit, Keeps
  <2>2. CASE At(r, Running)
    <3>1. PICK at : /\ req'[r] = Over(at) /\ at \in {"idle", "lost"}
                    /\ at = "lost" => up = "stopping" /\ grace > Grace /\ up' = "down"
      BY <1>6, <2>2 DEF Drained, CutOff, Crash, Exit, Idle
    <3>2. Over(at).outcome = "none" /\ Over(at).at = at
      BY DEF Over, New
    <3> QED
      BY <2>2, <3>1, <3>2 DEF Innocent, LosesAtStop, At
  <2> QED
    BY <2>1, <2>2
<1> QED
  BY <1>1, <1>2, <1>3, <1>4, <1>5, <1>6 DEF Next
\* "User not found" is what the panel said during the request.
THEOREM NotFoundIsTrueHolds == Spec => NotFoundIsTrue
<1> DEFINE Holds ==
         \A r \in Requests :
           req'[r].outcome = "user_not_found" /\ req[r].outcome = "none" => req[r].absent
<1>1. ASSUME IndInv, [Next]_vars, NEW r \in Requests,
             req'[r].outcome = "user_not_found" /\ req[r].outcome = "none"
      PROVE  req[r].absent
  <2>1. Next
    BY <1>1 DEF vars
  <2>2. ReceiveNotFound(r)
    BY <1>1, <2>1, AnyStep DEF Keeps, Innocent
  <2> QED
    BY <1>1, <2>2, RequestFacts DEF ReceiveNotFound, At, AbsenceIsKept
<1>2. IndInv /\ [Next]_vars => [Holds]_vars
  BY <1>1
<1> QED
  BY <1>2, Invariance, PTL DEF Spec, NotFoundIsTrue

\* How old a config's parts may be: a life and a fetch, the user's record
\* another fetch.
THEOREM AnswerIsFreshHolds == Spec => AnswerIsFresh
<1> DEFINE Holds ==
         \A r \in Requests :
           Replies(r) /\ req[r].outcome = "config" =>
             /\ req[r].raw <= 1 + TTL + Fetch
             /\ req[r].user <= 1 + TTL + 2 * Fetch
<1>1. ASSUME IndInv, NEW r \in Requests, Replies(r), req[r].outcome = "config"
      PROVE  req[r].raw <= 1 + TTL + Fetch /\ req[r].user <= 1 + TTL + 2 * Fetch
  BY <1>1, RequestFacts DEF Replies, Young
<1>2. IndInv /\ [Next]_vars => [Holds]_vars
  BY <1>1
<1> QED
  BY <1>2, Invariance, PTL DEF Spec, AnswerIsFresh

\* Only a request that waited for both lookups is lost.
THEOREM OnlyDoubleWaitsAreLostHolds == Spec => OnlyDoubleWaitsAreLost
<1> DEFINE Holds ==
         Fetch <= WriteTimeout /\ Fetch <= Grace =>
           \A r \in Requests : Loses(r) => req[r].waits = 2
<1>1. ASSUME IndInv, [Next]_vars, Fetch <= WriteTimeout /\ Fetch <= Grace,
             NEW r \in Requests, Loses(r)
      PROVE  req[r].waits = 2
  <2>1. Next
    BY <1>1 DEF vars, Loses
  <2>2. LosesLate(r) \/ LosesAtStop(r)
    BY <1>1, <2>1, AnyStep DEF Keeps, Innocent, Loses
  <2>3. /\ req[r].at \in Running /\ req[r].waits \in 0..2 /\ req[r].elapsed \in Nat
        /\ req[r].waits < 2 => req[r].elapsed <= Fetch
    BY <1>1, <2>2, RequestFacts, TimesAssumption
    DEF LosesLate, LosesAtStop, Running, Waiting, Request, Timed
  <2>4. req[r].elapsed > Fetch
    <3>1. CASE LosesLate(r)
      BY <1>1, <2>3, <3>1, TimesAssumption DEF LosesLate, InTime
    <3>2. CASE LosesAtStop(r)
      <4>1. grace <= req[r].elapsed /\ grace \in Nat
        BY <1>1, <3>2, RequestFacts, TimesAssumption DEF LosesAtStop, StopIsTimed, IndInv, TypeOK
      <4> QED
        BY <1>1, <2>3, <3>2, <4>1, TimesAssumption DEF LosesAtStop
    <3> QED
      BY <2>2, <3>1, <3>2
  <2> QED
    BY <2>3, <2>4, TimesAssumption
<1>2. IndInv /\ [Next]_vars => [Holds]_vars
  BY <1>1
<1> QED
  BY <1>2, Invariance, PTL DEF Spec, OnlyDoubleWaitsAreLost

\* What is lost to lateness has left the user's record in the cache.
THEOREM LostIsHalfDoneHolds == Spec => LostIsHalfDone
<1> DEFINE Holds ==
         Fetch <= WriteTimeout /\ Fetch <= TTL =>
           \A r \in Requests :
             Loses(r) /\ up' # "down" =>
               req[r].evicted \/ (cache["user"] # None /\ age["user"] <= Fetch)
<1>1. ASSUME IndInv, [Next]_vars, Fetch <= WriteTimeout /\ Fetch <= TTL,
             NEW r \in Requests, Loses(r), up' # "down"
      PROVE  req[r].evicted \/ (cache["user"] # None /\ age["user"] <= Fetch)
  <2> DEFINE q == req[r]
  <2>1. Next
    BY <1>1 DEF vars, Loses
  <2>2. LosesLate(r)
    BY <1>1, <2>1, AnyStep DEF Keeps, Innocent, Loses, LosesAtStop
  <2>3. q \in Request /\ Timed(q) /\ RecordIsCached(q)
    BY <1>1, RequestFacts
  <2>4. q.at \in Waiting \union {"reply"} /\ q.elapsed > Fetch
    BY <1>1, <2>2, <2>3, TimesAssumption DEF LosesLate, InTime, Request
  <2>5. q.waits = 2 /\ q.part = "raw"
    <3>1. q.waits \in 0..2 /\ q.elapsed \in Nat /\ (q.waits < 2 => q.elapsed <= Fetch)
      BY <2>3, <2>4, TimesAssumption DEF Request, Timed, Running
    <3>2. q.waits = 2
      BY <2>4, <3>1, TimesAssumption
    <3> QED
      BY <2>3, <2>4, <3>2 DEF Timed, Running
  <2>6. q.waited \in 0..Fetch /\ age["user"] \in 0..TTL
    BY <1>1, <2>3 DEF Request, IndInv, TypeOK, Parts
  <2> HIDE DEF q
  <2>7. q.evicted \/ (cache["user"] # None /\ age["user"] <= Fetch)
    BY <1>1, <2>3, <2>4, <2>5, <2>6, TimesAssumption DEF RecordIsCached, UserIsCached
  <2> QED
    BY <2>7 DEF q
<1>2. IndInv /\ [Next]_vars => [Holds]_vars
  BY <1>1
<1> QED
  BY <1>2, Invariance, PTL DEF Spec, LostIsHalfDone
=============================================================================
