------------------------ MODULE SubscriptionRequest ------------------------
(***************************************************************************)
(* The requests of one subscriber, from the rate limiter to the answer     *)
(* (internal/handler): two lookups in the panel, each through the cache or *)
(* past it, then the answer.  Meanwhile the panel's data change, the cache *)
(* loses entries to other subscribers, the panel is slow or fails, clients *)
(* hang up and call again, and the process is stopped, killed and started  *)
(* again.                                                                  *)
(*                                                                         *)
(* Of the panel's data the model keeps how far a copy lags behind: 0 while *)
(* it is what the panel has, else one more than the ticks since it was     *)
(* replaced there.  Times are ages, so no clock bounds a behaviour.  Of    *)
(* the cache it keeps what PanelCache shows of it: an entry lives TTL      *)
(* ticks, and may go earlier.                                              *)
(***************************************************************************)
EXTENDS Integers, FiniteSets

CONSTANTS
  Requests,      \* devices of the subscriber; each makes one request at a time
  TTL,           \* life of a cached answer of the panel, in ticks; 0: no cache
  Fetch,         \* ticks until the panel client gives up: PanelTimeout
  WriteTimeout,  \* ticks after which an answer no longer reaches the client
  Grace,         \* ticks an orderly stop waits for requests
  None           \* no copy

ASSUME TimesAssumption ==
  /\ TTL \in Nat
  /\ Fetch \in Nat \ {0} /\ WriteTimeout \in Nat /\ Grace \in Nat
  /\ None \notin Nat

Parts == {"user", "raw"}

\* Lags are counted up to a number past every bound of the properties.
MaxLag == TTL + 2 * Fetch + 2
Copies == 0..MaxLag \union {None}

VARIABLES
  up,       \* the process: "up", "stopping" or "down"
  grace,    \* ticks since it was asked to stop
  known,    \* whether the panel has the user
  cache,    \* cache[k]: the cached answer for part k, or None
  age,      \* age[k]: ticks since it was stored
  req       \* req[r]: the request device r makes, or how its last one ended

vars == <<up, grace, known, cache, age, req>>

Waiting == {"wait", "got"}
Running == Waiting \union {"look", "reply"}
Ended == {"idle", "lost"}
Outcomes == {"none", "config", "invalid_core", "user_not_found", "panel_error"}

\* at is "lost" after a request whose answer came too late or was cut off by a
\* stop, and "idle" before the first and after any other.
\* part is the lookup under way and copy its answer while that travels; waited
\* is how long it has taken, elapsed how long the request has, and waits how
\* many lookups asked the panel.  History: absent, the panel had no such user at
\* some moment of the request; evicted, the cache lost the user's record to
\* others during it.
Request == [at : Running \union Ended, part : Parts, copy : Copies,
            waited : 0..Fetch, waits : 0..2, elapsed : 0..(2 * Fetch),
            user : Copies, raw : Copies, absent : BOOLEAN, evicted : BOOLEAN, outcome : Outcomes]

New(at, absent) ==
  [at |-> at, part |-> "user", copy |-> None, waited |-> 0, waits |-> 0, elapsed |-> 0,
   user |-> None, raw |-> None, absent |-> absent, evicted |-> FALSE,
   outcome |-> "none"]
Over(at) == New(at, FALSE)

NoCache == [k \in Parts |-> None]

Init ==
  /\ up = "up" /\ grace = 0
  /\ known \in BOOLEAN
  /\ cache = NoCache
  /\ age = [k \in Parts |-> 0]
  /\ req = [r \in Requests |-> Over("idle")]

At(r, steps) == req[r].at \in steps
Becomes(r, q) == req' = [req EXCEPT ![r] = q]
Environment == <<up, grace, known>>
Cache == <<cache, age>>

-----------------------------------------------------------------------------
(* A request: ServeHTTP and handleSubscription. *)

\* A device calls, for the first time or again.
Begin(r) ==
  /\ up = "up" /\ At(r, Ended)
  /\ Becomes(r, New("look", ~known))
  /\ UNCHANGED <<Environment, Cache>>

\* The limiter's verdict comes before anything is asked or read.
Refuse(r) ==
  /\ up = "up" /\ At(r, Ended)
  /\ Becomes(r, Over("idle"))
  /\ UNCHANGED <<Environment, Cache>>

\* The answer is decided; it is still to be written.
Failed(q, outcome) ==
  [q EXCEPT !.at = "reply", !.copy = None, !.user = None, !.waited = 0,
            !.absent = FALSE, !.outcome = outcome]

\* The lookup of q.part returns a copy.  The user's record may lack the fields a
\* config needs.  The core is looked at only after both lookups, and then the
\* config built, or not.
Found(q, copy) ==
  IF q.part = "user"
  THEN {Failed(q, "panel_error"),
        [q EXCEPT !.at = "look", !.part = "raw", !.user = copy, !.copy = None, !.waited = 0]}
  ELSE {Failed(q, "invalid_core"), Failed(q, "panel_error"),
        [q EXCEPT !.at = "reply", !.raw = copy, !.copy = None, !.waited = 0,
                  !.absent = FALSE, !.outcome = "config"]}

\* Mutation of Hit: an entry that is used starts a new life.
Hit_Renews(r) ==
  LET part == req[r].part IN
  /\ At(r, {"look"}) /\ cache[part] # None
  /\ \E q \in Found(req[r], cache[part]) : Becomes(r, q)
  /\ age' = [age EXCEPT ![part] = 0]
  /\ UNCHANGED <<Environment, cache>>

\* Client.get finds an entry that has not expired.
Hit(r) ==
  LET part == req[r].part IN
  /\ At(r, {"look"}) /\ cache[part] # None
  /\ \E q \in Found(req[r], cache[part]) : Becomes(r, q)
  /\ UNCHANGED <<Environment, Cache>>

\* It finds none and asks the panel.
Ask(r) ==
  /\ At(r, {"look"}) /\ cache[req[r].part] = None
  /\ Becomes(r, [req[r] EXCEPT !.at = "wait", !.waits = @ + 1])
  /\ UNCHANGED <<Environment, Cache>>

\* The panel reads its data; its answer travels.  None is a 404.
PanelAnswers(r) ==
  /\ At(r, {"wait"})
  /\ Becomes(r, [req[r] EXCEPT !.at = "got", !.copy = IF known THEN 0 ELSE None])
  /\ UNCHANGED <<Environment, Cache>>

\* Mutation of Stored: an entry that is replaced does not start a new life.
Stored_OldLife(part, copy) ==
  /\ cache' = IF TTL = 0 THEN cache ELSE [cache EXCEPT ![part] = copy]
  /\ UNCHANGED age

Stored(part, copy) ==
  /\ cache' = IF TTL = 0 THEN cache ELSE [cache EXCEPT ![part] = copy]
  /\ age' = [age EXCEPT ![part] = 0]

\* The answer arrives and is stored, whatever it says of the user.
Receive(r) ==
  /\ At(r, {"got"}) /\ req[r].copy # None
  /\ Stored(req[r].part, req[r].copy)
  /\ \E q \in Found(req[r], req[r].copy) : Becomes(r, q)
  /\ UNCHANGED Environment

\* Errors are not stored.
ReceiveNotFound(r) ==
  /\ At(r, {"got"}) /\ req[r].copy = None
  /\ Becomes(r, Failed(req[r], "user_not_found"))
  /\ UNCHANGED <<Environment, Cache>>

\* Mutation of PanelError: every error of the panel means there is no user.
PanelError_NotFound == "user_not_found"

\* handlePanelError: all codes but 404 are errors of the panel.
PanelError == "panel_error"

\* The panel refuses, fails, sends what is no answer, or does not answer in time.
PanelFails(r) ==
  /\ At(r, Waiting)
  /\ Becomes(r, Failed(req[r], PanelError))
  /\ UNCHANGED <<Environment, Cache>>

InTime(q) == q.elapsed <= WriteTimeout

\* After WriteTimeout the write fails and the connection is closed.
Reply(r) ==
  /\ At(r, {"reply"})
  /\ Becomes(r, Over(IF InTime(req[r]) THEN "idle" ELSE "lost"))
  /\ UNCHANGED <<Environment, Cache>>

\* net/http may end the context of a request that outlives its deadlines; the
\* lookup under way ends with it and stores nothing.
Cancel(r) ==
  /\ At(r, Waiting) /\ ~InTime(req[r])
  /\ Becomes(r, Over("lost"))
  /\ UNCHANGED <<Environment, Cache>>

\* The client closes its connection, which ends the lookup under way.
Hangup(r) ==
  /\ At(r, Waiting)
  /\ Becomes(r, Over("idle"))
  /\ UNCHANGED <<Environment, Cache>>

Step(r) == Hit(r) \/ Ask(r) \/ Receive(r) \/ ReceiveNotFound(r) \/ Reply(r)

-----------------------------------------------------------------------------
(* What changes meanwhile. *)

Replaced(copy) == IF copy = 0 THEN 1 ELSE copy

\* The user's data in the panel are other ones from now on, or he is removed.
Change ==
  /\ known /\ known' \in BOOLEAN
  /\ cache' = [k \in Parts |-> Replaced(cache[k])]
  /\ req' = [r \in Requests |->
       [req[r] EXCEPT !.copy = Replaced(@), !.user = Replaced(@), !.raw = Replaced(@),
                      !.absent = @ \/ (At(r, Waiting \union {"look"}) /\ ~known')]]
  /\ UNCHANGED <<up, grace, age>>

\* He is known again.
Restore == ~known /\ known' = TRUE /\ UNCHANGED <<up, grace, cache, age, req>>

\* Another subscriber's entry takes the place of this one, or a sweep does.
Forget(part) ==
  /\ cache[part] # None
  /\ cache' = [cache EXCEPT ![part] = None]
  /\ age' = [age EXCEPT ![part] = 0]
  /\ req' = [r \in Requests |->
       [req[r] EXCEPT !.evicted = @ \/ (req[r].part = "raw" /\ part = "user")]]
  /\ UNCHANGED Environment

\* Ticks are long: computing takes no time, no lookup takes longer than Fetch
\* and no stop longer than Grace.
TimePasses ==
  /\ \A r \in Requests : ~At(r, {"look", "reply"}) /\ (At(r, Waiting) => req[r].waited < Fetch)
  /\ up = "stopping" => grace <= Grace

Older(copy) == IF copy \in 1..(MaxLag - 1) THEN copy + 1 ELSE copy

\* Mutation of Expires: an entry lives twice as long.
Expires_Late(k) == cache[k] # None /\ age[k] = 2 * TTL

\* An entry is good up to and at the age of TTL.
Expires(k) == cache[k] # None /\ age[k] = TTL

Tick ==
  /\ TimePasses
  /\ cache' = [k \in Parts |-> IF Expires(k) THEN None ELSE Older(cache[k])]
  /\ age' = [k \in Parts |-> IF cache[k] = None \/ Expires(k) THEN 0 ELSE age[k] + 1]
  /\ req' = [r \in Requests |->
       IF At(r, Waiting)
       THEN [req[r] EXCEPT !.copy = Older(@), !.user = Older(@), !.waited = @ + 1, !.elapsed = @ + 1]
       ELSE req[r]]
  /\ grace' = IF up = "stopping" THEN grace + 1 ELSE grace
  /\ UNCHANGED <<up, known>>

-----------------------------------------------------------------------------
(* The process: the end of main(). *)

\* A signal: Shutdown closes the listener and waits for the requests.
Stop ==
  /\ up = "up" /\ up' = "stopping"
  /\ UNCHANGED <<grace, known, cache, age, req>>

\* The process is gone, and its memory with it.
Exit(at) ==
  /\ up' = "down" /\ grace' = 0
  /\ cache' = NoCache /\ age' = [k \in Parts |-> 0]
  /\ req' = [r \in Requests |-> IF At(r, Running) THEN Over(at) ELSE req[r]]
  /\ UNCHANGED known

Idle == \A r \in Requests : ~At(r, Running)

Drained == up = "stopping" /\ Idle /\ Exit("lost")

\* Mutation of CutOff: the stop does not wait.
CutOff_AtOnce == up = "stopping" /\ ~Idle /\ Exit("lost")

\* The context of Shutdown ends before the requests.
CutOff == up = "stopping" /\ grace > Grace /\ ~Idle /\ Exit("lost")

Crash == up # "down" /\ Exit("idle")

Restart == up = "down" /\ up' = "up" /\ UNCHANGED <<grace, known, cache, age, req>>

Next ==
  \/ \E r \in Requests :
       Begin(r) \/ Refuse(r) \/ Step(r) \/ PanelAnswers(r) \/ PanelFails(r) \/ Cancel(r) \/ Hangup(r)
  \/ Change \/ Restore
  \/ \E part \in Parts : Forget(part)
  \/ Tick
  \/ Stop \/ Drained \/ CutOff \/ Crash \/ Restart

Spec == Init /\ [][Next]_vars

-----------------------------------------------------------------------------
(* Properties *)

\* Every variable has its type.
TypeOK ==
  /\ up \in {"up", "stopping", "down"} /\ grace \in 0..(Grace + 1)
  /\ known \in BOOLEAN
  /\ cache \in [Parts -> Copies]
  /\ age \in [Parts -> 0..TTL]
  /\ req \in [Requests -> Request]

Replies(r) == req[r].at = "reply" /\ InTime(req[r]) /\ req'[r].at = "idle"

\* How old the two parts of a config may be when it is answered, although they
\* come from two lookups at two moments: what the panel had a life and a fetch
\* before, or another fetch for the user's record.  As the removal of a user
\* replaces both parts of his data, a removed user gets no config once a life
\* and a fetch have passed.
AnswerIsFresh ==
  [][\A r \in Requests :
       Replies(r) /\ req[r].outcome = "config" =>
         /\ req[r].raw <= 1 + TTL + Fetch
         /\ req[r].user <= 1 + TTL + 2 * Fetch]_vars

\* "User not found" is the truth: the panel had no such user at some moment of
\* the request itself, whatever else failed and whatever was cached.
NotFoundIsTrue ==
  [][\A r \in Requests :
       req'[r].outcome = "user_not_found" /\ req[r].outcome = "none" => req[r].absent]_vars

Loses(r) == req[r].at # "lost" /\ req'[r].at = "lost"

\* A request is answered too late to be received, or cut off by an orderly
\* stop, only if it waited for both lookups: a handler may take twice Fetch,
\* longer than WriteTimeout and Grace, but one that finds either part in the
\* cache takes no longer than they do.
OnlyDoubleWaitsAreLost ==
  [][Fetch <= WriteTimeout /\ Fetch <= Grace =>
       \A r \in Requests : Loses(r) => req[r].waits = 2]_vars

\* A request that is answered too late has done half of the work of the next:
\* the user's record it waited for is in the cache, and young, unless it was
\* evicted for others.  So a client that calls again soon is not lost again.
LostIsHalfDone ==
  [][Fetch <= WriteTimeout /\ Fetch <= TTL =>
       \A r \in Requests :
         Loses(r) /\ up' # "down" =>
           req[r].evicted \/ (cache["user"] # None /\ age["user"] <= Fetch)]_vars

-----------------------------------------------------------------------------
(* The inductive invariant: why the properties hold.                        *)

\* What a request has waited for, and how long.
Timed(q) ==
  /\ q.at \in Running =>
       /\ q.waits < 2 => q.elapsed <= Fetch
       /\ q.waits = 2 => q.part = "raw"
  /\ q.at = "look" =>
       /\ q.waited = 0
       /\ q.waits = 0 => q.elapsed = 0
       /\ IF q.part = "user" THEN q.waits = 0 ELSE q.waits <= 1
  /\ q.at \in Waiting =>
       /\ q.part = "user" => q.waits = 1
       /\ q.waits # 0
       /\ q.waits = 1 => q.elapsed = q.waited
       /\ q.waits = 2 => q.elapsed <= Fetch + q.waited

\* How old its copies are.
Young(q) ==
  /\ q.at = "got" /\ q.copy # None => q.copy <= 1 + q.waited
  /\ q.at \in Waiting \union {"look"} /\ q.part = "raw" =>
       q.user # None /\ q.user <= 1 + TTL + Fetch + q.waited
  /\ q.at = "reply" /\ q.outcome = "config" =>
       /\ q.raw # None /\ q.raw <= 1 + TTL + Fetch
       /\ q.user # None /\ q.user <= 1 + TTL + 2 * Fetch
  /\ q.outcome = "none" <=> q.at # "reply"

RequestsAreTimed == \A r \in Requests : Timed(req[r])
CopiesAreYoung == \A r \in Requests : Young(req[r])

\* An entry came with a lag of at most a fetch.
EntriesAreYoung == \A k \in Parts : cache[k] # None => cache[k] <= 1 + Fetch + age[k]

\* A request that meets a panel without the user remembers it.
AbsenceIsKept(q) ==
  /\ q.at \in Waiting \union {"look"} /\ ~known => q.absent
  /\ q.at = "got" /\ q.copy = None => q.absent

\* A request that is still running has run as long as the stop.
StopIsTimed(q) ==
  q.at \in Running => up # "down" /\ (up = "stopping" => grace <= q.elapsed)

UserIsCached(n) == cache["user"] # None /\ age["user"] <= n

\* What a request that asked for the user's record left in the cache.
RecordIsCached(q) ==
  Fetch <= TTL /\ q.part = "raw" /\ ~q.evicted =>
    /\ q.at = "look" /\ q.waits = 1 => UserIsCached(0)
    /\ q.at \in Waiting /\ q.waits = 2 => UserIsCached(q.waited)
    /\ q.at = "reply" /\ q.waits = 2 => UserIsCached(Fetch)

RequestsFit ==
  \A r \in Requests :
    AbsenceIsKept(req[r]) /\ StopIsTimed(req[r]) /\ RecordIsCached(req[r])

IndInv ==
  /\ TypeOK /\ (up # "stopping" => grace = 0)
  /\ RequestsAreTimed /\ CopiesAreYoung /\ EntriesAreYoung /\ RequestsFit
=============================================================================
