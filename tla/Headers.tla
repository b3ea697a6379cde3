------------------------------- MODULE Headers -------------------------------
(***************************************************************************)
(* The headers of one subscription answer: handleSubscription with         *)
(* BuildHeadersFromRaw, HeaderOverridesForCoreAndSquads,                   *)
(* ApplyHeaderOverrides and the writing of the result (internal/handler,   *)
(* internal/subscription, internal/adminstate).                            *)
(*                                                                         *)
(* Go ranges over four maps here, each in any order, and maps tell apart   *)
(* the spellings of a name that HTTP does not: a key is a name and its     *)
(* spelling.  Legal names and values only are modelled by what they are;   *)
(* a subscription-userinfo that has parameters is the function it parses   *)
(* to, and any other text parses to no parameters.                         *)
(***************************************************************************)
EXTENDS FiniteSetsExt, Sequences

CONSTANTS
  Names,        \* names of headers, in lower case
  Userinfo,     \* subscription-userinfo
  Unsafe,       \* names that are the server's own (isUnsafeResponseHeader)
  NoCache,      \* those that are in the map of the answer
  Served,       \* those that every answer has
  Spellings, Lower, Known,  \* ways to write a name; lower case; the ways the fallback looks for
  Texts,        \* legal values without parameters
  NilText,      \* "<nil>", what Go prints for null
  Null, Blank, Illegal,     \* null, an empty value, one with a control character
  ServersOwn,   \* what the server itself writes
  Numbers, Zero, None,      \* numbers, 0, and none in the place of one
  Params,       \* parameters of a userinfo
  Squads,       \* squads of the panel
  MaxSquads,    \* bound: squads of one user
  Raws, Users, Libraries    \* headers and users the panel may send, overrides that may be saved

Keys == [name : Names, spelling : Spellings]
Infos == {f \in UNION {[D -> Numbers] : D \in SUBSET Params} : DOMAIN f # {}}
Legal(v) == v \in Texts \/ v = NilText \/ v \in Infos
IsMap(f, S) == f = [x \in DOMAIN f |-> f[x]] /\ DOMAIN f \subseteq S

Modes == {"actual", "custom", "remove"}
IsOverrides(f) ==
  /\ IsMap(f, Keys)
  /\ \A k \in DOMAIN f : f[k].mode \in Modes /\ IsMap(f[k].params, Params)

ASSUME HeadersAssumption ==
  /\ NoCache \subseteq Served /\ Served \subseteq Unsafe /\ Unsafe \subseteq Names
  /\ Userinfo \in Names \ Unsafe
  /\ Lower \in Spellings /\ Known \in Seq(Spellings)
  /\ {Null, Blank, Illegal} \intersect (Texts \union {NilText} \union Infos) = {}
  /\ Blank \notin {Null, Illegal}
  /\ \A raw \in Raws : IsMap(raw, Keys)
  /\ \A lib \in Libraries :
       /\ IsOverrides(lib.default)
       /\ IsMap(lib.squads, Squads) /\ \A s \in DOMAIN lib.squads : IsOverrides(lib.squads[s])

VARIABLES
  given,        \* what the call works on: the headers (raw) and the numbers (user) in
                \* the panel's answer, the overrides saved for the core that was asked
                \* for (library), the user's squads in the panel's order
  headers,      \* the map of headers on its way
  found,        \* subscriptionUserinfoValue
  overrides,    \* those that apply to the user
  todo,         \* keys the current loop has not come to yet
  answer,       \* headers written to the client, under their canonical names
  at            \* the loop or the step between two loops that is next

vars == <<given, headers, found, overrides, todo, answer, at>>

Empty == [x \in {} |-> {}]
Put(f, x, v) == [y \in DOMAIN f \union {x} |-> IF y = x THEN v ELSE f[y]]
Without(f, x) == [y \in DOMAIN f \ {x} |-> f[y]]

Inputs ==
  [raw : Raws, user : Users, library : Libraries,
   squads : UNION {[1..n -> Squads] : n \in 0..MaxSquads}]

Init ==
  /\ given \in Inputs
  /\ headers = Empty /\ overrides = Empty /\ answer = Empty
  /\ found = Blank
  /\ todo = DOMAIN given.raw
  /\ at = "prepare"

\* One turn of a loop over a map.
Take(loop, k) ==
  /\ at = loop /\ k \in todo
  /\ todo' = todo \ {k}
  /\ UNCHANGED <<at, given>>

-----------------------------------------------------------------------------
(* The panel's headers. *)

\* Mutation of Refused: names are compared as they are written.
Refused_AsWritten(k) == k.name \in Unsafe /\ k.spelling = Lower

Refused(k) == k.name \in Unsafe

Passes(raw, k) == ~Refused(k) /\ Legal(raw[k])

Prepare(k) ==
  /\ Take("prepare", k)
  /\ LET raw == given.raw IN
     /\ found' = IF Passes(raw, k) /\ k.name = Userinfo THEN raw[k] ELSE found
     /\ headers' = IF Passes(raw, k) /\ k.name # Userinfo THEN Put(headers, k, raw[k]) ELSE headers
  /\ UNCHANGED <<overrides, answer>>

\* The numbers of the user as a userinfo; an expireAt of zero counts as none.
Traffic(user) ==
  LET used == IF user.used = None THEN user.usedTraffic ELSE user.used
      expire == IF user.expireAt \in {None, Zero} THEN user.expiresAt ELSE user.expireAt
      info == [upload |-> Zero, download |-> used, total |-> user.limit]
  IN IF None \in {used, user.limit} THEN Blank
     ELSE IF expire \in Numbers THEN Put(info, "expire", expire) ELSE info

\* buildSubscriptionUserinfo: a key that is there with null counts as "<nil>".
Fallback(raw, user) ==
  LET Sent(i) == raw[[name |-> Userinfo, spelling |-> Known[i]]]
      there == {i \in DOMAIN Known :
                  [name |-> Userinfo, spelling |-> Known[i]] \in DOMAIN raw /\ Sent(i) # Blank}
  IN IF there = {} THEN Traffic(user)
     ELSE IF Sent(Min(there)) = Null THEN NilText ELSE Sent(Min(there))

\* Mutation of PrepareUserinfo: the value is not checked again.
PrepareUserinfo_Unchecked ==
  /\ at = "prepare" /\ todo = {}
  /\ headers' = Put(headers, [name |-> Userinfo, spelling |-> Lower],
                    IF found = Blank THEN Fallback(given.raw, given.user) ELSE found)
  /\ at' = "select"
  /\ UNCHANGED <<given, found, overrides, todo, answer>>

PrepareUserinfo ==
  /\ at = "prepare" /\ todo = {}
  /\ LET value == IF found = Blank THEN Fallback(given.raw, given.user) ELSE found IN
     headers' = IF Legal(value) THEN Put(headers, [name |-> Userinfo, spelling |-> Lower], value)
                ELSE headers
  /\ at' = "select"
  /\ UNCHANGED <<given, found, overrides, todo, answer>>

-----------------------------------------------------------------------------
(* The administrator's overrides. *)

\* The list of overrides of the user's i-th squad; at 0 the default one.
Layer(in, i) ==
  IF i = 0 THEN in.library.default
  ELSE IF in.squads[i] \in DOMAIN in.library.squads THEN in.library.squads[in.squads[i]]
  ELSE Empty
Layers(in) == 0..Len(in.squads)

\* selectOverrides: a later layer replaces the keys it has in common with earlier ones.
OverridesFor(in) ==
  [k \in UNION {DOMAIN Layer(in, i) : i \in Layers(in)} |->
     Layer(in, Max({i \in Layers(in) : k \in DOMAIN Layer(in, i)}))[k]]

Select ==
  /\ at = "select"
  /\ overrides' = OverridesFor(given)
  /\ todo' = DOMAIN overrides'
  /\ at' = "override"
  /\ UNCHANGED <<given, headers, found, answer>>

Parsed(v) == IF v \in Infos THEN v ELSE Empty

\* applyUserinfoOverrides
WithParams(info, params) ==
  LET Set(p) == p \in DOMAIN params /\ params[p].mode # "actual"
      Gone(p) == params[p].mode = "remove" \/ params[p].value = Blank
  IN [p \in {p \in DOMAIN info \union DOMAIN params :
               IF Set(p) THEN ~Gone(p) ELSE p \in DOMAIN info} |->
        IF Set(p) THEN params[p].value ELSE info[p]]

\* The values map h has under any spelling of a name.
Values(h, name) == {h[k] : k \in {k \in DOMAIN h : k.name = name}}

\* What header k becomes under override o, in whichever order findHeaderValue
\* goes through map h; a value that is not legal removes it.
NewValues(k, o, h) ==
  IF o.mode = "remove" THEN {Blank}
  ELSE IF k.name = Userinfo /\ DOMAIN o.params # {} THEN
    {WithParams(Parsed(v), o.params) :
       v \in IF Values(h, k.name) = {} THEN {o.value} ELSE Values(h, k.name)}
  ELSE {o.value}

\* Mutation of Deletions: names are compared as they are written.
Deletions_AsWritten(h, name) == {Without(h, [name |-> name, spelling |-> Lower])}

\* deleteHeader: one spelling of the name goes, if the map has any.
Deletions(h, name) ==
  LET same == {k \in DOMAIN h : k.name = name}
  IN IF same = {} THEN {h} ELSE {Without(h, k) : k \in same}

Override(k) ==
  /\ Take("override", k)
  /\ LET o == overrides[k] IN
     IF Refused(k) \/ (o.mode = "actual" /\ ~(k.name = Userinfo /\ DOMAIN o.params # {}))
     THEN headers' = headers
     ELSE \E v \in NewValues(k, o, headers), h \in Deletions(headers, k.name) :
            headers' = IF Legal(v) THEN Put(h, k, v) ELSE h
  /\ UNCHANGED <<found, overrides, answer>>

-----------------------------------------------------------------------------
(* The answer. *)

Canonical(name) == [name |-> name, spelling |-> Lower]

\* The handler puts its own cache headers on top, and sendJSON sets its own
\* before it goes through the map.
Finish ==
  /\ at = "override" /\ todo = {}
  /\ headers' = [k \in DOMAIN headers \union {Canonical(n) : n \in NoCache} |->
                   IF k.name \in NoCache THEN ServersOwn ELSE headers[k]]
  /\ answer' = [n \in Served |-> ServersOwn]
  /\ todo' = DOMAIN headers'
  /\ at' = "write"
  /\ UNCHANGED <<given, found, overrides>>

Write(k) ==
  /\ Take("write", k)
  /\ answer' = Put(answer, k.name, headers[k])
  /\ UNCHANGED <<headers, found, overrides>>

Done ==
  /\ at = "write" /\ todo = {}
  /\ at' = "done"
  /\ UNCHANGED <<given, headers, found, overrides, todo, answer>>

Next ==
  \/ \E k \in todo : Prepare(k) \/ Override(k) \/ Write(k)
  \/ PrepareUserinfo \/ Select \/ Finish \/ Done

Spec == Init /\ [][Next]_vars

-----------------------------------------------------------------------------
(* Properties *)

\* Every variable has its type; the map never holds a value that is not legal.
TypeOK ==
  /\ given \in Inputs
  /\ IsMap(headers, Keys) /\ \A k \in DOMAIN headers : Legal(headers[k]) \/ headers[k] = ServersOwn
  /\ found = Blank \/ Legal(found)
  /\ IsOverrides(overrides)
  /\ todo \subseteq CASE at = "prepare" -> DOMAIN given.raw
                      [] at = "override" -> DOMAIN overrides
                      [] at = "write" -> DOMAIN headers
                      [] OTHER -> {}
  /\ IsMap(answer, Names)
  /\ at \in {"prepare", "select", "override", "write", "done"}

\* Neither the panel nor an administrator sets, changes or removes a header that
\* is the server's own, however they spell it (headers_test.go:139, 159).
Protected ==
  at = "done" => \A n \in Unsafe :
    /\ n \in DOMAIN answer <=> n \in Served
    /\ n \in Served => answer[n] = ServersOwn

\* What the panel's answer gives for a name: a legal value, and if it has none
\* for the userinfo, the user's traffic.
Actual(in, name) ==
  LET sent == {v \in Values(in.raw, name) : Legal(v)}
  IN IF name = Userinfo /\ sent = {} THEN {v \in {Traffic(in.user)} : Legal(v)} ELSE sent

Named(in, name) == {i \in Layers(in) : Values(Layer(in, i), name) # {}}

\* The override for a name in the last of the user's layers that has one.
Ruling(in, name) == CHOOSE o \in Values(Layer(in, Max(Named(in, name))), name) : TRUE

Ruled(name, o, actual) ==
  IF o.mode = "remove" THEN {}
  ELSE IF name = Userinfo /\ DOMAIN o.params # {} THEN
    {WithParams(Parsed(v), o.params) : v \in IF actual = {} THEN {o.value} ELSE actual}
  ELSE IF o.mode = "actual" THEN actual
  ELSE {o.value}

Expected(in, name) ==
  IF Named(in, name) = {} THEN Actual(in, name)
  ELSE {v \in Ruled(name, Ruling(in, name), Actual(in, name)) : Legal(v)}

InOneWay(keys, name) == \A j, k \in keys : j.name = name /\ k.name = name => j = k

\* The panel writes a name in one way, the administrator in one way (maybe
\* another), and the panel's userinfo is a text.
Plain(in, name) ==
  /\ InOneWay(DOMAIN in.raw, name)
  /\ InOneWay(UNION {DOMAIN Layer(in, i) : i \in Layers(in)}, name)
  /\ name = Userinfo => \A v \in Values(in.raw, name) : Legal(v) \/ v = Blank

Answered(answers, name) == {answers[m] : m \in {name} \intersect DOMAIN answers}

\* In whichever orders Go goes through its maps, a header of the answer is what
\* the last of the user's squads that overrides it says, else what the default
\* overrides say, else what the panel sent; overrides of other headers do not
\* change it.
AnswerIsExpected ==
  at = "done" => \A n \in Names \ Unsafe :
    Plain(given, n) => Answered(answer, n) = Expected(given, n)

-----------------------------------------------------------------------------
(* What holds between the steps. *)

\* The first loop has taken over what passes, and one userinfo if there is one.
PrepareInv ==
  at = "prepare" =>
    LET seen == {k \in DOMAIN given.raw \ todo : Passes(given.raw, k)} IN
    /\ todo \subseteq DOMAIN given.raw
    /\ DOMAIN headers = {k \in seen : k.name # Userinfo}
    /\ \A k \in DOMAIN headers : headers[k] = given.raw[k]
    /\ IF found = Blank THEN \A k \in seen : k.name # Userinfo
       ELSE \E k \in seen : k.name = Userinfo /\ found = given.raw[k]

\* Map h has a name under one spelling, with one of the values vs.
Holds(h, name, vs) == InOneWay(DOMAIN h, name) /\ Values(h, name) = vs

\* A header is the panel's until the loop comes to its override.
OverrideInv ==
  at \in {"select", "override"} =>
    /\ at = "override" => overrides = OverridesFor(given) /\ todo \subseteq DOMAIN overrides
    /\ \A k \in DOMAIN headers : k.name \notin Unsafe
    /\ \A n \in Names \ Unsafe : Plain(given, n) =>
         Holds(headers, n, IF at = "override" /\ \A k \in todo : k.name # n
                           THEN Expected(given, n) ELSE Actual(given, n))

\* The last loop writes the map, and of the server's own headers nothing else.
WriteInv ==
  at \in {"write", "done"} =>
    /\ todo \subseteq DOMAIN headers
    /\ \A k \in DOMAIN headers : k.name \in Unsafe => k.name \in Served /\ headers[k] = ServersOwn
    /\ \A n \in Unsafe :
         /\ n \in DOMAIN answer <=> n \in Served
         /\ n \in Served => answer[n] = ServersOwn
    /\ \A n \in Names \ Unsafe : Plain(given, n) =>
         /\ Holds(headers, n, Expected(given, n))
         /\ Answered(answer, n) = {headers[k] : k \in {k \in DOMAIN headers \ todo : k.name = n}}
    /\ at = "done" => todo = {}

IndInv == given \in Inputs /\ PrepareInv /\ OverrideInv /\ WriteInv
=============================================================================
