----------------------------- MODULE AdminState -----------------------------
(***************************************************************************)
(* The two settings an administrator edits: the library of templates and   *)
(* the header overrides.  Each has a row in SQLite and a copy in memory    *)
(* from which requests are served (config.Builder and config.Store,        *)
(* adminstate.HeaderStore).  A POST of the admin API writes the row, then  *)
(* the copy; no lock spans the two.  A start of the process fills rows     *)
(* that are missing from files, loads the copies and completes the Mihomo  *)
(* overrides.                                                              *)
(*                                                                         *)
(* A library is an opaque value.  A set of overrides is told apart by core *)
(* and by whether it is empty, which is all a start asks of it.            *)
(***************************************************************************)
EXTENDS Integers, Sequences, FiniteSets

CONSTANTS
  Requests,     \* the POSTs of the whole run
  Libraries,    \* template libraries
  Overrides,    \* non-empty override sets of one core
  Empty,        \* the empty override set of one core
  None,         \* no row, no file, no store
  Bad,          \* a file that can not be read or parsed
  Boot,         \* the start of the process, as the author of a row
  MaxFaults,    \* bound: crashes and database errors in a run
  MaxInFlight,  \* bound: POSTs served at once
  Ambiguous     \* whether a write that was reported as failed may have been
                \* committed (its context ended after the commit)

ASSUME AdminAssumption ==
  /\ MaxFaults \in Nat /\ MaxInFlight \in Nat
  /\ Ambiguous \in BOOLEAN
  /\ Boot \notin Requests
  /\ Empty \notin Overrides
  /\ None \notin Libraries /\ Bad \notin Libraries

PerCore == Overrides \union {Empty}
HeaderSets == [xray : PerCore, mihomo : PerCore]
NoOverrides == [xray |-> Empty, mihomo |-> Empty]

ASSUME NoneAssumption == None \notin HeaderSets /\ Bad \notin HeaderSets

Stores == {"templates", "headers"}
Values(s) == IF s = "templates" THEN Libraries ELSE HeaderSets

VARIABLES
  file,      \* file.templates is configs/default.json, file.headers is
             \* data/header_overrides.json
  disk,      \* disk[s]: the row of setting s, or None
  served,    \* served[s]: the copy in memory, None without one
  boot,      \* how far main() has come: "down", a step of it, or "serving"
  post,      \* post[r]: the setting and value POST r carries, and its step
  faults,    \* crashes and errors so far
  commits,   \* history: commits[s] is the sequence of writes to the row of s
  servedAt,  \* history: the position in commits[s] the copy of s stems from
  before     \* history: before[r]: the POSTs that had ended when r began

vars == <<file, disk, served, boot, post, faults, commits, servedAt, before>>

Steps == {"down", "templates", "load", "headers", "import", "ensure", "serving"}
Ended == {"saved", "failed", "lost"}
Posts == [at : Ended \union {"new", "save", "apply"}, store : Stores,
          value : Libraries \union HeaderSets \union {None}, commit : Nat]

Init ==
  /\ file \in [templates : Libraries \union {Bad}, headers : HeaderSets \union {None, Bad}]
  /\ disk = [s \in Stores |-> None]
  /\ served = [s \in Stores |-> None]
  /\ boot = "down"
  /\ post = [r \in Requests |-> [at |-> "new", store |-> "templates", value |-> None, commit |-> 0]]
  /\ faults = 0
  /\ commits = [s \in Stores |-> <<>>]
  /\ servedAt = [s \in Stores |-> 0]
  /\ before = [r \in Requests |-> {}]

-----------------------------------------------------------------------------
(* Statements of the database. *)

Fault == faults < MaxFaults /\ faults' = faults + 1

\* The upsert of a row, by the start or by a POST.
Commit(s, v, who) ==
  /\ disk' = [disk EXCEPT ![s] = v]
  /\ commits' = [commits EXCEPT ![s] = Append(@, [by |-> who, value |-> v])]

Save(s, v, who) == Commit(s, v, who) /\ UNCHANGED faults

SaveFails(s, v, who) ==
  /\ Fault
  /\ \/ UNCHANGED <<disk, commits>>
     \/ Ambiguous /\ Commit(s, v, who)

\* The copy of s becomes v, which is write number n of its row.
Serve(s, v, n) ==
  /\ served' = [served EXCEPT ![s] = v]
  /\ servedAt' = [servedAt EXCEPT ![s] = n]

NoWrite == UNCHANGED <<disk, commits>>
KeepCopies == UNCHANGED <<served, servedAt>>

-----------------------------------------------------------------------------
(* The start of the process: main(). *)

At(step) == boot = step /\ UNCHANGED <<file, post, before>>
Go(step) == boot' = step

Start == At("down") /\ Go("templates") /\ NoWrite /\ KeepCopies /\ UNCHANGED faults

\* os.Exit(1): the copies are gone.
Exit ==
  /\ Go("down")
  /\ served' = [s \in Stores |-> None]
  /\ servedAt' = [s \in Stores |-> 0]

\* Mutations of BootstrapConfigs: the file is imported whether or not there is
\* a row, or a row that is there is taken for an error.
BootstrapConfigs_Always ==
  /\ At("templates")
  /\ \/ /\ file.templates # Bad
        /\ Save("templates", file.templates, Boot)
        /\ Go("load") /\ KeepCopies
     \/ file.templates = Bad /\ Exit /\ NoWrite /\ UNCHANGED faults
BootstrapConfigs_OnlyOnce ==
  /\ At("templates")
  /\ \/ /\ disk["templates"] = None /\ file.templates # Bad
        /\ Save("templates", file.templates, Boot)
        /\ Go("load") /\ KeepCopies
     \/ disk["templates"] # None /\ Exit /\ NoWrite /\ UNCHANGED faults

BootstrapConfigs ==
  /\ At("templates")
  /\ \/ /\ disk["templates"] # None
        /\ Go("load") /\ NoWrite /\ KeepCopies /\ UNCHANGED faults
     \/ /\ disk["templates"] = None /\ file.templates # Bad
        /\ Save("templates", file.templates, Boot)
        /\ Go("load") /\ KeepCopies
     \/ disk["templates"] = None /\ file.templates = Bad /\ Exit /\ NoWrite /\ UNCHANGED faults

BootstrapConfigsFails ==
  /\ At("templates") /\ Exit
  /\ \/ Fault /\ NoWrite
     \/ /\ disk["templates"] = None /\ file.templates # Bad
        /\ SaveFails("templates", file.templates, Boot)

LoadTemplateSet ==
  /\ At("load") /\ Go("headers")
  /\ Serve("templates", disk["templates"], Len(commits["templates"]))
  /\ NoWrite /\ UNCHANGED faults

LoadTemplateSetFails == At("load") /\ Exit /\ Fault /\ NoWrite

LoadHeaderStore ==
  /\ At("headers") /\ Go("import")
  /\ Serve("headers", IF disk["headers"] = None THEN NoOverrides ELSE disk["headers"],
           Len(commits["headers"]))
  /\ NoWrite /\ UNCHANGED faults

\* The error is logged; without a store the next two steps of main do nothing.
LoadHeaderStoreFails ==
  /\ At("headers") /\ Go("serving")
  /\ Fault /\ NoWrite /\ KeepCopies

\* Mutation of SaveHeaders: the row is written and the copy forgotten.
SaveHeaders_RowOnly(v) == Save("headers", v, Boot) /\ KeepCopies

\* SaveSet of the header store: the row, then the copy.
SaveHeaders(v) ==
  /\ Save("headers", v, Boot)
  /\ Serve("headers", v, Len(commits'["headers"]))

\* Mutation of Imported: a missing file is not an empty set of overrides.
Imported_AsIs == file.headers

Imported == IF file.headers = None THEN NoOverrides ELSE file.headers

BootstrapHeaders ==
  /\ At("import") /\ Go("ensure")
  /\ \/ /\ disk["headers"] # None \/ file.headers = Bad
        /\ NoWrite /\ KeepCopies /\ UNCHANGED faults
     \/ /\ disk["headers"] = None /\ file.headers # Bad
        /\ SaveHeaders(Imported)

\* Its errors are logged and the start goes on.
BootstrapHeadersFails ==
  /\ At("import") /\ Go("ensure") /\ KeepCopies
  /\ \/ Fault /\ NoWrite
     \/ /\ disk["headers"] = None /\ file.headers # Bad
        /\ SaveFails("headers", Imported, Boot)

Completed(set) == [set EXCEPT !.mihomo = set.xray]

\* Mutation of EnsureMihomoOverrides: the overrides are completed whether or
\* not there are some for Mihomo.
EnsureMihomoOverrides_Always ==
  /\ At("ensure") /\ Go("serving")
  /\ SaveHeaders(Completed(served["headers"]))

EnsureMihomoOverrides ==
  /\ At("ensure") /\ Go("serving")
  /\ \/ /\ served["headers"].mihomo # Empty
        /\ NoWrite /\ KeepCopies /\ UNCHANGED faults
     \/ /\ served["headers"].mihomo = Empty
        /\ SaveHeaders(Completed(served["headers"]))

EnsureMihomoOverridesFails ==
  /\ At("ensure") /\ Exit
  /\ served["headers"].mihomo = Empty
  /\ SaveFails("headers", Completed(served["headers"]), Boot)

BootStep ==
  \/ Start \/ BootstrapConfigs \/ LoadTemplateSet
  \/ LoadHeaderStore \/ BootstrapHeaders \/ EnsureMihomoOverrides

BootFault ==
  \/ BootstrapConfigsFails \/ LoadTemplateSetFails \/ LoadHeaderStoreFails
  \/ BootstrapHeadersFails \/ EnsureMihomoOverridesFails

\* The process dies with the POSTs it is serving.
Crash ==
  /\ boot # "down" /\ Exit /\ Fault
  /\ post' = [r \in Requests |->
                IF post[r].at \in {"save", "apply"} THEN [post[r] EXCEPT !.at = "lost"]
                ELSE post[r]]
  /\ NoWrite /\ UNCHANGED <<file, before>>

-----------------------------------------------------------------------------
(* A POST of the admin API: handleSetConfigs, handleSetHeaders. *)

InFlight == {r \in Requests : post[r].at \in {"save", "apply"}}

\* The payload is decoded and parsed; a bad one changes nothing.
Post(r, s, v) ==
  /\ boot = "serving" /\ post[r].at = "new"
  /\ Cardinality(InFlight) < MaxInFlight
  /\ post' = [post EXCEPT ![r] =
       [at |-> IF served[s] = None THEN "failed" ELSE "save",
        store |-> s, value |-> v, commit |-> 0]]
  /\ before' = [before EXCEPT ![r] = {q \in Requests : post[q].at \in Ended}]
  /\ UNCHANGED <<file, disk, served, boot, faults, commits, servedAt>>

SaveRow(r) ==
  LET p == post[r] IN
  /\ p.at = "save"
  /\ Save(p.store, p.value, r)
  /\ post' = [post EXCEPT ![r].at = "apply", ![r].commit = Len(commits'[p.store])]
  /\ UNCHANGED <<file, served, boot, servedAt, before>>

\* Mutation of SaveRowFails: the copy is set although the write failed.
SaveRowFails_Served(r) ==
  LET p == post[r] IN
  /\ p.at = "save"
  /\ SaveFails(p.store, p.value, r)
  /\ Serve(p.store, p.value, Len(commits'[p.store]))
  /\ post' = [post EXCEPT ![r].at = "failed"]
  /\ UNCHANGED <<file, boot, before>>

\* The POST is answered with an error and the copy stays as it is.
SaveRowFails(r) ==
  LET p == post[r] IN
  /\ p.at = "save"
  /\ SaveFails(p.store, p.value, r)
  /\ post' = [post EXCEPT ![r].at = "failed"]
  /\ UNCHANGED <<file, served, boot, servedAt, before>>

\* Mutation of Apply: the POST is answered and the copy forgotten.
Apply_Forgotten(r) ==
  /\ post[r].at = "apply"
  /\ post' = [post EXCEPT ![r].at = "saved"]
  /\ KeepCopies /\ NoWrite /\ UNCHANGED <<file, boot, faults, before>>

\* SetTemplateSet, or the end of SaveSet; then the answer "saved".
Apply(r) ==
  LET p == post[r] IN
  /\ p.at = "apply"
  /\ Serve(p.store, p.value, p.commit)
  /\ post' = [post EXCEPT ![r].at = "saved"]
  /\ NoWrite /\ UNCHANGED <<file, boot, faults, before>>

PostStep(r) == SaveRow(r) \/ Apply(r)

Next ==
  \/ BootStep
  \/ BootFault
  \/ Crash
  \/ \E r \in Requests :
       \/ \E s \in Stores : \E v \in Values(s) : Post(r, s, v)
       \/ PostStep(r)
       \/ SaveRowFails(r)

Spec == Init /\ [][Next]_vars

\* The process is started again whenever it stopped, and its start goes on.
Fairness == WF_vars(BootStep)
FairSpec == Spec /\ Fairness

-----------------------------------------------------------------------------
(* Properties *)

\* Every variable has its type.
TypeOK ==
  /\ file \in [templates : Libraries \union {Bad}, headers : HeaderSets \union {None, Bad}]
  /\ DOMAIN disk = Stores /\ DOMAIN served = Stores
  /\ DOMAIN commits = Stores
  /\ \A s \in Stores :
       /\ disk[s] \in Values(s) \union {None}
       /\ served[s] \in Values(s) \union {None}
       /\ commits[s] \in Seq([by : Requests \union {Boot}, value : Values(s)])
  /\ boot \in Steps
  /\ post \in [Requests -> Posts]
  /\ \A r \in Requests : post[r].at # "new" => post[r].value \in Values(post[r].store)
  /\ before \in [Requests -> SUBSET Requests]
  /\ faults \in 0..MaxFaults
  /\ servedAt \in [Stores -> Nat]

\* Nothing is served that SQLite has not held: whatever a subscriber or the
\* administrator has seen is in the database, or was replaced there by a later
\* write, so no crash takes it back (server.go saves at 221 before it sets at
\* 229, headers.go at 125 before 129).
WriteAhead ==
  boot = "serving" =>
    \A s \in Stores :
      served[s] # None =>
        /\ servedAt[s] \in 1..Len(commits[s])
        /\ commits[s][servedAt[s]].value = served[s]

Author(s) == commits[s][servedAt[s]].by

\* A saved library survives restarts: what is served is what an administrator
\* saved, in a POST that had not ended before the last acknowledged one began.
\* No start brings the templates of configs/default.json, or an older library,
\* back.
TemplatesSurvive ==
  boot = "serving" =>
    \A r \in Requests :
      post[r].at = "saved" /\ post[r].store = "templates" =>
        \E w \in Requests \ before[r] :
          post[w].store = "templates" /\ post[w].value = served["templates"]

\* The bootstrap file fills a missing row only: no start overwrites templates
\* that are in the database.
BootstrapsOnce ==
  \A i \in 2..Len(commits["templates"]) : commits["templates"][i].by # Boot

\* Header overrides survive as they were saved, but for one change: a start
\* may have given the Xray overrides to a Mihomo set that was empty.
HeadersSurviveCompletion ==
  boot = "serving" /\ served["headers"] # None =>
    \A r \in Requests :
      post[r].at = "saved" /\ post[r].store = "headers" =>
        \E w \in Requests \ before[r] :
          /\ post[w].store = "headers"
          /\ \/ served["headers"] = post[w].value
             \/ post[w].value.mihomo = Empty /\ served["headers"] = Completed(post[w].value)

\* When no POST is in flight, what is served is what SQLite holds: the store
\* keeps the overrides in memory and persists them (headers.go:20).
ServedIsPersisted ==
  boot = "serving" /\ InFlight = {} =>
    \A s \in Stores : served[s] # None => served[s] = disk[s]

Overlap(q, r) == q \notin before[r] /\ r \notin before[q]

\* Memory and SQLite part in two ways only: the row is from a POST that was
\* answered with an error, or row and copy are from two POSTs that were served
\* at once.  Saves that follow one another, starts and crashes, failed imports
\* and completions among them, leave the two equal.
OnlyRacesDiverge ==
  boot = "serving" /\ InFlight = {} =>
    \A s \in Stores :
      served[s] # None /\ served[s] # disk[s] =>
        LET q == commits[s][Len(commits[s])].by IN
        /\ q \in Requests
        /\ \/ post[q].at = "failed"
           \/ Author(s) \in Requests /\ Overlap(q, Author(s))

\* A start that reaches the listener serves the newest row of each setting.
StartServesNewest ==
  [][boot # "serving" /\ boot' = "serving" =>
       \A s \in Stores : served'[s] # None => served'[s] = disk'[s]]_vars

-----------------------------------------------------------------------------
(* The inductive invariant behind WriteAhead and StartServesNewest.         *)

\* A row holds the value of the last write to it.
RowsAreLogged ==
  \A s \in Stores :
    IF disk[s] = None THEN commits[s] = <<>>
    ELSE /\ Len(commits[s]) > 0
         /\ disk[s] = commits[s][Len(commits[s])].value

\* A POST runs in a process that serves; between its two writes its value is
\* in the log.
PostsAreLogged ==
  \A r \in Requests :
    LET p == post[r] IN
    /\ p.at \in {"save", "apply"} => boot = "serving"
    /\ p.at = "apply" => /\ p.commit \in 1..Len(commits[p.store])
                        /\ commits[p.store][p.commit].value = p.value

IsLogged(s) ==
  /\ servedAt[s] \in 1..Len(commits[s])
  /\ commits[s][servedAt[s]].value = served[s]

\* How far each copy has been loaded, step by step of the start.
CopiesAreLogged ==
  /\ boot = "load" => disk["templates"] # None
  /\ boot \in {"headers", "import", "ensure", "serving"} => IsLogged("templates")
  /\ boot \in {"headers", "import", "ensure"} => served["templates"] = disk["templates"]
  /\ boot \in {"import", "ensure"} =>
       /\ served["headers"] \in HeaderSets
       /\ served["headers"] = NoOverrides \/ IsLogged("headers")
       /\ served["headers"].mihomo # Empty => served["headers"] = disk["headers"]
  /\ boot \notin {"import", "ensure", "serving"} => served["headers"] = None
  /\ boot = "serving" => served["headers"] = None \/ IsLogged("headers")

IndInv == TypeOK /\ RowsAreLogged /\ PostsAreLogged /\ CopiesAreLogged

-----------------------------------------------------------------------------
(* The inductive invariant behind TemplatesSurvive, HeadersSurviveCompletion *)
(* and OnlyRacesDiverge: who wrote an entry of the log, and when.            *)

Writer(s, i) == commits[s][i].by

\* An entry that a POST wrote holds the value of the POST, which writes once.
EntriesNamePosts ==
  \A s \in Stores : \A i \in 1..Len(commits[s]) :
    LET q == Writer(s, i) IN
    q # Boot =>
      /\ post[q].store = s /\ post[q].value = commits[s][i].value
      /\ post[q].at \notin {"new", "save"}
      /\ post[q].at \in {"apply", "saved"} => post[q].commit = i

\* A POST that has written its row has an entry.
RowsNamePosts ==
  \A r \in Requests :
    LET p == post[r] IN
    p.at \in {"apply", "saved"} =>
      /\ p.commit \in 1..Len(commits[p.store])
      /\ Writer(p.store, p.commit) = r

BeforeHaveEnded ==
  \A r \in Requests : \A q \in before[r] : q # r /\ post[q].at \in Ended

\* What was over before a POST began was written before it.
WritesInOrder ==
  \A s \in Stores : \A i, j \in 1..Len(commits[s]) :
    i <= j /\ Writer(s, i) # Boot => Writer(s, j) \notin before[Writer(s, i)]

\* Entry i goes back to a POST's entry k: since then only starts have written,
\* and changed no more than a start may.
StemsFrom(s, i, k) ==
  LET v == commits[s][k].value
      w == commits[s][i].value
  IN
  /\ k \in 1..i /\ Writer(s, k) # Boot
  /\ \A j \in (k + 1)..i : Writer(s, j) = Boot
  /\ \/ w = v
     \/ s = "headers" /\ v.mihomo = Empty /\ w = Completed(v)

OnlyStarts(s) == \A i \in 1..Len(commits[s]) : Writer(s, i) = Boot

EntriesStem ==
  \A s \in Stores : \A i \in 1..Len(commits[s]) :
    \/ \A j \in 1..i : Writer(s, j) = Boot
    \/ \E k \in 1..i : StemsFrom(s, i, k)

\* Since a POST that is still served wrote its row, only POSTs of this run of
\* the process have written that row.
OnlyPostsSince ==
  \A r \in Requests :
    LET p == post[r] IN
    p.at = "apply" =>
      \A i \in p.commit..Len(commits[p.store]) :
        Writer(p.store, i) # Boot /\ post[Writer(p.store, i)].at # "lost"

LogInv ==
  /\ EntriesNamePosts /\ RowsNamePosts /\ BeforeHaveEnded
  /\ WritesInOrder /\ EntriesStem /\ OnlyPostsSince

\* A copy goes back to a POST that was not over before an acknowledged one began.
CopyIsNew(s) ==
  served[s] # None =>
    \A r \in Requests :
      post[r].at = "saved" /\ post[r].store = s =>
        \E k \in 1..servedAt[s] :
          StemsFrom(s, servedAt[s], k) /\ Writer(s, k) \notin before[r]

CopiesAreNew == \A s \in Stores : CopyIsNew(s) /\ servedAt[s] <= Len(commits[s])

IsNewest(s) == servedAt[s] = Len(commits[s])

\* Until the listener is reached a copy is the newest row, or the empty
\* overrides of a start that could not import any.
StartsLoadNewest ==
  /\ boot \in {"headers", "import", "ensure"} => IsNewest("templates")
  /\ boot \in {"import", "ensure"} =>
       \/ IsNewest("headers") /\ (disk["headers"] # None => served["headers"] = disk["headers"])
       \/ boot = "ensure" /\ OnlyStarts("headers") /\ served["headers"] = NoOverrides

\* Once requests are served, a row newer than the copy is a POST's of this run of
\* the process; if the newer row's POST was answered "saved", so is the copy a POST's.
RaceIsNamed(s) ==
  served[s] # None =>
    /\ \/ IsNewest(s)
       \/ LET q == Writer(s, Len(commits[s])) IN q # Boot /\ post[q].at # "lost"
    /\ \A r \in Requests :
         post[r].at = "saved" /\ post[r].store = s /\ servedAt[s] < post[r].commit =>
           Writer(s, servedAt[s]) # Boot

RacesAreNamed == boot = "serving" => \A s \in Stores : RaceIsNamed(s)

CopiesInv == CopiesAreNew /\ StartsLoadNewest /\ RacesAreNamed

HistoryInv == LogInv /\ CopiesInv

-----------------------------------------------------------------------------
(* Liveness *)

\* Unless its bootstrap file is unusable the process serves again after every
\* crash and failed start, as long as faults do not go on for ever.
ServesAgain == file.templates # Bad => []<>(boot = "serving")
=============================================================================
