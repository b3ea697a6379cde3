------------------------------ MODULE AdminPage -----------------------------
(***************************************************************************)
(* The config editor of the admin page (admin/app.js) and the requests of  *)
(* its POSTs, which save the whole template library (internal/admin).      *)
(*                                                                         *)
(* The page keeps a copy of every scope's list of configs, an index into   *)
(* the list on show, an editor and a modal with a text of its own.  It     *)
(* changes the copy first and then posts all of it; answers arrive in any  *)
(* order while the administrator goes on, unless he is Patient.            *)
(*                                                                         *)
(* A config is known by its identity, kept when it is saved again; what is *)
(* in the editor by the identity of the config it was taken from.  One page*)
(* is open, it is not used while it is being loaded, and not reloaded      *)
(* while a POST is under way; AdminState has POSTs of several pages.       *)
(***************************************************************************)
EXTENDS Integers, Sequences, SequencesExt

CONSTANTS
  Xray, Mihomo, \* kinds of clients
  Squads,       \* squads of the panel
  Default,      \* the scope of users without a template of their squad
  Texts,        \* bodies of configs
  NoName,       \* a config without a remark
  Given,        \* a name the administrator wrote
  Libraries,    \* templates that may be in the database at first
  FirstConfigs, \* number of configs in them
  Slots,        \* bound: POSTs under way at once
  MaxConfigs,   \* bound: configs ever made
  MaxLength,    \* bound: a list of this length gets no more configs
  Patient       \* the administrator waits for the answer of each POST

Cores == {Xray, Mihomo}
Scope == Cores \X (Squads \union {Default})
Names == {NoName, Given} \union Nat      \* n stands for "config-n"
Config == [id : Nat \ {0}, text : Texts, name : Names]

IsSets(x) ==
  /\ DOMAIN x \subseteq Scope /\ Cores \X {Default} \subseteq DOMAIN x
  /\ \A scope \in DOMAIN x : x[scope] \in Seq(Config)

ASSUME PageAssumption ==
  /\ Default \notin Squads /\ Xray # Mihomo /\ Patient \in BOOLEAN
  /\ NoName \notin Nat /\ Given \notin Nat /\ NoName # Given
  /\ FirstConfigs \in Nat /\ MaxConfigs \in Nat /\ MaxLength \in Nat
  /\ \A lib \in Libraries : IsSets(lib)

\* The configs of a list are different ones, among the first n that were made.
Own(list, n) ==
  \A i \in DOMAIN list :
    list[i].id <= n /\ \A j \in DOMAIN list : i # j => list[i].id # list[j].id
Counted(x, n) == \A s \in DOMAIN x : Own(x[s], n)

\* Identities are given by this model: each config of a first list has its own.
ASSUME IdentityAssumption == \A lib \in Libraries : Counted(lib, FirstConfigs)

VARIABLES
  saved,        \* the server's library
  page,         \* "loading", "ready", or "blank" if the configs could not be loaded
  known,        \* squads the page got from the panel
  sets,         \* state.configSets
  scope,        \* <<state.currentCore, state.currentSquad>>
  index,        \* state.currentConfigIndex, counted from 1, or 0 for null
  draft,        \* config whose text is in the editor, or 0
  modalOpen,
  modalDraft,   \* config whose text is in the modal, or 0
  requests,     \* POSTs under way
  made,         \* number of configs ever made
  edited,       \* scopes whose configs were changed on this page
  unsaved       \* configs were changed after the last POST that was answered as saved

vars == <<saved, page, known, sets, scope, index, draft, modalOpen, modalDraft,
          requests, made, edited, unsaved>>
editor == <<index, draft, modalOpen, modalDraft>>

Idle == [kind |-> "idle", body |-> [s \in {} |-> <<>>], step |-> "idle"]
UnderWay == {r \in Slots : requests[r] # Idle}

\* The list of a scope; none is the same as an empty one.
ConfigsOf(x, s) == IF s \in DOMAIN x THEN x[s] ELSE <<>>

\* getCurrentConfigList makes an empty list where it finds none.
WithList(x, s) == [t \in DOMAIN x \union {s} |-> ConfigsOf(x, t)]

NoConfigs == [s \in Cores \X {Default} |-> <<>>]

Init ==
  /\ saved \in Libraries
  /\ page = "loading" /\ known = {} /\ sets = NoConfigs
  /\ scope = <<Xray, Default>>
  /\ index = 0 /\ draft = 0 /\ modalOpen = FALSE /\ modalDraft = 0
  /\ requests = [r \in Slots |-> Idle]
  /\ made = FirstConfigs /\ edited = {} /\ unsaved = FALSE

-----------------------------------------------------------------------------
(* Loading the page. *)

\* Configs without a name get one from their position.
Named(list) ==
  [i \in DOMAIN list |->
     IF list[i].name = NoName THEN [list[i] EXCEPT !.name = i] ELSE list[i]]

\* What is saved of a POST, and what a GET shows of it: names are made up in the
\* POST, for Mihomo (there "entry-n") in the GET already.
AllNamed(x) == [s \in DOMAIN x |-> Named(x[s])]
Shown(x) == [s \in DOMAIN x |-> IF s[1] = Mihomo THEN Named(x[s]) ELSE x[s]]

\* The squads, none if the panel fails, then the configs.
Load ==
  /\ page = "loading"
  /\ page' = "ready"
  /\ known' \in SUBSET Squads
  /\ sets' = Shown(saved)
  /\ index' = 0 /\ draft' = 0
  /\ UNCHANGED <<saved, scope, modalOpen, modalDraft, requests, made, edited, unsaved>>

\* The page goes on without configs if their request fails.
LoadFails ==
  /\ page = "loading"
  /\ page' = "blank"
  /\ known' \in SUBSET Squads
  /\ UNCHANGED <<saved, sets, scope, editor, requests, made, edited, unsaved>>

Reload ==
  /\ page # "loading" /\ UnderWay = {}
  /\ page' = "loading" /\ known' = {} /\ sets' = NoConfigs
  /\ scope' = <<Xray, Default>>
  /\ index' = 0 /\ draft' = 0 /\ modalOpen' = FALSE /\ modalDraft' = 0
  /\ edited' = {} /\ unsaved' = FALSE
  /\ UNCHANGED <<saved, requests, made>>

-----------------------------------------------------------------------------
(* Moving about on the page. *)

Uses == page # "loading" /\ (Patient => UnderWay = {})
UsesPanel == Uses /\ ~modalOpen      \* the modal covers the rest of the page

List == sets[scope]

ClearConfigEditor == index' = 0 /\ draft' = 0 /\ UNCHANGED <<modalOpen, modalDraft>>

\* selectCore and selectSquad: the list that comes on show is made if need be.
Show(s) ==
  /\ UsesPanel /\ s # scope
  /\ scope' = s
  /\ sets' = WithList(sets, s)
  /\ ClearConfigEditor
  /\ UNCHANGED <<saved, page, known, requests, made, edited, unsaved>>

SelectCore(c) == Show(<<c, scope[2]>>)
SelectSquad(s) == s \in known \union {Default} /\ Show(<<scope[1], s>>)

SelectConfig(i) ==
  /\ UsesPanel
  /\ index' = i /\ draft' = List[i].id
  /\ UNCHANGED <<modalOpen, modalDraft, saved, page, known, sets, scope, requests, made, edited, unsaved>>

NewConfig ==
  /\ UsesPanel
  /\ ClearConfigEditor
  /\ UNCHANGED <<saved, page, known, sets, scope, requests, made, edited, unsaved>>

OpenModal ==
  /\ UsesPanel
  /\ modalOpen' = TRUE /\ modalDraft' = draft
  /\ UNCHANGED <<index, draft, saved, page, known, sets, scope, requests, made, edited, unsaved>>

CloseModal ==
  /\ Uses /\ modalOpen
  /\ modalOpen' = FALSE /\ draft' = modalDraft
  /\ UNCHANGED <<index, modalDraft, saved, page, known, sets, scope, requests, made, edited, unsaved>>

-----------------------------------------------------------------------------
(* Changing the configs: the copy first, then the server. *)

\* Mutation of MovedIndex: the index stays where it was.
MovedIndex_Stays(current, from, to) == current

\* The open config stays open when configs are moved.
MovedIndex(current, from, to) ==
  CASE current = from -> to
    [] from < current /\ current <= to -> current - 1
    [] to <= current /\ current < from -> current + 1
    [] OTHER -> current

Moved(list, from, to) == InsertAt(RemoveAt(list, from), to, list[from])

MoveConfigItem(from, to) ==
  /\ UsesPanel /\ from # to
  /\ sets' = [sets EXCEPT ![scope] = Moved(List, from, to)]
  /\ index' = IF index = 0 THEN 0 ELSE MovedIndex(index, from, to)
  /\ edited' = edited \union {scope} /\ unsaved' = TRUE
  /\ UNCHANGED <<draft, modalOpen, modalDraft, saved, page, known, scope, requests, made>>

\* Mutation of BuildConfigPayload: only what is on show is sent.
BuildConfigPayload_Shown(x) == [s \in DOMAIN x |-> IF s = scope THEN x[s] ELSE <<>>]

BuildConfigPayload(x) == x

Send(kind, body) ==
  \E r \in Slots :
    /\ requests[r] = Idle
    /\ requests' = [requests EXCEPT ![r] = [kind |-> kind, body |-> BuildConfigPayload(body), step |-> "sent"]]

\* Mutation of Put: what is saved goes to the end of the list.
Put_Append(list, i, config) == Append(list, config)

\* The config on show is replaced, or a new one added.
Put(list, i, config) ==
  IF i = 0 THEN Append(list, config) ELSE [list EXCEPT ![i] = config]

\* The text is that of the config `from`, or a new one.
SaveConfigEntry(from, text) ==
  LET id == IF from = 0 THEN made + 1 ELSE from IN
  /\ id <= MaxConfigs /\ (index = 0 => Len(List) < MaxLength)
  /\ sets' = [sets EXCEPT ![scope] = Put(List, index, [id |-> id, text |-> text, name |-> Given])]
  /\ index' = IF index = 0 THEN Len(List) + 1 ELSE index
  /\ draft' = id
  /\ made' = IF from = 0 THEN id ELSE made
  /\ edited' = edited \union {scope} /\ unsaved' = TRUE
  /\ Send("save", sets')

SaveInPanel(text) ==
  /\ UsesPanel
  /\ SaveConfigEntry(draft, text)
  /\ UNCHANGED <<modalOpen, modalDraft, saved, page, known, scope>>

ModalSaveConfig(text) ==
  /\ Uses /\ modalOpen
  /\ SaveConfigEntry(modalDraft, text)
  /\ modalDraft' = draft'
  /\ UNCHANGED <<modalOpen, saved, page, known, scope>>

\* Mutation of DeleteConfigEntry: the POST is made before the config is removed.
DeleteConfigEntry_Late(kind) ==
  /\ index # 0
  /\ sets' = [sets EXCEPT ![scope] = RemoveAt(List, index)]
  /\ index' = 0
  /\ edited' = edited \union {scope} /\ unsaved' = TRUE
  /\ Send(kind, sets)
  /\ UNCHANGED <<draft, modalOpen, modalDraft, saved, page, known, scope, made>>

\* Mutation of DeleteConfigEntry: the index stays.
DeleteConfigEntry_KeepsIndex(kind) ==
  /\ index # 0
  /\ sets' = [sets EXCEPT ![scope] = RemoveAt(List, index)]
  /\ index' = index
  /\ edited' = edited \union {scope} /\ unsaved' = TRUE
  /\ Send(kind, sets')
  /\ UNCHANGED <<draft, modalOpen, modalDraft, saved, page, known, scope, made>>

DeleteConfigEntry(kind) ==
  /\ index # 0
  /\ sets' = [sets EXCEPT ![scope] = RemoveAt(List, index)]
  /\ index' = 0
  /\ edited' = edited \union {scope} /\ unsaved' = TRUE
  /\ Send(kind, sets')
  /\ UNCHANGED <<draft, modalOpen, modalDraft, saved, page, known, scope, made>>

DeleteInPanel == UsesPanel /\ DeleteConfigEntry("delete")
ModalDeleteConfig == Uses /\ modalOpen /\ DeleteConfigEntry("modalDelete")

-----------------------------------------------------------------------------
(* The POSTs. *)

Step(r, step) == requests' = [requests EXCEPT ![r].step = step]

\* handleSetConfigs; see AdminState for the steps of the save itself.
Apply(r) ==
  /\ requests[r].step = "sent"
  /\ saved' = AllNamed(requests[r].body)
  /\ Step(r, "applied")
  /\ UNCHANGED <<page, known, sets, scope, editor, made, edited, unsaved>>

\* The POST, or its answer, fails.
Fail(r) ==
  /\ requests[r].step \in {"sent", "applied"}
  /\ Step(r, "failed")
  /\ UNCHANGED <<saved, page, known, sets, scope, editor, made, edited, unsaved>>

Done(r) == requests' = [requests EXCEPT ![r] = Idle]

SaveAnswered(r) ==
  /\ requests[r].kind = "save" /\ requests[r].step \in {"applied", "failed"}
  /\ unsaved' = (unsaved /\ requests[r].step # "applied")
  /\ Done(r)
  /\ UNCHANGED <<saved, page, known, sets, scope, editor, made, edited>>

DeleteAnswered(r) ==
  LET ok == requests[r].step = "applied" IN
  /\ requests[r].kind \in {"delete", "modalDelete"} /\ requests[r].step \in {"applied", "failed"}
  /\ unsaved' = (unsaved /\ ~ok)
  /\ index' = IF ok THEN 0 ELSE index
  /\ IF requests[r].kind = "modalDelete"
       THEN draft' = modalDraft /\ modalOpen' = FALSE
       ELSE draft' = (IF ok THEN 0 ELSE draft) /\ modalOpen' = modalOpen
  /\ Done(r)
  /\ UNCHANGED <<modalDraft, saved, page, known, sets, scope, made, edited>>

Next ==
  \/ Load \/ LoadFails \/ Reload
  \/ \E c \in Cores : SelectCore(c)
  \/ \E s \in Squads \union {Default} : SelectSquad(s)
  \/ \E i \in DOMAIN List : SelectConfig(i)
  \/ NewConfig \/ OpenModal \/ CloseModal
  \/ \E from, to \in DOMAIN List : MoveConfigItem(from, to)
  \/ \E text \in Texts : SaveInPanel(text)
  \/ \E text \in Texts : ModalSaveConfig(text)
  \/ DeleteInPanel \/ ModalDeleteConfig
  \/ \E r \in Slots : Apply(r) \/ Fail(r) \/ SaveAnswered(r) \/ DeleteAnswered(r)

Spec == Init /\ [][Next]_vars

-----------------------------------------------------------------------------
(* Properties *)

\* POSTs under way carry libraries.
RequestsOK ==
  /\ DOMAIN requests = Slots
  /\ \A r \in UnderWay :
       /\ DOMAIN requests[r] = DOMAIN Idle
       /\ requests[r].kind \in {"save", "delete", "modalDelete"}
       /\ requests[r].step \in {"sent", "applied", "failed"}
       /\ IsSets(requests[r].body)

\* Types of the variables; the list on show exists and the index is in it.
TypeOK ==
  /\ IsSets(saved) /\ IsSets(sets)
  /\ page \in {"loading", "ready", "blank"} /\ known \subseteq Squads
  /\ scope \in DOMAIN sets
  /\ index \in 0..Len(List)
  /\ draft \in Nat /\ modalDraft \in Nat /\ modalOpen \in BOOLEAN
  /\ made \in Nat /\ edited \subseteq Scope /\ unsaved \in BOOLEAN
  /\ RequestsOK

\* What is in the editor, and in the modal while it is open, is the config that
\* a save will replace: the page calls it "being edited now" (app.js:329).  It has
\* to hold through moves, deletes that fail and answers that come late.
OpenIsEdited ==
  index # 0 => /\ draft = List[index].id
               /\ modalOpen => modalDraft = List[index].id

\* Saving a config again never makes a second one of it (app.js:1086-1092).
NoTwins ==
  \A s \in DOMAIN sets : \A i, j \in DOMAIN sets[s] :
    i # j => sets[s][i].id # sets[s][j].id

\* Every POST carries the whole library, but changes only scopes whose configs were
\* changed on the page (app.js:764-774, server.go:192-239); of the rest it names
\* the configs that have no name.  A page that could not load the configs deletes
\* them all with its first POST; the code does not guard against that (app.js:1136).
SameButNames(new, old) == new = old \/ new = Named(old)
KeepsTheRest ==
  [][page # "blank" => \A s \in Scope \ edited :
       SameButNames(ConfigsOf(saved', s), ConfigsOf(saved, s))]_vars

\* If nothing was changed since a POST was answered as saved, the server has what
\* the page shows, also after POSTs that failed or whose answers were lost
\* (app.js:1094-1106, 1117-1127).
AnsweredIsSaved ==
  UnderWay = {} /\ page # "loading" /\ edited # {} /\ ~unsaved =>
    \A s \in Scope : ConfigsOf(saved, s) = Named(ConfigsOf(sets, s))

\* README.md:179-181: users of a squad without a template get the default.  But
\* SelectTemplate looks for the squad, not for configs of it (templateset.go:76-83),
\* and a list that was only looked at is saved with the rest.
SelectTemplate(s) == IF s \in DOMAIN saved THEN saved[s] ELSE saved[<<s[1], Default>>]
DefaultWithoutTemplate ==
  \A s \in Scope : ConfigsOf(saved, s) = <<>> => SelectTemplate(s) = saved[<<s[1], Default>>]

-----------------------------------------------------------------------------
(* What holds in every state. *)

\* A page that is being loaded has changed nothing, and nothing is under way.
LoadingIsQuiet == page = "loading" =>
  UnderWay = {} /\ edited = {} /\ index = 0 /\ scope = <<Xray, Default>>

\* Of the scopes that were not changed, a loaded page and the POSTs under way have the
\* configs of the server.
HasTheRest(x) == \A s \in Scope \ edited : Named(ConfigsOf(x, s)) = Named(ConfigsOf(saved, s))
RestAgrees ==
  /\ page = "ready" => HasTheRest(sets)
  /\ page = "ready" => \A r \in UnderWay : HasTheRest(requests[r].body)

\* Nothing is open while a delete is under way.
DeletesClose == \A r \in UnderWay : requests[r].kind # "save" => index = 0

\* The inductive invariant.
IndInv == TypeOK /\ LoadingIsQuiet /\ RestAgrees /\ (Patient => OpenIsEdited /\ DeletesClose)

-----------------------------------------------------------------------------
(* The inductive invariants behind NoTwins and AnsweredIsSaved, which hold  *)
(* for an administrator who waits for the answers.                          *)

Holds(list, id) == \E i \in DOMAIN list : list[i].id = id

\* A config that a save would add is not in the list on show.
AddsNoTwin(id) == index = 0 /\ id # 0 => ~Holds(List, id)

IdentityInv ==
  /\ Counted(sets, made) /\ Counted(saved, made)
  /\ \A r \in UnderWay : /\ Counted(requests[r].body, made)
                         /\ requests[r].kind = "modalDelete" => modalOpen
  /\ draft <= made /\ modalDraft <= made
  /\ page = "loading" => draft = 0 /\ ~modalOpen
  /\ AddsNoTwin(draft)
  /\ modalOpen => AddsNoTwin(modalDraft)

SameConfigs(x, y) == \A s \in Scope : ConfigsOf(x, s) = ConfigsOf(y, s)
ServerHas(x) == \A s \in Scope : ConfigsOf(saved, s) = Named(ConfigsOf(x, s))

\* One POST at most is under way, with what is on the page; once it was applied
\* the server has that.
SavingInv ==
  /\ \A q, r \in UnderWay : q = r
  /\ \A r \in UnderWay :
       /\ unsaved /\ SameConfigs(requests[r].body, sets)
       /\ requests[r].step = "applied" => ServerHas(sets)
  /\ AnsweredIsSaved

PatientInv == Patient => IdentityInv /\ SavingInv
=============================================================================
