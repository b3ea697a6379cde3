----------------------------- MODULE HeaderEditor -----------------------------
(***************************************************************************)
(* The header editor of the admin page (admin/app.js), what its POST saves *)
(* (internal/admin) and what a saved override makes of a user's header     *)
(* (internal/subscription).                                                *)
(*                                                                         *)
(* The page keeps a list of rows for every scope and the headers of one    *)
(* user it fetched last.  The administrator goes on while a fetch or a     *)
(* save is under way; answers come when they come, or do not.  He presses  *)
(* save once at a time, as AdminPage has saves that overtake each other,   *)
(* and has waited for the first load.                                      *)
(*                                                                         *)
(* A key is a header's name in some spelling; a userinfo with parameters   *)
(* is the function from parameters to numbers it parses to, where one      *)
(* without a number counts as missing.  Spaces around names and values,    *)
(* which both ends trim, are left out.                                     *)
(***************************************************************************)
EXTENDS Naturals, Sequences, SequencesExt, FiniteSets

CONSTANTS
  Cores, FirstCore,  \* kinds of clients; the one a new page shows
  Squads, Default,   \* squads of the panel; what stands in the place of one
  SquadLists,        \* lists of squads, in the panel's order, that a user may be in
  Keys, NoKey,  \* what may stand in a row's field for the name
  Name(_),    \* a key in lower case
  Userinfo,   \* the name subscription-userinfo
  Refused,    \* names that are not legal or the server's own: overrides of them are skipped
  Texts, Blank,  \* values without parameters; an empty value
  Params, Shown,  \* parameters a userinfo may have; those the page knows (USERINFO_KEYS)
  Numbers,    \* what they may be
  Illegal,    \* texts and numbers with a control character
  NoParams,   \* a row without a list of parameters
  Users,      \* headers of users the panel may send
  Libraries,  \* overrides that may be saved at first
  MaxActs,    \* bound: edits, fetches and saves of the administrator
  MaxLength   \* bound: a list of this length gets no new row

Scopes == Cores \X (Squads \union {Default})
FirstScope == <<FirstCore, Default>>

Empty == [x \in {} |-> {}]
Infos == {f \in UNION {[D -> Numbers] : D \in SUBSET Params} : f # Empty}
Values == Texts \union Infos \union {Blank}

Param(modes) == [mode : modes, value : Numbers \union {Blank}]
ParamSets(modes) == UNION {[D -> Param(modes)] : D \in SUBSET Params}
Modes == {"actual", "custom", "remove"}
Override == [mode : Modes, value : Values, params : ParamSets(Modes)]
Row == [key : Keys \union {NoKey}, mode : {"actual", "custom"}, value : Values,
        params : ParamSets({"actual", "custom"}) \union {NoParams}]

\* sanitizeHeaderValue, of a value that was trimmed.
Legal(v) == IF v \in Infos THEN \A p \in DOMAIN v : v[p] \notin Illegal ELSE v \notin Illegal \union {Blank}
Cleaned(v) == IF Legal(v) THEN v ELSE Blank

IsSaved(x) ==
  /\ DOMAIN x = Scopes
  /\ \A s \in Scopes :
       /\ DOMAIN x[s] \subseteq Keys /\ IsFiniteSet(DOMAIN x[s])
       /\ \A k \in DOMAIN x[s] : x[s][k] \in Override

ASSUME EditorAssumption ==
  /\ Blank \notin Texts \union Infos \union Numbers /\ NoKey \notin Keys
  /\ Shown \subseteq Params /\ Shown # {} /\ Userinfo \notin Refused
  /\ NoParams \notin ParamSets(Modes)
  /\ FirstCore \in Cores /\ SquadLists \subseteq Seq(Squads)
  /\ MaxActs \in Nat /\ MaxLength \in Nat
  /\ \A u \in Users : DOMAIN u \subseteq Keys /\ IsFiniteSet(DOMAIN u)
  /\ \A u \in Users : \A k \in DOMAIN u : u[k] \in Values /\ Legal(u[k]) /\ Name(k) \notin Refused
  /\ \A u \in Users : \A j, k \in DOMAIN u : Name(j) = Name(k) => j = k
  /\ \A lib \in Libraries : IsSaved(lib)

VARIABLES
  saved,     \* the overrides the server has
  lists,     \* state.headerSets
  scope,     \* state.currentCore and state.currentSquad
  actual,    \* state.actualHeaders
  fetching,  \* a fetch is under way
  post,      \* the save under way: its body, the keys touched before, an edit after
  touched,   \* keys of rows the administrator edited since they were loaded
  acts       \* how much he did

vars == <<saved, lists, scope, actual, fetching, post, touched, acts>>

NoPost == [at |-> "none", body |-> Empty, touched |-> {}, late |-> FALSE]

-----------------------------------------------------------------------------
(* Values. *)

Parsed(v) == IF v \in Infos THEN v ELSE Empty
Text(info) == IF info = Empty THEN Blank ELSE info

\* getActualHeaderValue: names are compared in lower case.
ActualValue(headers, key) ==
  LET same == {k \in DOMAIN headers : Name(k) = Name(key)}
  IN IF key = NoKey \/ same = {} THEN Blank ELSE headers[CHOOSE k \in same : TRUE]

IsUserinfo(key) == key # NoKey /\ Name(key) = Userinfo

\* getActualUserinfoParams: without a fetched userinfo the row's own value serves.
ActualParams(row, headers) ==
  LET fetched == Parsed(ActualValue(headers, row.key))
  IN IF fetched = Empty THEN Parsed(row.value) ELSE fetched

\* buildUserinfoValue: a parameter the page does not know is left out.
Combined(params, info) ==
  LET Set(p) == IF params[p].mode = "actual" THEN p \in DOMAIN info ELSE params[p].value # Blank
  IN Text([p \in {p \in DOMAIN params \intersect Shown : Set(p)} |->
             IF params[p].mode = "actual" THEN info[p] ELSE params[p].value])

\* ensureUserinfoParams: parameters without a control get one.
Ensured(row, info) ==
  LET old == IF row.params = NoParams THEN Empty ELSE row.params
  IN [row EXCEPT !.params = [p \in DOMAIN old \union Shown |->
        IF p \in DOMAIN old THEN old[p]
        ELSE [mode |-> IF p \in DOMAIN info THEN "actual" ELSE "custom", value |-> Blank]]]

-----------------------------------------------------------------------------
(* From the server to the rows and back. *)

\* Mutation of NormalizeMode: every override comes to the page as custom.
NormalizeMode_Custom(mode) == "custom"

\* normalizeMode: the page knows no other modes than these two.
NormalizeMode(mode) == IF mode = "actual" THEN "actual" ELSE "custom"

\* loadHeaders, the row of one override.
RowOf(key, o) ==
  LET info == Parsed(o.value) IN
  [key |-> key, mode |-> NormalizeMode(o.mode), value |-> o.value,
   params |-> IF ~IsUserinfo(key) THEN NoParams
              ELSE IF o.params # Empty
                THEN [p \in DOMAIN o.params |-> [o.params[p] EXCEPT !.mode = NormalizeMode(@)]]
              ELSE IF o.value # Blank THEN [p \in DOMAIN info |-> [mode |-> "custom", value |-> info[p]]]
              ELSE NoParams]

\* The server sends its overrides in the order of their keys.
RowsOf(overrides) ==
  LET keys == SetToSeq(DOMAIN overrides) IN [i \in DOMAIN keys |-> RowOf(keys[i], overrides[keys[i]])]

\* renderHeaders, as far as it changes the rows of the scope on show.
Rendered(list, headers) ==
  [i \in DOMAIN list |->
     IF IsUserinfo(list[i].key) THEN Ensured(list[i], ActualParams(list[i], headers)) ELSE list[i]]

\* saveHeaders, the override of one row.
OverrideOf(row) ==
  IF IsUserinfo(row.key) /\ row.params # NoParams THEN
    LET combined == Combined(row.params, ActualParams(row, actual))
        params == [p \in DOMAIN row.params \intersect Shown |-> row.params[p]]
        someActual == \E p \in DOMAIN params : params[p].mode = "actual"
    IN [mode |-> "custom", params |-> params,
        value |-> IF combined = Blank /\ ~someActual THEN row.value ELSE combined]
  ELSE [mode |-> NormalizeMode(row.mode), params |-> Empty, value |-> row.value]

\* Of two rows with one key the later one counts.
Rules(list, key, i) == list[i].key = key /\ \A j \in (i + 1)..Len(list) : list[j].key # key
Ruling(list, key) == CHOOSE i \in DOMAIN list : Rules(list, key, i)

\* Mutation of Listed: rows without a name are sent, too.
Listed_All(list) == {list[i].key : i \in DOMAIN list}

\* Rows without a name are left out.
Listed(list) == {list[i].key : i \in DOMAIN list} \ {NoKey}

OverridesOf(list) == [k \in Listed(list) |-> OverrideOf(list[Ruling(list, k)])]

Init ==
  /\ saved \in Libraries
  /\ actual = Empty
  /\ scope = FirstScope
  /\ lists = [s \in Scopes |-> IF s = scope THEN Rendered(RowsOf(saved[s]), Empty) ELSE RowsOf(saved[s])]
  /\ fetching = FALSE /\ post = NoPost
  /\ touched = {} /\ acts = 0

-----------------------------------------------------------------------------
(* The administrator. *)

List == lists[scope]

\* selectCore, selectSquad
Show(s) ==
  /\ s # scope
  /\ scope' = s
  /\ lists' = [lists EXCEPT ![s] = Rendered(@, actual)]
  /\ UNCHANGED <<saved, actual, fetching, post, touched, acts>>

Acts == acts < MaxActs /\ acts' = acts + 1

Edits(list, keys) ==
  /\ Acts
  /\ lists' = [lists EXCEPT ![scope] = Rendered(list, actual)]
  /\ touched' = touched \union {<<scope, k>> : k \in keys \ {NoKey}}
  /\ post' = [post EXCEPT !.late = post # NoPost]
  /\ UNCHANGED <<saved, scope, actual, fetching>>

AddRow ==
  /\ Len(List) < MaxLength
  /\ Edits(Append(List, [key |-> NoKey, mode |-> "custom", value |-> Blank, params |-> NoParams]), {})

RemoveRow(i) == Edits(RemoveAt(List, i), {List[i].key})

TypeKey(i) ==
  \E k \in (Keys \union {NoKey}) \ {List[i].key} :
    Edits([List EXCEPT ![i].key = k], {k, List[i].key})

\* The controls of a userinfo are those of its parameters, of any other header
\* its own; the field for a value is locked while the mode is actual.
TypeValue(i) ==
  /\ ~IsUserinfo(List[i].key) /\ List[i].mode = "custom"
  /\ \E v \in (Texts \union {Blank}) \ {List[i].value} : Edits([List EXCEPT ![i].value = v], {List[i].key})

SwitchMode(i) ==
  /\ ~IsUserinfo(List[i].key)
  /\ \E m \in {"actual", "custom"} \ {List[i].mode} : Edits([List EXCEPT ![i].mode = m], {List[i].key})

TypeParam(i) ==
  /\ IsUserinfo(List[i].key)
  /\ \E p \in Shown, v \in Numbers \union {Blank} :
       /\ List[i].params[p].mode = "custom" /\ List[i].params[p].value # v
       /\ Edits([List EXCEPT ![i].params[p].value = v], {List[i].key})

SwitchParam(i) ==
  /\ IsUserinfo(List[i].key)
  /\ \E p \in Shown, m \in {"actual", "custom"} :
       /\ List[i].params[p].mode # m
       /\ Edits([List EXCEPT ![i].params[p].mode = m], {List[i].key})

-----------------------------------------------------------------------------
(* Headers of a user. *)

Fetch ==
  /\ Acts /\ ~fetching
  /\ fetching' = TRUE
  /\ UNCHANGED <<saved, lists, scope, actual, post, touched>>

\* Mutation of Refreshes: a value of the administrator's own is overwritten, too.
Refreshes_Any(row) == ~IsUserinfo(row.key)

Refreshes(row) == ~IsUserinfo(row.key) /\ row.mode = "actual"

\* The first row with the name is the one a fetched value is for.
IsFirst(list, i) == \A j \in 1..(i - 1) : list[j].key = NoKey \/ Name(list[j].key) # Name(list[i].key)

\* Missing headers are added to the list that is on show when the answer comes.
WithFetched(list, headers) ==
  LET HasRow(k) == \E i \in DOMAIN list : list[i].key # NoKey /\ Name(list[i].key) = Name(k)
      missing == SetToSeq({k \in DOMAIN headers : ~HasRow(k)})
      Fresh(row) == IF Refreshes(row) /\ ActualValue(headers, row.key) # Blank
                    THEN [row EXCEPT !.value = ActualValue(headers, row.key)] ELSE row
  IN [i \in DOMAIN list |-> IF list[i].key # NoKey /\ IsFirst(list, i) THEN Fresh(list[i]) ELSE list[i]]
     \o [i \in DOMAIN missing |->
           [key |-> missing[i], mode |-> "actual", value |-> headers[missing[i]], params |-> NoParams]]

Fetched(user) ==
  /\ fetching /\ fetching' = FALSE
  /\ actual' = user
  /\ lists' = [lists EXCEPT ![scope] = Rendered(WithFetched(@, user), user)]
  /\ UNCHANGED <<saved, scope, post, touched, acts>>

FetchFails ==
  /\ fetching /\ fetching' = FALSE
  /\ UNCHANGED <<saved, lists, scope, actual, post, touched, acts>>

-----------------------------------------------------------------------------
(* Saving. *)

Save ==
  /\ Acts /\ post = NoPost
  /\ post' = [at |-> "sent", body |-> [s \in Scopes |-> OverridesOf(lists[s])],
              touched |-> touched, late |-> FALSE]
  /\ UNCHANGED <<saved, lists, scope, actual, fetching, touched>>

\* The server saves the body; parsing it changes no value the page sends.
Saved ==
  /\ post.at = "sent"
  /\ saved' = post.body
  /\ post' = [NoPost EXCEPT !.at = "saved", !.late = post.late]
  /\ UNCHANGED <<lists, scope, actual, fetching, touched, acts>>

\* The POST fails, or only its answer is lost, or the GET that follows fails.
SaveFails ==
  /\ post # NoPost /\ post' = NoPost
  /\ UNCHANGED <<saved, lists, scope, actual, fetching, touched, acts>>

\* loadHeaders: every row is replaced by what the server has.
Reload ==
  /\ post.at = "saved" /\ post' = NoPost
  /\ lists' = [s \in Scopes |-> IF s = scope THEN Rendered(RowsOf(saved[s]), actual) ELSE RowsOf(saved[s])]
  /\ touched' = {}
  /\ UNCHANGED <<saved, scope, actual, fetching, acts>>

Next ==
  \/ \E s \in Scopes : Show(s)
  \/ AddRow
  \/ \E i \in DOMAIN List : RemoveRow(i) \/ TypeKey(i) \/ TypeValue(i) \/ SwitchMode(i) \/ TypeParam(i) \/ SwitchParam(i)
  \/ Fetch \/ \E u \in Users : Fetched(u)
  \/ FetchFails
  \/ Save \/ Saved \/ SaveFails \/ Reload

Spec == Init /\ [][Next]_vars

-----------------------------------------------------------------------------
(* What an override makes of a header (ApplyHeaderOverrides). *)

\* applyUserinfoOverrides
WithParams(info, params) ==
  LET Set(p) == p \in DOMAIN params /\ params[p].mode # "actual"
      Gone(p) == params[p].mode = "remove" \/ params[p].value = Blank
  IN [p \in {p \in DOMAIN info \union DOMAIN params : IF Set(p) THEN ~Gone(p) ELSE p \in DOMAIN info} |->
        IF Set(p) THEN params[p].value ELSE info[p]]

\* What the override makes of the value v a user's answer has so far; Blank is none.
Result(key, o, v) ==
  IF Name(key) \in Refused THEN v
  ELSE IF o.mode = "remove" THEN Blank
  ELSE IF IsUserinfo(key) /\ o.params # Empty
    THEN Cleaned(Text(WithParams(Parsed(IF v = Blank THEN o.value ELSE v), o.params)))
  ELSE IF o.mode = "actual" THEN v ELSE Cleaned(o.value)

\* Users, as far as the overrides tell them apart, and the layers that apply to one.
Members == [core : Cores, squads : SquadLists]
Places(m) == 0..Len(m.squads)
Layer(m, i) == <<m.core, IF i = 0 THEN Default ELSE m.squads[i]>>

\* selectOverrides: the last layer that has the key counts.
Having(x, m, k) == {i \in Places(m) : k \in DOMAIN x[Layer(m, i)]}
LastLayer(x, m, k) == Layer(m, Max(Having(x, m, k)))

NoOverride == [mode |-> "actual", value |-> Blank, params |-> Empty]
Own(x, s, k) == IF k \in DOMAIN x[s] THEN x[s][k] ELSE NoOverride
OverrideFor(x, m, k) == IF Having(x, m, k) = {} THEN NoOverride ELSE x[LastLayer(x, m, k)][k]

-----------------------------------------------------------------------------
(* Properties *)

\* Every variable has its type; rows on show have a control for each parameter.
TypeOK ==
  /\ IsSaved(saved)
  /\ DOMAIN lists = Scopes /\ \A s \in Scopes : lists[s] \in Seq(Row)
  /\ \A i \in DOMAIN List : IsUserinfo(List[i].key) =>
       List[i].params # NoParams /\ Shown \subseteq DOMAIN List[i].params
  /\ scope \in Scopes /\ actual \in Users \union {Empty} /\ fetching \in BOOLEAN
  /\ DOMAIN post = DOMAIN NoPost /\ post.at \in {"none", "sent", "saved"} /\ post.late \in BOOLEAN
  /\ post.at = "sent" => IsSaved(post.body)
  /\ touched \subseteq Scopes \X Keys /\ acts \in 0..MaxActs

\* Overrides the page can show as they are: it has no mode to remove a header,
\* and a control for every parameter it knows.
Settled(k, o) ==
  IF IsUserinfo(k) /\ o # NoOverride
  THEN o.mode # "remove" /\ DOMAIN o.params = Shown
       /\ \A p \in Shown : o.params[p].mode = "remove" => o.params[p].value = Blank
  ELSE o.mode = "remove" => o.value = Blank

\* The values the panel may send: any that is legal, but for a userinfo that had no
\* override only such as the one it was fetched from.
Sent(k, old, new) ==
  LET Known(v) == DOMAIN v \intersect Shown \subseteq DOMAIN Parsed(new.value)
  IN IF ~IsUserinfo(k) THEN {v \in Texts : Legal(v)}
     ELSE {v \in Infos : Legal(v) /\ (old = NoOverride => Known(v))}

Unaltered(k, old, new) ==
  old # new /\ Settled(k, old) =>
    \A v \in Sent(k, old, new) : Result(k, old, v) = Result(k, new, v)

\* What counts for the user is an override of a layer that had none before.
Covered(x, y, m, k) == Having(y, m, k) # {} /\ k \notin DOMAIN x[LastLayer(y, m, k)]

\* A save changes no header of a user the administrator did not touch in any layer
\* that applies to him: neither what he looked at, nor a fetch that was answered after
\* he had gone to another scope, nor one under way with the save (app.js:1520-1545)
\* changes it, but in one way.  A fetch adds rows, and one it adds to the list of a
\* squad, saved, covers the override of an earlier layer (headers.go:363-380): then
\* the user gets what the panel sends, as if he had no override.  Overrides of two
\* spellings of a name are two; Headers has what the server makes of both.
UntouchedStays ==
  [][saved' # saved => \A m \in Members, k \in Keys :
       (\A i \in Places(m) : <<Layer(m, i), k>> \notin post.touched) =>
         Unaltered(k, IF Covered(saved, saved', m, k) THEN NoOverride ELSE OverrideFor(saved, m, k),
                   OverrideFor(saved', m, k))]_vars

\* updateSummary, the value a row shows.
Preview(row) ==
  IF IsUserinfo(row.key) THEN Combined(row.params, ActualParams(row, actual))
  ELSE IF row.mode = "actual" THEN ActualValue(actual, row.key) ELSE row.value

\* A value as far as the page could show it.
OnShow(k, v) == IF IsUserinfo(k) /\ v \in Infos THEN Text([p \in DOMAIN v \intersect Shown |-> v[p]]) ELSE v

\* The override of the scope on show is the one that counts for the user, and no other
\* spelling of the name has one.
Decides(m, k) ==
  /\ Having(saved, m, k) # {} /\ LastLayer(saved, m, k) = scope
  /\ \A i \in Places(m) : \A j \in DOMAIN saved[Layer(m, i)] : Name(j) = Name(k) => j = k

\* What the page shows for a header is what the user it fetched gets, if this scope
\* decides for him: for every row that was not edited since it was loaded, and for
\* those that were as soon as the server has saved them and until the page shows what
\* it then loads.  A value that is not legal is shown, and such a user gets no header;
\* parameters the page does not know are the panel's.  Rows for a refused name are left
\* out: nobody gets what they show.
PreviewIsAnswer ==
  \A m \in Members, k \in Listed(List) :
    LET o == OverrideFor(saved, m, k)
        v == ActualValue(actual, k)
    IN /\ <<scope, k>> \notin touched \/ (post.at = "saved" /\ ~post.late)
       /\ Name(k) \notin Refused /\ Decides(m, k)
       /\ Settled(k, o) /\ (IsUserinfo(k) => v \in Infos /\ o # NoOverride)
       => Cleaned(Preview(List[Ruling(List, k)])) = OnShow(k, Result(k, o, v))

-----------------------------------------------------------------------------
(* What holds in every state. *)

\* A row of a userinfo without an override: every parameter is left as the panel sends
\* it, or was none of those it has sent.
LeftAlone(row) ==
  IF row.params = NoParams THEN row.mode = "actual" /\ row.value = Blank
  ELSE /\ DOMAIN row.params = Shown
       /\ \A p \in Shown : row.params[p].mode = "custom" => row.params[p].value = Blank
       /\ row.value \in Infos => \A p \in DOMAIN row.value \intersect Shown : row.params[p].mode = "actual"

\* A row is what the page makes of an override it can show as it is.
Shows(row, o) ==
  IF ~IsUserinfo(row.key) THEN
    row.mode = NormalizeMode(o.mode) /\ (row.mode = "custom" => row.value = o.value)
  ELSE IF o = NoOverride THEN LeftAlone(row)
  ELSE DOMAIN o.params = Shown =>
    /\ row.params # NoParams /\ Shown \subseteq DOMAIN row.params
    /\ \A p \in Shown : row.params[p] = [o.params[p] EXCEPT !.mode = NormalizeMode(@)]

\* The list has a row with the key if it must, and the one that counts shows the override.
Displays(list, k, o, must) ==
  /\ must => k \in Listed(list)
  /\ \A i \in DOMAIN list : Rules(list, k, i) => Shows(list[i], o)

\* The page has a row for every override of x, and its rows show them, but for keys the
\* administrator touched; with `all`, for those too that x has.
Mirrors(x, all) ==
  \A s \in Scopes, k \in Keys :
    <<s, k>> \notin touched \/ (all /\ k \in DOMAIN x[s]) =>
      Displays(lists[s], k, Own(x, s, k), k \in DOMAIN x[s])

\* The page shows what the server has, and what it has sent; what it has sent alters no
\* header that was not touched.
IndInv ==
  /\ TypeOK
  /\ Mirrors(saved, post.at = "saved" /\ ~post.late)
  /\ post.at = "sent" =>
       /\ Mirrors(post.body, ~post.late)
       /\ \A s \in Scopes, k \in Keys : <<s, k>> \notin post.touched =>
            /\ Unaltered(k, Own(saved, s, k), Own(post.body, s, k))
            /\ k \in DOMAIN saved[s] => k \in DOMAIN post.body[s]
=============================================================================
