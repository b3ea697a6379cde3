--------------------------- MODULE AdminPageProofs --------------------------
(* What the admin page keeps, for any library, administrator and failures. *)
EXTENDS AdminPage, TLAPS

-----------------------------------------------------------------------------
(* Lists *)

LEMMA Concatenation ==
  ASSUME NEW S, NEW a \in Seq(S), NEW b \in Seq(S)
  PROVE  /\ a \o b \in Seq(S) /\ Len(a \o b) = Len(a) + Len(b)
         /\ \A k \in 1..(Len(a) + Len(b)) :
              (a \o b)[k] = IF k <= Len(a) THEN a[k] ELSE b[k - Len(a)]
OBVIOUS

\* Removing a config keeps a list of configs (app.js:1115).
LEMMA RemoveAtType ==
  ASSUME NEW S, NEW list \in Seq(S), NEW i \in 1..Len(list)
  PROVE  /\ RemoveAt(list, i) \in Seq(S)
         /\ Len(RemoveAt(list, i)) = Len(list) - 1
         /\ \A k \in 1..(Len(list) - 1) :
              RemoveAt(list, i)[k] = IF k < i THEN list[k] ELSE list[k + 1]
<1>0. Len(list) \in Nat /\ i \in Nat /\ 1 <= i /\ i <= Len(list)
      /\ \A k \in 1..Len(list) : list[k] \in S
  OBVIOUS
<1>1. PICK a \in Seq(S) : a = SubSeq(list, 1, i - 1)
  <2>1. SubSeq(list, 1, i - 1) \in Seq(S)
    BY <1>0
  <2> QED BY <2>1
<1>2. PICK b \in Seq(S) : b = SubSeq(list, i + 1, Len(list))
  <2>1. SubSeq(list, i + 1, Len(list)) \in Seq(S)
    BY <1>0
  <2> QED BY <2>1
<1>3. Len(a) = i - 1 /\ \A k \in 1..(i - 1) : a[k] = list[k]
  BY <1>0, <1>1
<1>4. Len(b) = Len(list) - i /\ \A k \in 1..(Len(list) - i) : b[k] = list[i + k]
  BY <1>0, <1>2
<1>5. RemoveAt(list, i) = a \o b
  BY <1>1, <1>2 DEF RemoveAt
<1>6. a \o b \in Seq(S) /\ Len(a \o b) = Len(list) - 1
  <2>1. a \o b \in Seq(S) /\ Len(a \o b) = Len(a) + Len(b)
    BY Concatenation
  <2> QED BY <2>1, <1>0, <1>3, <1>4
<1>7. ASSUME NEW k \in 1..(Len(list) - 1)
      PROVE  (a \o b)[k] = IF k < i THEN list[k] ELSE list[k + 1]
  <2>1. (a \o b)[k] = IF k <= i - 1 THEN a[k] ELSE b[k - (i - 1)]
    BY <1>0, <1>3, <1>4, Concatenation
  <2>2. CASE k < i
    BY <2>1, <2>2, <1>0, <1>3
  <2>3. CASE ~(k < i)
    <3>1. k - (i - 1) \in 1..(Len(list) - i) /\ i + (k - (i - 1)) = k + 1
      BY <2>3, <1>0
    <3> QED BY <2>1, <2>3, <3>1, <1>0, <1>4
  <2> QED BY <2>2, <2>3
<1> QED BY <1>5, <1>6, <1>7

\* Inserting an element keeps a list.
LEMMA InsertAtType ==
  ASSUME NEW S, NEW list \in Seq(S), NEW e \in S,
         NEW i \in Nat, 1 <= i, i <= Len(list) + 1
  PROVE  /\ InsertAt(list, i, e) \in Seq(S)
         /\ Len(InsertAt(list, i, e)) = Len(list) + 1
         /\ \A k \in 1..(Len(list) + 1) :
              InsertAt(list, i, e)[k] = IF k < i THEN list[k] ELSE IF k = i THEN e ELSE list[k - 1]
<1>0. Len(list) \in Nat /\ i \in Nat /\ 1 <= i /\ i <= Len(list) + 1
      /\ \A k \in 1..Len(list) : list[k] \in S
  OBVIOUS
<1>1. PICK a \in Seq(S) : a = SubSeq(list, 1, i - 1)
  <2>1. SubSeq(list, 1, i - 1) \in Seq(S)
    BY <1>0
  <2> QED BY <2>1
<1>2. PICK b \in Seq(S) : b = SubSeq(list, i, Len(list))
  <2>1. SubSeq(list, i, Len(list)) \in Seq(S)
    BY <1>0
  <2> QED BY <2>1
<1>3. Len(a) = i - 1 /\ \A k \in 1..(i - 1) : a[k] = list[k]
  BY <1>0, <1>1
<1>4. Len(b) = Len(list) - i + 1 /\ \A k \in 1..(Len(list) - i + 1) : b[k] = list[i + k - 1]
  BY <1>0, <1>2
<1>5. PICK c \in Seq(S) : c = a \o <<e>>
  <2>1. <<e>> \in Seq(S)
    OBVIOUS
  <2>2. a \o <<e>> \in Seq(S)
    BY <2>1, Concatenation
  <2> QED BY <2>2
<1>6. Len(c) = i /\ \A k \in 1..i : c[k] = IF k < i THEN a[k] ELSE e
  <2>1. <<e>> \in Seq(S) /\ Len(<<e>>) = 1 /\ <<e>>[1] = e
    OBVIOUS
  <2>2. Len(c) = i
    BY <1>0, <1>3, <1>5, <2>1, Concatenation
  <2>3. ASSUME NEW k \in 1..i PROVE c[k] = IF k < i THEN a[k] ELSE e
    BY <1>0, <1>3, <1>5, <2>1, Concatenation
  <2> QED BY <2>2, <2>3
<1>7. InsertAt(list, i, e) = c \o b
  BY <1>1, <1>2, <1>5 DEF InsertAt
<1>8. c \o b \in Seq(S) /\ Len(c \o b) = Len(list) + 1
  BY <1>0, <1>4, <1>6, Concatenation
<1>9. ASSUME NEW k \in 1..(Len(list) + 1)
      PROVE  (c \o b)[k] = IF k < i THEN list[k] ELSE IF k = i THEN e ELSE list[k - 1]
  <2>1. (c \o b)[k] = IF k <= i THEN c[k] ELSE b[k - i]
    BY <1>0, <1>4, <1>6, Concatenation
  <2>2. CASE k <= i
    BY <2>1, <2>2, <1>0, <1>3, <1>6
  <2>3. CASE ~(k <= i)
    <3>1. k - i \in 1..(Len(list) - i + 1) /\ i + (k - i) - 1 = k - 1
      BY <2>3, <1>0
    <3> QED BY <2>1, <2>3, <3>1, <1>0, <1>4
  <2> QED BY <2>2, <2>3
<1> QED BY <1>7, <1>8, <1>9

\* Moving a config moves every config to where MovedIndex says (app.js:954-972).
LEMMA MovedConfigs ==
  ASSUME NEW S, NEW list \in Seq(S), NEW from \in 1..Len(list), NEW to \in 1..Len(list), from # to
  PROVE  /\ Moved(list, from, to) \in Seq(S)
         /\ Len(Moved(list, from, to)) = Len(list)
         /\ \A k \in 1..Len(list) :
              /\ MovedIndex(k, from, to) \in 1..Len(list)
              /\ Moved(list, from, to)[MovedIndex(k, from, to)] = list[k]
<1>1. PICK rest \in Seq(S) :
        /\ rest = RemoveAt(list, from) /\ Len(rest) = Len(list) - 1
        /\ \A k \in 1..(Len(list) - 1) : rest[k] = IF k < from THEN list[k] ELSE list[k + 1]
  BY RemoveAtType
<1>2. Len(list) \in Nat /\ list[from] \in S /\ to \in 1..(Len(rest) + 1)
  BY <1>1
<1>3. /\ InsertAt(rest, to, list[from]) \in Seq(S)
      /\ Len(InsertAt(rest, to, list[from])) = Len(rest) + 1
      /\ \A k \in 1..(Len(rest) + 1) : InsertAt(rest, to, list[from])[k] =
           IF k < to THEN rest[k] ELSE IF k = to THEN list[from] ELSE rest[k - 1]
  <2>1. PICK e \in S : e = list[from]
    BY <1>2
  <2>2. PICK i \in Nat : i = to /\ 1 <= i /\ i <= Len(rest) + 1
    BY <1>2
  <2>3. /\ InsertAt(rest, i, e) \in Seq(S)
        /\ Len(InsertAt(rest, i, e)) = Len(rest) + 1
        /\ \A k \in 1..(Len(rest) + 1) : InsertAt(rest, i, e)[k] =
             IF k < i THEN rest[k] ELSE IF k = i THEN e ELSE rest[k - 1]
    BY <2>2, InsertAtType
  <2> QED BY <2>1, <2>2, <2>3
<1>4. Moved(list, from, to) = InsertAt(rest, to, list[from])
  BY <1>1 DEF Moved
<1>5. ASSUME NEW k \in 1..Len(list)
      PROVE  /\ MovedIndex(k, from, to) \in 1..Len(list)
             /\ Moved(list, from, to)[MovedIndex(k, from, to)] = list[k]
  <2>1. CASE k = from
    BY <2>1, <1>1, <1>3, <1>4 DEF MovedIndex
  <2>2. CASE from < k /\ k <= to
    <3>1. MovedIndex(k, from, to) = k - 1
      BY <2>2 DEF MovedIndex
    <3>2. k - 1 \in 1..Len(list) /\ k - 1 \in 1..(Len(rest) + 1) /\ k - 1 \in 1..(Len(list) - 1)
      BY <2>2, <1>1, <1>2
    <3>3. Moved(list, from, to)[k - 1] = rest[k - 1]
      BY <2>2, <3>2, <1>3, <1>4
    <3>4. rest[k - 1] = list[k]
      BY <2>2, <3>2, <1>1
    <3> QED BY <3>1, <3>2, <3>3, <3>4
  <2>3. CASE to <= k /\ k < from
    <3>1. MovedIndex(k, from, to) = k + 1
      BY <2>3 DEF MovedIndex
    <3> QED BY <2>3, <3>1, <1>1, <1>3, <1>4
  <2>4. CASE k # from /\ ~(from < k /\ k <= to) /\ ~(to <= k /\ k < from)
    <3>1. MovedIndex(k, from, to) = k
      BY <2>4 DEF MovedIndex
    <3>2. (k < from /\ k < to) \/ (k > from /\ k > to)
      BY <2>4
    <3> QED BY <3>2, <3>1, <1>1, <1>3, <1>4
  <2> QED BY <2>1, <2>2, <2>3, <2>4
<1> QED BY <1>1, <1>3, <1>4, <1>5

\* Naming the configs of a list changes only names, and doing it again nothing.
LEMMA NamedConfigs ==
  ASSUME NEW list \in Seq(Config)
  PROVE  /\ Named(list) \in Seq(Config) /\ Len(Named(list)) = Len(list)
         /\ Named(Named(list)) = Named(list)
<1>1. ASSUME NEW i \in 1..Len(list)
      PROVE  /\ list[i].name = NoName => [list[i] EXCEPT !.name = i] \in Config
             /\ list[i] \in Config
             /\ [list[i] EXCEPT !.name = i].name = i
  <2>1. list[i] \in Config
    OBVIOUS
  <2> QED BY <2>1 DEF Config, Names
<1>2. Named(list) \in [1..Len(list) -> Config]
  BY <1>1 DEF Named
<1>3. Named(list) \in Seq(Config) /\ Len(Named(list)) = Len(list)
  BY <1>2
<1>4. \A i \in 1..Len(list) : Named(list)[i].name # NoName
  BY <1>1, PageAssumption DEF Named
<1>5. Named(Named(list)) = Named(list)
  <2>1. Named(Named(list)) = [i \in 1..Len(list) |-> Named(list)[i]]
    BY <1>3, <1>4 DEF Named
  <2> QED BY <1>2, <2>1
<1> QED BY <1>3, <1>5

-----------------------------------------------------------------------------
(* Libraries *)

\* A library stays one when a list of it is replaced; the other lists stay.
LEMMA Replaced ==
  ASSUME NEW x, IsSets(x), NEW s \in DOMAIN x, NEW list \in Seq(Config)
  PROVE  /\ IsSets([x EXCEPT ![s] = list])
         /\ DOMAIN [x EXCEPT ![s] = list] = DOMAIN x
         /\ [x EXCEPT ![s] = list][s] = list
         /\ \A t : t # s => ConfigsOf([x EXCEPT ![s] = list], t) = ConfigsOf(x, t)
BY DEF IsSets, ConfigsOf

\* Making a list where there is none changes no configs (app.js:227-230).
LEMMA ListMade ==
  ASSUME NEW x, IsSets(x), NEW s \in Scope
  PROVE  /\ IsSets(WithList(x, s)) /\ s \in DOMAIN WithList(x, s)
         /\ \A t : ConfigsOf(WithList(x, s), t) = ConfigsOf(x, t)
<1>1. DOMAIN WithList(x, s) = DOMAIN x \union {s}
  BY DEF WithList
<1>2. ASSUME NEW t \in DOMAIN WithList(x, s)
      PROVE  WithList(x, s)[t] = ConfigsOf(x, t) /\ WithList(x, s)[t] \in Seq(Config)
  BY <1>1 DEF WithList, ConfigsOf, IsSets
<1>3. ASSUME NEW t PROVE ConfigsOf(WithList(x, s), t) = ConfigsOf(x, t)
  BY <1>1, <1>2 DEF ConfigsOf
<1> QED BY <1>1, <1>2, <1>3 DEF IsSets

LEMMA ConfigsType ==
  ASSUME NEW x, IsSets(x), NEW s
  PROVE  ConfigsOf(x, s) \in Seq(Config)
BY DEF IsSets, ConfigsOf

\* What a POST and a GET do to the names of a library.
LEMMA Names_ ==
  ASSUME NEW x, IsSets(x)
  PROVE  /\ IsSets(AllNamed(x)) /\ IsSets(Shown(x)) /\ DOMAIN Shown(x) = DOMAIN x
         /\ \A t : ConfigsOf(AllNamed(x), t) = Named(ConfigsOf(x, t))
         /\ \A t : Named(ConfigsOf(Shown(x), t)) = Named(ConfigsOf(x, t))
<1>1. ASSUME NEW t \in DOMAIN x
      PROVE  /\ x[t] \in Seq(Config) /\ Named(x[t]) \in Seq(Config)
             /\ Named(Named(x[t])) = Named(x[t])
  <2>1. x[t] \in Seq(Config)
    BY DEF IsSets
  <2> QED BY <2>1, NamedConfigs
<1>2. DOMAIN AllNamed(x) = DOMAIN x /\ DOMAIN Shown(x) = DOMAIN x
  BY DEF AllNamed, Shown
<1>3. \A t \in DOMAIN x : AllNamed(x)[t] = Named(x[t]) /\ Shown(x)[t] \in {x[t], Named(x[t])}
  BY DEF AllNamed, Shown
<1>4. IsSets(AllNamed(x)) /\ IsSets(Shown(x))
  BY <1>1, <1>2, <1>3 DEF IsSets
<1>5. Named(<<>>) = <<>>
  BY DEF Named
<1>6. ASSUME NEW t PROVE ConfigsOf(AllNamed(x), t) = Named(ConfigsOf(x, t))
  BY <1>2, <1>3, <1>5 DEF ConfigsOf
<1>7. ASSUME NEW t PROVE Named(ConfigsOf(Shown(x), t)) = Named(ConfigsOf(x, t))
  BY <1>1, <1>2, <1>3 DEF ConfigsOf
<1> QED BY <1>2, <1>4, <1>6, <1>7

\* Where a saved config is (app.js:1086-1092).
LEMMA PutConfig ==
  ASSUME NEW list \in Seq(Config), NEW i \in 0..Len(list), NEW config \in Config
  PROVE  /\ Put(list, i, config) \in Seq(Config)
         /\ i = 0 => /\ Len(list) + 1 \in 1..Len(Put(list, i, config))
                     /\ Put(list, i, config)[Len(list) + 1] = config
         /\ i # 0 => i \in 1..Len(Put(list, i, config)) /\ Put(list, i, config)[i] = config
BY DEF Put

-----------------------------------------------------------------------------
(* The inductive invariant *)

\* The initial states have it.
LEMMA Initially == Init => IndInv
<1> SUFFICES ASSUME Init PROVE IndInv
  OBVIOUS
<1>1. IsSets(saved)
  BY PageAssumption DEF Init
<1>2. IsSets(NoConfigs) /\ DOMAIN NoConfigs = Cores \X {Default}
  BY DEF NoConfigs, IsSets, Scope
<1>3. <<Xray, Default>> \in DOMAIN NoConfigs /\ Len(NoConfigs[<<Xray, Default>>]) = 0
  BY <1>2 DEF NoConfigs, Cores
<1>4. scope \in DOMAIN sets /\ index \in 0..Len(List)
  BY <1>3 DEF Init, List
<1>5. UnderWay = {} /\ RequestsOK
  BY DEF Init, UnderWay, RequestsOK
<1>6. IsSets(sets) /\ made \in Nat
  BY <1>2, PageAssumption DEF Init
<1>7. TypeOK
  BY <1>1, <1>4, <1>5, <1>6 DEF Init, TypeOK
<1> QED BY <1>5, <1>7 DEF Init, IndInv, LoadingIsQuiet, RestAgrees, OpenIsEdited, DeletesClose

\* Loading shows the server's configs.
LEMMA LoadStep == IndInv /\ Load => IndInv'
<1> SUFFICES ASSUME IndInv, Load PROVE IndInv'
  OBVIOUS
<1>1. IsSets(saved) /\ scope = <<Xray, Default>> /\ UnderWay = {} /\ edited = {} /\ RequestsOK
  BY DEF Load, IndInv, TypeOK, LoadingIsQuiet
<1>2. IsSets(sets') /\ DOMAIN sets' = DOMAIN saved
  BY <1>1, Names_ DEF Load
<1>3. UnderWay' = {} /\ RequestsOK'
  BY <1>1 DEF Load, UnderWay, RequestsOK
<1>4. RestAgrees'
  <2>1. HasTheRest(sets)'
    BY <1>1, Names_ DEF Load, HasTheRest
  <2> QED BY <2>1, <1>3 DEF RestAgrees
<1>5. scope' \in DOMAIN sets' /\ index' \in 0..Len(List')
  <2>1. scope' \in DOMAIN saved
    BY <1>1 DEF Load, IsSets, Cores
  <2>2. Len(List') \in Nat
    BY <2>1, <1>2 DEF List, IsSets
  <2> QED BY <2>1, <2>2, <1>2 DEF Load
<1>6. TypeOK'
  BY <1>1, <1>2, <1>3, <1>5 DEF Load, IndInv, TypeOK
<1>7. OpenIsEdited' /\ DeletesClose' /\ LoadingIsQuiet'
  BY <1>3 DEF Load, OpenIsEdited, DeletesClose, LoadingIsQuiet
<1> QED BY <1>4, <1>6, <1>7 DEF IndInv

\* A page that could not be loaded shows what it showed: nothing.
LEMMA LoadFailsStep == IndInv /\ LoadFails => IndInv'
<1> SUFFICES ASSUME IndInv, LoadFails PROVE IndInv'
  OBVIOUS
<1>1. /\ saved' = saved /\ sets' = sets /\ scope' = scope /\ index' = index /\ draft' = draft
      /\ modalOpen' = modalOpen /\ modalDraft' = modalDraft /\ requests' = requests
      /\ made' = made /\ edited' = edited /\ unsaved' = unsaved /\ page' = "blank"
      /\ known' \subseteq Squads
  BY DEF LoadFails, editor
<1>2. UnderWay' = UnderWay /\ RequestsOK' /\ List' = List
  BY <1>1 DEF UnderWay, RequestsOK, List, IndInv, TypeOK
<1>3. TypeOK'
  BY <1>1, <1>2 DEF IndInv, TypeOK
<1> QED BY <1>1, <1>2, <1>3
     DEF IndInv, LoadingIsQuiet, RestAgrees, OpenIsEdited, DeletesClose

\* Nothing is under way and nothing was changed when the page is reloaded.
LEMMA ReloadStep == IndInv /\ Reload => IndInv'
<1> SUFFICES ASSUME IndInv, Reload PROVE IndInv'
  OBVIOUS
<1>1. UnderWay' = {} /\ RequestsOK'
  BY DEF Reload, IndInv, TypeOK, UnderWay, RequestsOK
<1>2. IsSets(NoConfigs) /\ <<Xray, Default>> \in DOMAIN NoConfigs /\ Len(NoConfigs[<<Xray, Default>>]) = 0
  BY DEF NoConfigs, IsSets, Scope, Cores
<1>3. scope' \in DOMAIN sets' /\ index' \in 0..Len(List') /\ IsSets(sets')
  BY <1>2 DEF Reload, List
<1>4. TypeOK'
  BY <1>1, <1>3 DEF Reload, IndInv, TypeOK
<1> QED BY <1>1, <1>4
     DEF Reload, IndInv, LoadingIsQuiet, RestAgrees, OpenIsEdited, DeletesClose

\* Steps that leave the server, the POSTs and the configs of unchanged scopes alone.
LEMMA RestKept ==
  ASSUME RestAgrees, page' = page, saved' = saved, requests' = requests, edited \subseteq edited',
         \A s \in Scope \ edited' : ConfigsOf(sets', s) = ConfigsOf(sets, s)
  PROVE  RestAgrees' /\ UnderWay' = UnderWay /\ (RequestsOK => RequestsOK')
BY DEF RestAgrees, HasTheRest, UnderWay, RequestsOK

\* Showing another list.
LEMMA ShowStep ==
  ASSUME NEW s \in Scope, IndInv, Show(s)
  PROVE  IndInv'
<1>1. IsSets(sets') /\ s \in DOMAIN sets' /\ \A t : ConfigsOf(sets', t) = ConfigsOf(sets, t)
  BY ListMade DEF Show, IndInv, TypeOK
<1>2. RestAgrees' /\ UnderWay' = UnderWay /\ RequestsOK'
  BY <1>1, RestKept DEF Show, IndInv, TypeOK
<1>3. index' \in 0..Len(List')
  BY <1>1 DEF Show, ClearConfigEditor, List, IsSets
<1>4. TypeOK'
  BY <1>1, <1>2, <1>3 DEF Show, ClearConfigEditor, IndInv, TypeOK
<1> QED BY <1>2, <1>4
     DEF Show, ClearConfigEditor, UsesPanel, Uses, IndInv, LoadingIsQuiet, OpenIsEdited, DeletesClose

\* Every scope a core and a squad can be picked for exists.
LEMMA Scopes ==
  ASSUME TypeOK
  PROVE  /\ \A c \in Cores : <<c, scope[2]>> \in Scope
         /\ \A s \in known \union {Default} : <<scope[1], s>> \in Scope
BY DEF TypeOK, IsSets, Scope

\* Opening a config, starting a new one, opening and closing the modal.
LEMMA EditorStep ==
  ASSUME IndInv, NewConfig \/ OpenModal \/ CloseModal \/ \E i \in DOMAIN List : SelectConfig(i)
  PROVE  IndInv'
<1>1. /\ saved' = saved /\ page' = page /\ known' = known /\ sets' = sets /\ scope' = scope
      /\ requests' = requests /\ made' = made /\ edited' = edited /\ unsaved' = unsaved /\ Uses
  BY DEF NewConfig, OpenModal, CloseModal, SelectConfig, UsesPanel
<1>2. RestAgrees' /\ UnderWay' = UnderWay /\ RequestsOK'
  BY <1>1, RestKept DEF IndInv, TypeOK
<1>3. List \in Seq(Config) /\ List' = List
  BY <1>1 DEF IndInv, TypeOK, IsSets, List
<1>4. \A i \in DOMAIN List : i \in 1..Len(List) /\ List[i].id \in Nat
  <2>1. \A i \in DOMAIN List : i \in 1..Len(List) /\ List[i] \in Config
    BY <1>3
  <2> QED BY <2>1 DEF Config
<1>5. /\ index' \in 0..Len(List) /\ draft' \in Nat /\ modalDraft' \in Nat /\ modalOpen' \in BOOLEAN
      /\ OpenIsEdited => OpenIsEdited'
  <2>1. CASE NewConfig
    BY <2>1, <1>3 DEF NewConfig, ClearConfigEditor, IndInv, TypeOK, OpenIsEdited
  <2>2. CASE OpenModal
    BY <2>2, <1>3 DEF OpenModal, IndInv, TypeOK, OpenIsEdited
  <2>3. CASE CloseModal
    BY <2>3, <1>3 DEF CloseModal, IndInv, TypeOK, OpenIsEdited
  <2>4. CASE \E i \in DOMAIN List : SelectConfig(i)
    <3>1. PICK i \in DOMAIN List : SelectConfig(i)
      BY <2>4
    <3>2. i \in 1..Len(List) /\ List[i].id \in Nat
      BY <1>4
    <3> QED BY <3>1, <3>2, <1>3 DEF SelectConfig, UsesPanel, IndInv, TypeOK, OpenIsEdited
  <2> QED BY <2>1, <2>2, <2>3, <2>4
<1>6. TypeOK'
  BY <1>1, <1>2, <1>3, <1>5 DEF IndInv, TypeOK
<1> QED BY <1>1, <1>2, <1>5, <1>6 DEF Uses, IndInv, LoadingIsQuiet, DeletesClose

\* A POST that is sent takes a free slot.
LEMMA Sending ==
  ASSUME NEW kind \in {"save", "delete", "modalDelete"}, NEW body, IsSets(body),
         RequestsOK, Send(kind, body)
  PROVE  RequestsOK' /\ \E r0 \in Slots :
           /\ UnderWay' = UnderWay \union {r0} /\ r0 \notin UnderWay
           /\ requests'[r0].kind = kind /\ requests'[r0].body = body
           /\ requests'[r0].step = "sent"
           /\ \A r \in UnderWay : requests'[r] = requests[r]
<1> DEFINE sent == [kind |-> kind, body |-> body, step |-> "sent"]
<1>1. PICK r0 \in Slots : requests[r0] = Idle /\ requests' = [requests EXCEPT ![r0] = sent]
  BY DEF Send, BuildConfigPayload
<1>2. sent # Idle /\ sent.kind = kind /\ sent.body = body /\ sent.step = "sent"
  <2>1. sent.step # Idle.step
    BY DEF Idle
  <2> QED BY <2>1
<1>7. DOMAIN sent = DOMAIN Idle
  BY DEF Idle
<1> HIDE DEF sent
<1>3. /\ DOMAIN requests' = Slots /\ requests'[r0] = sent
      /\ \A r \in Slots \ {r0} : requests'[r] = requests[r]
  BY <1>1 DEF RequestsOK
<1>4. UnderWay' = UnderWay \union {r0} /\ r0 \notin UnderWay
  BY <1>1, <1>2, <1>3 DEF UnderWay
<1>5. \A r \in UnderWay : r \in Slots /\ requests'[r] = requests[r]
  BY <1>3, <1>4 DEF UnderWay
<1>6. RequestsOK'
  BY <1>2, <1>3, <1>4, <1>5, <1>7 DEF RequestsOK
<1> QED BY <1>2, <1>3, <1>4, <1>5, <1>6

\* A step that gives the list on show other configs.
LEMMA ListChanged ==
  ASSUME IndInv, page # "loading", NEW list \in Seq(Config), sets' = [sets EXCEPT ![scope] = list],
         edited' = edited \union {scope}, saved' = saved, page' = page, scope' = scope
  PROVE  /\ IsSets(sets') /\ IsSets(saved') /\ scope' \in DOMAIN sets' /\ List' = list
         /\ edited' \subseteq Scope
         /\ page = "ready" => HasTheRest(sets)'
         /\ \A t \in Scope \ edited' : ConfigsOf(sets', t) = ConfigsOf(sets, t)
         /\ page = "ready" => \A r \in UnderWay : \A t \in Scope \ edited' :
              Named(ConfigsOf(requests[r].body, t)) = Named(ConfigsOf(saved', t))
<1>1. IsSets(sets) /\ scope \in DOMAIN sets /\ IsSets(saved) /\ edited \subseteq Scope
  BY DEF IndInv, TypeOK
<1>2. /\ IsSets(sets') /\ DOMAIN sets' = DOMAIN sets /\ sets'[scope] = list
      /\ \A t : t # scope => ConfigsOf(sets', t) = ConfigsOf(sets, t)
  <2>1. PICK x : x = sets /\ IsSets(x)
    BY <1>1
  <2>2. PICK s \in DOMAIN x : s = scope
    BY <1>1, <2>1
  <2>3. /\ IsSets([x EXCEPT ![s] = list]) /\ DOMAIN [x EXCEPT ![s] = list] = DOMAIN x
        /\ [x EXCEPT ![s] = list][s] = list
        /\ \A t : t # s => ConfigsOf([x EXCEPT ![s] = list], t) = ConfigsOf(x, t)
    BY <2>1 DEF IsSets, ConfigsOf
  <2> QED BY <2>1, <2>2, <2>3
<1>3. scope \in Scope
  BY <1>1 DEF IsSets
<1>4. page = "ready" => HasTheRest(sets)'
  BY <1>2 DEF IndInv, RestAgrees, HasTheRest
<1> QED BY <1>1, <1>2, <1>3, <1>4 DEF IndInv, RestAgrees, HasTheRest, List

\* The POST of such a step has the configs of unchanged scopes as well.
LEMMA ListSent ==
  ASSUME IndInv, page # "loading", NEW list \in Seq(Config), sets' = [sets EXCEPT ![scope] = list],
         edited' = edited \union {scope}, saved' = saved, page' = page, scope' = scope,
         NEW kind \in {"save", "delete", "modalDelete"}, Send(kind, sets')
  PROVE  /\ RestAgrees' /\ RequestsOK'
         /\ \A r \in UnderWay' : r \in UnderWay \/ requests'[r].kind = kind
<1>1. /\ IsSets(sets') /\ (page = "ready" => HasTheRest(sets)')
      /\ page = "ready" => \A r \in UnderWay : \A t \in Scope \ edited' :
           Named(ConfigsOf(requests[r].body, t)) = Named(ConfigsOf(saved', t))
  BY ListChanged
<1>2. RequestsOK
  BY DEF IndInv, TypeOK
<1>3. PICK body : body = sets'
  OBVIOUS
<1>4. RequestsOK' /\ \E r0 \in Slots :
        /\ UnderWay' = UnderWay \union {r0} /\ r0 \notin UnderWay
        /\ requests'[r0].kind = kind /\ requests'[r0].body = body
        /\ \A r \in UnderWay : requests'[r] = requests[r]
  BY <1>1, <1>2, <1>3, Sending
<1>5. PICK r0 \in Slots :
        /\ UnderWay' = UnderWay \union {r0} /\ r0 \notin UnderWay
        /\ requests'[r0].kind = kind /\ requests'[r0].body = sets'
        /\ \A r \in UnderWay : requests'[r] = requests[r]
  BY <1>3, <1>4
<1>6. ASSUME page = "ready", NEW r \in UnderWay', NEW t \in Scope \ edited'
      PROVE  Named(ConfigsOf(requests'[r].body, t)) = Named(ConfigsOf(saved', t))
  BY <1>1, <1>5, <1>6 DEF HasTheRest
<1>7. RestAgrees'
  BY <1>1, <1>6 DEF RestAgrees, HasTheRest
<1> QED BY <1>4, <1>5, <1>7

\* Moving a config moves the index with the config that is open.
LEMMA MoveStep ==
  ASSUME IndInv, NEW from \in DOMAIN List, NEW to \in DOMAIN List, MoveConfigItem(from, to)
  PROVE  IndInv'
<1>1. List \in Seq(Config) /\ from \in 1..Len(List) /\ to \in 1..Len(List) /\ from # to
  BY DEF IndInv, TypeOK, IsSets, List, MoveConfigItem
<1>2. PICK list : list = Moved(List, from, to)
  OBVIOUS
<1>3. /\ list \in Seq(Config) /\ Len(list) = Len(List)
      /\ \A k \in 1..Len(List) : MovedIndex(k, from, to) \in 1..Len(List) /\ list[MovedIndex(k, from, to)] = List[k]
  BY <1>1, <1>2, MovedConfigs
<1>4. /\ page # "loading" /\ sets' = [sets EXCEPT ![scope] = list] /\ edited' = edited \union {scope}
      /\ saved' = saved /\ page' = page /\ scope' = scope /\ requests' = requests /\ Uses
      /\ draft' = draft /\ modalOpen' = modalOpen /\ modalDraft' = modalDraft
  BY <1>2 DEF MoveConfigItem, UsesPanel, Uses
<1>5. /\ IsSets(sets') /\ IsSets(saved') /\ scope' \in DOMAIN sets' /\ List' = list
      /\ edited' \subseteq Scope
      /\ \A t \in Scope \ edited' : ConfigsOf(sets', t) = ConfigsOf(sets, t)
  BY <1>3, <1>4, ListChanged
<1>6. RestAgrees' /\ UnderWay' = UnderWay /\ RequestsOK'
  BY <1>4, <1>5, RestKept DEF IndInv, TypeOK
<1>7. index \in 0..Len(List) /\ index' = IF index = 0 THEN 0 ELSE MovedIndex(index, from, to)
  BY DEF IndInv, TypeOK, MoveConfigItem
<1>8. index' \in 0..Len(list) /\ (index' # 0 => index # 0 /\ list[index'] = List[index])
  <2>1. CASE index = 0
    BY <2>1, <1>1, <1>3, <1>7
  <2>2. CASE index # 0
    <3>1. index \in 1..Len(List)
      BY <2>2, <1>7
    <3> QED BY <3>1, <2>2, <1>3, <1>7
  <2> QED BY <2>1, <2>2
<1>9. TypeOK'
  BY <1>4, <1>5, <1>6, <1>8 DEF MoveConfigItem, IndInv, TypeOK
<1>10. OpenIsEdited => OpenIsEdited'
  BY <1>4, <1>5, <1>8 DEF OpenIsEdited
<1> QED BY <1>4, <1>6, <1>9, <1>10 DEF Uses, IndInv, LoadingIsQuiet, DeletesClose

\* A config is saved where it was, or at the end if none is open.
LEMMA SaveStep ==
  ASSUME IndInv, NEW from \in Nat, NEW text \in Texts, Uses, SaveConfigEntry(from, text),
         modalOpen => modalDraft' = draft', modalOpen' = modalOpen, modalDraft' \in Nat,
         saved' = saved, page' = page, known' = known, scope' = scope
  PROVE  IndInv'
<1>1. PICK id \in Nat \ {0} : id = IF from = 0 THEN made + 1 ELSE from
  BY DEF IndInv, TypeOK
<1>2. PICK config \in Config : config = [id |-> id, text |-> text, name |-> Given]
  BY DEF Config, Names
<1>3. List \in Seq(Config) /\ index \in 0..Len(List)
  BY DEF IndInv, TypeOK, IsSets, List
<1>4. PICK list : list = Put(List, index, config)
  OBVIOUS
<1>5. /\ list \in Seq(Config)
      /\ index' \in 1..Len(list) /\ list[index'] = config
  <2>1. PICK x \in Seq(Config) : x = List
    BY <1>3
  <2>2. PICK i \in 0..Len(x) : i = index
    BY <1>3, <2>1
  <2>3. /\ Put(x, i, config) \in Seq(Config)
        /\ i = 0 => /\ Len(x) + 1 \in 1..Len(Put(x, i, config))
                    /\ Put(x, i, config)[Len(x) + 1] = config
        /\ i # 0 => i \in 1..Len(Put(x, i, config)) /\ Put(x, i, config)[i] = config
    BY PutConfig
  <2>4. index' = IF index = 0 THEN Len(List) + 1 ELSE index
    BY DEF SaveConfigEntry
  <2> QED BY <2>1, <2>2, <2>3, <2>4, <1>4
<1>6. /\ page # "loading" /\ sets' = [sets EXCEPT ![scope] = list] /\ edited' = edited \union {scope}
      /\ Send("save", sets') /\ draft' = id /\ made' \in Nat /\ unsaved' = TRUE
  BY <1>1, <1>2, <1>4 DEF SaveConfigEntry, Uses, IndInv, TypeOK
<1>7. /\ IsSets(sets') /\ IsSets(saved') /\ scope' \in DOMAIN sets' /\ List' = list /\ edited' \subseteq Scope
  BY <1>5, <1>6, ListChanged
<1>8. /\ RestAgrees' /\ RequestsOK'
      /\ \A r \in UnderWay' : r \in UnderWay \/ requests'[r].kind = "save"
  BY <1>5, <1>6, ListSent
<1>9. TypeOK'
  BY <1>5, <1>6, <1>7, <1>8 DEF IndInv, TypeOK
<1>10. OpenIsEdited'
  BY <1>2, <1>5, <1>6, <1>7 DEF OpenIsEdited
<1>11. Patient => DeletesClose'
  BY <1>8 DEF Uses, DeletesClose
<1> QED BY <1>6, <1>8, <1>9, <1>10, <1>11 DEF IndInv, LoadingIsQuiet

\* A config is deleted on the page before the server knows.
LEMMA DeleteStep ==
  ASSUME IndInv, NEW kind \in {"delete", "modalDelete"}, Uses, DeleteConfigEntry(kind)
  PROVE  IndInv'
<1>1. List \in Seq(Config) /\ index \in 1..Len(List)
  BY DEF IndInv, TypeOK, IsSets, List, DeleteConfigEntry
<1>2. PICK list \in Seq(Config) : list = RemoveAt(List, index)
  BY <1>1, RemoveAtType
<1>3. /\ page # "loading" /\ sets' = [sets EXCEPT ![scope] = list] /\ edited' = edited \union {scope}
      /\ saved' = saved /\ page' = page /\ scope' = scope /\ Send(kind, sets') /\ index' = 0
      /\ known' = known /\ draft' = draft /\ modalOpen' = modalOpen /\ modalDraft' = modalDraft
      /\ made' = made /\ unsaved' = TRUE
  BY <1>2 DEF DeleteConfigEntry, Uses
<1>4. /\ IsSets(sets') /\ IsSets(saved') /\ scope' \in DOMAIN sets' /\ List' = list /\ edited' \subseteq Scope
  BY <1>2, <1>3, ListChanged
<1>5. RestAgrees' /\ RequestsOK'
  BY <1>2, <1>3, ListSent
<1>6. Len(list) \in Nat
  BY <1>2
<1>7. TypeOK'
  BY <1>3, <1>4, <1>5, <1>6 DEF IndInv, TypeOK
<1> QED BY <1>3, <1>5, <1>7 DEF IndInv, LoadingIsQuiet, OpenIsEdited, DeletesClose

\* The page's part of a step of the server or of an answer.
LEMMA OneRequest ==
  ASSUME RequestsOK, NEW r \in Slots, requests[r].step # "idle",
         NEW value, requests' = [requests EXCEPT ![r] = value]
  PROVE  /\ r \in UnderWay
         /\ DOMAIN requests' = Slots /\ requests'[r] = value
         /\ \A q \in Slots \ {r} : requests'[q] = requests[q]
         /\ UnderWay' \subseteq UnderWay
         /\ value = Idle => r \notin UnderWay'
         /\ \A q \in UnderWay : q # r => q \in UnderWay'
<1>1. r \in UnderWay
  BY DEF UnderWay, Idle
<1> QED BY <1>1 DEF UnderWay, RequestsOK

\* A request changes its step, or is answered.
LEMMA RequestStep ==
  ASSUME RequestsOK, NEW r \in Slots, NEW value, requests' = [requests EXCEPT ![r] = value],
         requests[r].step \in {"sent", "applied", "failed"},
         \/ value = Idle
         \/ /\ value.kind = requests[r].kind /\ value.body = requests[r].body
            /\ value.step \in {"applied", "failed"} /\ DOMAIN value = DOMAIN Idle
  PROVE  /\ RequestsOK' /\ r \in UnderWay
         /\ \A q \in UnderWay' :
              /\ q \in UnderWay /\ requests'[q].kind = requests[q].kind
              /\ requests'[q].body = requests[q].body
<1>1. /\ r \in UnderWay /\ DOMAIN requests' = Slots /\ requests'[r] = value
      /\ \A q \in Slots \ {r} : requests'[q] = requests[q]
      /\ UnderWay' \subseteq UnderWay
      /\ value = Idle => r \notin UnderWay'
  BY OneRequest
<1>2. ASSUME NEW q \in UnderWay'
      PROVE  /\ q \in UnderWay /\ requests'[q].kind = requests[q].kind
             /\ requests'[q].body = requests[q].body
             /\ requests'[q].step \in {"sent", "applied", "failed"}
             /\ DOMAIN requests'[q] = DOMAIN Idle
  <2>1. q \in UnderWay /\ q \in Slots
    BY <1>1 DEF UnderWay
  <2>2. CASE q = r
    BY <2>2, <1>1
  <2>3. CASE q # r
    BY <2>1, <2>3, <1>1 DEF RequestsOK
  <2> QED BY <2>2, <2>3
<1>3. RequestsOK'
  BY <1>1, <1>2 DEF RequestsOK
<1> QED BY <1>1, <1>2, <1>3

\* The server takes a library: the names are made up, nothing else is (server.go:192-239).
LEMMA ApplyStep ==
  ASSUME IndInv, NEW r \in Slots, Apply(r)
  PROVE  /\ IndInv'
         /\ page = "ready" => \A s \in Scope \ edited :
              SameButNames(ConfigsOf(saved', s), ConfigsOf(saved, s))
<1>1. RequestsOK /\ requests[r].step = "sent"
      /\ requests' = [requests EXCEPT ![r] = [requests[r] EXCEPT !.step = "applied"]]
  BY DEF Apply, Step, IndInv, TypeOK
<1>2. r \in UnderWay
  BY <1>1 DEF UnderWay, Idle
<1>3. PICK body : body = requests[r].body /\ IsSets(body)
  BY <1>2 DEF IndInv, TypeOK, RequestsOK
<1>4. /\ RequestsOK'
      /\ \A q \in UnderWay' :
           /\ q \in UnderWay /\ requests'[q].kind = requests[q].kind
           /\ requests'[q].body = requests[q].body
  <2>1. PICK value : value = [requests[r] EXCEPT !.step = "applied"]
    OBVIOUS
  <2>2. value.kind = requests[r].kind /\ value.body = requests[r].body /\ value.step = "applied"
       /\ DOMAIN value = DOMAIN Idle
    <3>1. DOMAIN requests[r] = {"kind", "body", "step"}
      BY <1>1, <1>2 DEF RequestsOK, Idle
    <3> QED BY <3>1, <2>1 DEF Idle
  <2> QED BY <2>1, <2>2, <1>1, RequestStep
<1>5. /\ IsSets(saved')
      /\ \A s : ConfigsOf(saved', s) = Named(ConfigsOf(body, s))
  BY <1>3, Names_ DEF Apply
<1>6. ASSUME page = "ready", NEW s \in Scope \ edited
      PROVE  /\ ConfigsOf(saved', s) = Named(ConfigsOf(saved, s))
             /\ Named(ConfigsOf(saved', s)) = Named(ConfigsOf(saved, s))
  <2>1. Named(ConfigsOf(body, s)) = Named(ConfigsOf(saved, s))
    BY <1>2, <1>3, <1>6 DEF IndInv, RestAgrees, HasTheRest
  <2>2. Named(Named(ConfigsOf(saved, s))) = Named(ConfigsOf(saved, s))
    BY ConfigsType, NamedConfigs DEF IndInv, TypeOK
  <2> QED BY <2>1, <2>2, <1>5
<1>7. RestAgrees'
  BY <1>4, <1>6 DEF Apply, IndInv, RestAgrees, HasTheRest
<1>8. TypeOK'
  BY <1>4, <1>5 DEF Apply, editor, List, IndInv, TypeOK
<1>9. LoadingIsQuiet' /\ (OpenIsEdited => OpenIsEdited') /\ (DeletesClose => DeletesClose')
  BY <1>2, <1>4 DEF Apply, editor, List, IndInv, LoadingIsQuiet, OpenIsEdited, DeletesClose
<1> QED BY <1>6, <1>7, <1>8, <1>9 DEF IndInv, SameButNames

\* Failures and answers: the configs stay as they are.
LEMMA AnswerStep ==
  ASSUME IndInv, NEW r \in Slots, Fail(r) \/ SaveAnswered(r) \/ DeleteAnswered(r)
  PROVE  IndInv'
<1>1. /\ RequestsOK /\ requests[r].step \in {"sent", "applied", "failed"}
      /\ saved' = saved /\ page' = page /\ known' = known /\ sets' = sets /\ scope' = scope
      /\ made' = made /\ edited' = edited /\ modalDraft' = modalDraft
  BY DEF Fail, SaveAnswered, DeleteAnswered, editor, IndInv, TypeOK
<1>2. r \in UnderWay
  BY <1>1 DEF UnderWay, Idle
<1>3. /\ RequestsOK'
      /\ \A q \in UnderWay' :
           /\ q \in UnderWay /\ requests'[q].kind = requests[q].kind
           /\ requests'[q].body = requests[q].body
  <2>1. CASE Fail(r)
    <3>1. PICK value : value = [requests[r] EXCEPT !.step = "failed"]
      OBVIOUS
    <3>2. value.kind = requests[r].kind /\ value.body = requests[r].body /\ value.step = "failed"
         /\ DOMAIN value = DOMAIN Idle
      <4>1. DOMAIN requests[r] = {"kind", "body", "step"}
        BY <1>1, <1>2 DEF RequestsOK, Idle
      <4> QED BY <4>1, <3>1 DEF Idle
    <3> QED BY <2>1, <3>1, <3>2, <1>1, RequestStep DEF Fail, Step
  <2>2. CASE SaveAnswered(r) \/ DeleteAnswered(r)
    <3>1. requests' = [requests EXCEPT ![r] = Idle]
      BY <2>2 DEF SaveAnswered, DeleteAnswered, Done
    <3> QED BY <3>1, <1>1, RequestStep
  <2> QED BY <2>1, <2>2
<1>4. RestAgrees'
  BY <1>1, <1>3 DEF IndInv, RestAgrees, HasTheRest
<1>5. List' = List /\ Len(List) \in Nat /\ index \in 0..Len(List)
  BY <1>1 DEF List, IndInv, TypeOK, IsSets
<1>6. /\ index' \in {0, index} /\ draft' \in Nat /\ modalOpen' \in BOOLEAN /\ unsaved' \in BOOLEAN
  <2>1. index \in Nat /\ draft \in Nat /\ modalDraft \in Nat /\ modalOpen \in BOOLEAN /\ unsaved \in BOOLEAN
    BY <1>5 DEF IndInv, TypeOK
  <2>2. CASE Fail(r) \/ SaveAnswered(r)
    <3>1. index' = index /\ draft' = draft /\ modalOpen' = modalOpen
      BY <2>2 DEF Fail, SaveAnswered, editor
    <3>2. unsaved' \in BOOLEAN
      BY <2>1, <2>2, Zenon DEF Fail, SaveAnswered
    <3> QED BY <2>1, <3>1, <3>2
  <2>3. CASE DeleteAnswered(r)
    <3>1. index' \in {0, index} /\ draft' \in {0, draft, modalDraft}
      BY <2>3 DEF DeleteAnswered
    <3>2. modalOpen' = FALSE \/ modalOpen' = modalOpen
      BY <2>3, Zenon DEF DeleteAnswered
    <3>3. unsaved' \in BOOLEAN
      BY <2>1, <2>3, Zenon DEF DeleteAnswered
    <3>4. modalOpen' \in BOOLEAN
      BY <2>1, <3>2, Zenon
    <3>5. draft' \in Nat
      BY <2>1, <3>1
    <3> QED BY <3>1, <3>3, <3>4, <3>5
  <2> QED BY <2>2, <2>3
<1>7. TypeOK'
  BY <1>1, <1>3, <1>5, <1>6 DEF IndInv, TypeOK
<1>8. LoadingIsQuiet'
  BY <1>1, <1>2 DEF IndInv, LoadingIsQuiet
<1>9. DeletesClose => DeletesClose'
  BY <1>3, <1>6 DEF DeletesClose
<1>10. DeletesClose /\ OpenIsEdited => OpenIsEdited'
  <2>1. CASE Fail(r) \/ SaveAnswered(r)
    BY <2>1, <1>5 DEF Fail, SaveAnswered, editor, OpenIsEdited
  <2>2. CASE DeleteAnswered(r)
    BY <2>2, <1>2, <1>6 DEF DeleteAnswered, DeletesClose, OpenIsEdited
  <2> QED BY <2>1, <2>2
<1> QED BY <1>4, <1>7, <1>8, <1>9, <1>10 DEF IndInv

\* Every step keeps the invariant, and what KeepsTheRest says.
LEMMA Inductive ==
  ASSUME IndInv, [Next]_vars
  PROVE  /\ IndInv'
         /\ page # "blank" => \A s \in Scope \ edited :
              SameButNames(ConfigsOf(saved', s), ConfigsOf(saved, s))
<1> DEFINE Kept == page # "blank" => \A s \in Scope \ edited : SameButNames(ConfigsOf(saved', s), ConfigsOf(saved, s))
<1>0. saved' = saved => Kept
  BY DEF SameButNames
<1>1. TypeOK
  BY DEF IndInv
<1>2. CASE Load
  BY <1>0, <1>2, LoadStep DEF Load
<1>3. CASE Reload
  BY <1>0, <1>3, ReloadStep DEF Reload
<1>4. CASE \E c \in Cores : SelectCore(c)
  <2>1. PICK c \in Cores : Show(<<c, scope[2]>>)
    BY <1>4 DEF SelectCore
  <2>2. PICK s \in Scope : s = <<c, scope[2]>>
    BY <1>1, Scopes
  <2>3. Show(s)
    BY <2>1, <2>2
  <2>4. IndInv'
    BY <2>3, ShowStep
  <2> QED BY <2>3, <2>4, <1>0 DEF Show
<1>5. CASE \E s \in Squads \union {Default} : SelectSquad(s)
  <2>1. PICK q \in known \union {Default} : Show(<<scope[1], q>>)
    BY <1>5 DEF SelectSquad
  <2>2. PICK s \in Scope : s = <<scope[1], q>>
    BY <1>1, Scopes
  <2>3. Show(s)
    BY <2>1, <2>2
  <2>4. IndInv'
    BY <2>3, ShowStep
  <2> QED BY <2>3, <2>4, <1>0 DEF Show
<1>6. CASE NewConfig \/ OpenModal \/ CloseModal \/ \E i \in DOMAIN List : SelectConfig(i)
  <2>1. IndInv'
    BY <1>6, EditorStep
  <2>2. saved' = saved
    BY <1>6 DEF NewConfig, OpenModal, CloseModal, SelectConfig
  <2> QED BY <2>1, <2>2, <1>0
<1>7. CASE \E from, to \in DOMAIN List : MoveConfigItem(from, to)
  <2>1. PICK from \in DOMAIN List, to \in DOMAIN List : MoveConfigItem(from, to)
    BY <1>7
  <2>2. IndInv'
    BY <2>1, MoveStep
  <2> QED BY <2>1, <2>2, <1>0 DEF MoveConfigItem
<1>8. CASE \E text \in Texts : SaveInPanel(text)
  <2>1. PICK text \in Texts : SaveInPanel(text)
    BY <1>8
  <2>2. draft \in Nat /\ modalDraft' \in Nat /\ ~modalOpen /\ Uses
    BY <2>1, <1>1 DEF SaveInPanel, UsesPanel, TypeOK
  <2>3. /\ SaveConfigEntry(draft, text) /\ modalOpen' = modalOpen
        /\ saved' = saved /\ page' = page /\ known' = known /\ scope' = scope
    BY <2>1 DEF SaveInPanel
  <2>4. IndInv'
    BY <2>2, <2>3, SaveStep
  <2> QED BY <2>3, <2>4, <1>0
<1>9. CASE \E text \in Texts : ModalSaveConfig(text)
  <2>1. PICK text \in Texts : ModalSaveConfig(text)
    BY <1>9
  <2>2. /\ SaveConfigEntry(modalDraft, text) /\ modalOpen' = modalOpen /\ modalDraft' = draft'
        /\ saved' = saved /\ page' = page /\ known' = known /\ scope' = scope /\ Uses
    BY <2>1 DEF ModalSaveConfig
  <2>3. modalDraft \in Nat /\ modalDraft' \in Nat
    BY <2>2, <1>1 DEF SaveConfigEntry, TypeOK
  <2>4. IndInv'
    BY <2>2, <2>3, SaveStep
  <2> QED BY <2>2, <2>4, <1>0
<1>10. CASE DeleteInPanel \/ ModalDeleteConfig
  <2>1. PICK kind \in {"delete", "modalDelete"} : Uses /\ DeleteConfigEntry(kind)
    BY <1>10 DEF DeleteInPanel, ModalDeleteConfig, UsesPanel
  <2>2. IndInv'
    BY <2>1, DeleteStep
  <2> QED BY <2>1, <2>2, <1>0 DEF DeleteConfigEntry
<1>11. CASE \E r \in Slots : Apply(r)
  <2>1. PICK r \in Slots : Apply(r)
    BY <1>11
  <2>2. r \in UnderWay
    BY <2>1 DEF Apply, UnderWay, Idle
  <2>3. page \in {"ready", "blank"}
    BY <2>2, <1>1 DEF IndInv, LoadingIsQuiet, TypeOK
  <2> QED BY <2>1, <2>3, ApplyStep
<1>12. CASE \E r \in Slots : Fail(r) \/ SaveAnswered(r) \/ DeleteAnswered(r)
  <2>1. PICK r \in Slots : Fail(r) \/ SaveAnswered(r) \/ DeleteAnswered(r)
    BY <1>12
  <2>2. IndInv'
    BY <2>1, AnswerStep
  <2>3. saved' = saved
    BY <2>1 DEF Fail, SaveAnswered, DeleteAnswered
  <2> QED BY <2>2, <2>3, <1>0
<1>13. CASE UNCHANGED vars
  <2>1. IndInv'
    BY <1>13 DEF vars, IndInv, TypeOK, RequestsOK, UnderWay, List, LoadingIsQuiet,
                 RestAgrees, HasTheRest, OpenIsEdited, DeletesClose
  <2> QED BY <2>1, <1>0, <1>13 DEF vars
<1>14. CASE LoadFails
  BY <1>0, <1>14, LoadFailsStep DEF LoadFails
<1> QED
  BY <1>2, <1>3, <1>4, <1>5, <1>6, <1>7, <1>8, <1>9, <1>10, <1>11, <1>12, <1>13, <1>14 DEF Next

-----------------------------------------------------------------------------
(* The theorems *)

\* Every state has the invariant: lists, index and requests have their types, unchanged
\* scopes agree with the server, and a patient administrator edits what he sees.
THEOREM Invariance == Spec => []IndInv
<1>1. IndInv /\ [Next]_vars => IndInv'
  BY Inductive
<1> QED BY <1>1, Initially, PTL DEF Spec

\* The types, and with them that the index is in the list on show (app.js:890-903, 954-972).
THEOREM TypeCorrect == Spec => []TypeOK
<1>1. IndInv => TypeOK
  BY DEF IndInv
<1> QED BY <1>1, Invariance, PTL

\* Whatever the administrator does and however many POSTs are under way, fail or come
\* late, the server's configs of the scopes he did not change stay (app.js:764-774).
THEOREM KeepsTheRestHolds == Spec => KeepsTheRest
<1>1. IndInv /\ [Next]_vars =>
        [page # "blank" => \A s \in Scope \ edited :
           SameButNames(ConfigsOf(saved', s), ConfigsOf(saved, s))]_vars
  BY Inductive
<1> QED BY <1>1, Invariance, PTL DEF Spec, KeepsTheRest

\* If he waits for every answer, what is in the editor is the config that a save
\* replaces, also after moves and deletes that fail (app.js:954-972, 1109-1128).
THEOREM OpenIsEditedHolds == Patient => (Spec => []OpenIsEdited)
<1> SUFFICES ASSUME Patient PROVE Spec => []OpenIsEdited
  OBVIOUS
<1>1. IndInv => OpenIsEdited
  BY DEF IndInv
<1> QED BY <1>1, Invariance, PTL

-----------------------------------------------------------------------------
(* The identities of configs *)

\* A list whose configs are taken from another one, each from another place of it,
\* has different configs too, and no others.
LEMMA Taken ==
  ASSUME NEW list \in Seq(Config), NEW new \in Seq(Config), NEW n \in Nat,
         NEW f \in [1..Len(new) -> 1..Len(list)],
         \A i \in 1..Len(new) : new[i].id = list[f[i]].id,
         \A i, j \in 1..Len(new) : i # j => f[i] # f[j]
  PROVE  /\ Own(list, n) => Own(new, n)
         /\ \A id : ~Holds(list, id) => ~Holds(new, id)
<1>1. DOMAIN list = 1..Len(list) /\ DOMAIN new = 1..Len(new) /\ \A i \in 1..Len(new) : f[i] \in 1..Len(list)
  OBVIOUS
<1>2. Own(list, n) => Own(new, n)
  BY <1>1 DEF Own
<1> QED BY <1>1, <1>2 DEF Holds

\* Deleting a config: it is gone, and the others are the same (app.js:1115).
LEMMA RemovedConfigs ==
  ASSUME NEW list \in Seq(Config), NEW i \in 1..Len(list), NEW n \in Nat, Own(list, n)
  PROVE  /\ Own(RemoveAt(list, i), n)
         /\ ~Holds(RemoveAt(list, i), list[i].id)
         /\ \A id : ~Holds(list, id) => ~Holds(RemoveAt(list, i), id)
<1>1. PICK new \in Seq(Config) :
        /\ new = RemoveAt(list, i) /\ Len(new) = Len(list) - 1
        /\ \A k \in 1..(Len(list) - 1) : new[k] = IF k < i THEN list[k] ELSE list[k + 1]
  BY RemoveAtType
<1>2. PICK f : f = [k \in 1..Len(new) |-> IF k < i THEN k ELSE k + 1]
  OBVIOUS
<1>3. Len(list) \in Nat /\ Len(new) \in Nat /\ f \in [1..Len(new) -> 1..Len(list)]
  BY <1>1, <1>2
<1>4. \A k \in 1..Len(new) : new[k] = list[f[k]] /\ f[k] # i /\ f[k] \in 1..Len(list)
  BY <1>1, <1>2
<1>5. \A j, k \in 1..Len(new) : j # k => f[j] # f[k]
  BY <1>2, <1>3
<1>6. Own(new, n) /\ \A id : ~Holds(list, id) => ~Holds(new, id)
  BY <1>3, <1>4, <1>5, Taken
<1>7. ~Holds(new, list[i].id)
  <2>1. DOMAIN list = 1..Len(list) /\ DOMAIN new = 1..Len(new)
    OBVIOUS
  <2>2. \A k \in 1..Len(new) : list[f[k]].id # list[i].id
    BY <1>4, <2>1 DEF Own
  <2> QED BY <2>1, <2>2, <1>4 DEF Holds
<1> QED BY <1>1, <1>6, <1>7

\* Moving a config back undoes the move.
LEMMA MovedBack ==
  ASSUME NEW n \in Nat, NEW from \in 1..n, NEW to \in 1..n, from # to, NEW k \in 1..n
  PROVE  /\ MovedIndex(k, to, from) \in 1..n
         /\ MovedIndex(MovedIndex(k, to, from), from, to) = k
<1>1. CASE k = to
  <2>1. MovedIndex(k, to, from) = from
    BY <1>1 DEF MovedIndex
  <2>2. MovedIndex(from, from, to) = to
    BY DEF MovedIndex
  <2> QED BY <2>1, <2>2, <1>1
<1>2. CASE to < k /\ k <= from
  <2>1. MovedIndex(k, to, from) = k - 1
    BY <1>2 DEF MovedIndex
  <2>2. k - 1 \in 1..n /\ k - 1 # from /\ ~(from < k - 1 /\ k - 1 <= to) /\ to <= k - 1 /\ k - 1 < from
    BY <1>2
  <2>3. MovedIndex(k - 1, from, to) = k - 1 + 1
    BY <2>2 DEF MovedIndex
  <2> QED BY <2>1, <2>2, <2>3
<1>3. CASE from <= k /\ k < to
  <2>1. MovedIndex(k, to, from) = k + 1
    BY <1>3 DEF MovedIndex
  <2>2. k + 1 \in 1..n /\ k + 1 # from /\ from < k + 1 /\ k + 1 <= to
    BY <1>3
  <2>3. MovedIndex(k + 1, from, to) = k + 1 - 1
    BY <2>2 DEF MovedIndex
  <2> QED BY <2>1, <2>2, <2>3
<1>4. CASE k # to /\ ~(to < k /\ k <= from) /\ ~(from <= k /\ k < to)
  <2>1. MovedIndex(k, to, from) = k
    BY <1>4 DEF MovedIndex
  <2>2. k # from /\ ~(from < k /\ k <= to) /\ ~(to <= k /\ k < from)
    BY <1>4
  <2>3. MovedIndex(k, from, to) = k
    BY <2>2 DEF MovedIndex
  <2> QED BY <2>1, <2>3
<1> QED BY <1>1, <1>2, <1>3, <1>4

\* Moving configs makes no other ones (app.js:954-972).
LEMMA MovedAreTaken ==
  ASSUME NEW list \in Seq(Config), NEW from \in 1..Len(list), NEW to \in 1..Len(list), from # to,
         NEW n \in Nat
  PROVE  /\ Own(list, n) => Own(Moved(list, from, to), n)
         /\ \A id : ~Holds(list, id) => ~Holds(Moved(list, from, to), id)
<1>1. PICK new \in Seq(Config) :
        /\ new = Moved(list, from, to) /\ Len(new) = Len(list)
        /\ \A k \in 1..Len(list) : new[MovedIndex(k, from, to)] = list[k]
  BY MovedConfigs
<1>2. PICK f : f = [k \in 1..Len(new) |-> MovedIndex(k, to, from)]
  OBVIOUS
<1>3. Len(list) \in Nat
  OBVIOUS
<1>4. ASSUME NEW k \in 1..Len(new)
      PROVE  f[k] \in 1..Len(list) /\ MovedIndex(f[k], from, to) = k
  BY <1>1, <1>2, <1>3, MovedBack
<1>5. f \in [1..Len(new) -> 1..Len(list)]
  BY <1>2, <1>4
<1>6. \A k \in 1..Len(new) : new[k] = list[f[k]]
  BY <1>1, <1>4
<1>7. \A j, k \in 1..Len(new) : j # k => f[j] # f[k]
  BY <1>4
<1>8. \A k \in 1..Len(new) : new[k].id = list[f[k]].id
  BY <1>6
<1>9. (Own(list, n) => Own(new, n)) /\ \A id : ~Holds(list, id) => ~Holds(new, id)
  BY <1>5, <1>7, <1>8, Taken
<1> QED BY <1>1, <1>9

\* Names are no part of an identity.
LEMMA NamedAreTaken ==
  ASSUME NEW list \in Seq(Config), NEW n \in Nat, Own(list, n)
  PROVE  Own(Named(list), n)
<1>1. \A i \in DOMAIN list : Named(list)[i].id = list[i].id
  <2>1. \A i \in DOMAIN list : list[i] \in Config
    OBVIOUS
  <2>2. \A i \in DOMAIN list : [list[i] EXCEPT !.name = i].id = list[i].id
    BY <2>1 DEF Config
  <2> QED BY <2>2 DEF Named
<1>2. DOMAIN Named(list) = DOMAIN list
  BY DEF Named
<1> QED BY <1>1, <1>2 DEF Own

\* Saving a config where it was, or one that is not in the list at its end, makes no
\* second one of it (app.js:1086-1092).
LEMMA PutKeepsOwn ==
  ASSUME NEW list \in Seq(Config), NEW i \in 0..Len(list), NEW config \in Config, NEW n \in Nat,
         Own(list, n), config.id <= n,
         i = 0 => ~Holds(list, config.id), i # 0 => list[i].id = config.id
  PROVE  Own(Put(list, i, config), n)
<1>1. CASE i = 0
  <2>1. PICK new \in Seq(Config) :
          /\ new = Append(list, config) /\ Len(new) = Len(list) + 1
          /\ new[Len(list) + 1] = config /\ \A k \in 1..Len(list) : new[k] = list[k]
    <3>0. Append(list, config) \in Seq(Config)
      OBVIOUS
    <3>1. PICK new \in Seq(Config) : new = Append(list, config)
      BY <3>0
    <3>2. Len(new) = Len(list) + 1 /\ new[Len(list) + 1] = config
      BY <3>1
    <3>3. \A k \in 1..Len(list) : new[k] = list[k]
      BY <3>1
    <3> QED BY <3>1, <3>2, <3>3
  <2>2. /\ Len(list) \in Nat /\ DOMAIN list = 1..Len(list) /\ DOMAIN new = 1..(Len(list) + 1)
    BY <2>1
  <2>3. \A k \in 1..Len(list) : list[k].id # config.id
    BY <1>1, <2>2 DEF Holds
  <2>4. ASSUME NEW j \in DOMAIN new PROVE new[j].id <= n
    BY <2>1, <2>2 DEF Own
  <2>5. ASSUME NEW j \in DOMAIN new, NEW k \in DOMAIN new, j # k
        PROVE  new[j].id # new[k].id
    <3>1. CASE j = Len(list) + 1
      <4>1. k \in 1..Len(list)
        BY <3>1, <2>5, <2>2
      <4> QED BY <3>1, <4>1, <2>1, <2>3
    <3>2. CASE k = Len(list) + 1
      <4>1. j \in 1..Len(list)
        BY <3>2, <2>5, <2>2
      <4> QED BY <3>2, <4>1, <2>1, <2>3
    <3>3. CASE j # Len(list) + 1 /\ k # Len(list) + 1
      <4>1. j \in 1..Len(list) /\ k \in 1..Len(list)
        BY <3>3, <2>2
      <4> QED BY <4>1, <2>5, <2>1, <2>2 DEF Own
    <3> QED BY <3>1, <3>2, <3>3
  <2>6. Own(new, n)
    BY <2>4, <2>5 DEF Own
  <2> QED BY <1>1, <2>1, <2>6 DEF Put
<1>2. CASE i # 0
  <2>1. PICK new : new = [list EXCEPT ![i] = config]
    OBVIOUS
  <2>2. DOMAIN new = DOMAIN list /\ \A k \in DOMAIN list : new[k].id = list[k].id
    BY <1>2, <2>1
  <2>3. Own(new, n)
    BY <2>2 DEF Own
  <2> QED BY <1>2, <2>1, <2>3 DEF Put
<1> QED BY <1>1, <1>2

\* What is among the first n configs is among more of them.
LEMMA MoreConfigs ==
  ASSUME NEW x, IsSets(x), NEW n \in Nat, NEW m \in Nat, n <= m, Counted(x, n)
  PROVE  Counted(x, m)
<1> SUFFICES ASSUME NEW s \in DOMAIN x PROVE Own(x[s], m)
  BY DEF Counted
<1>1. x[s] \in Seq(Config) /\ Own(x[s], n)
  BY DEF IsSets, Counted
<1>2. \A i \in DOMAIN x[s] : x[s][i].id \in Nat
  <2>1. \A i \in DOMAIN x[s] : x[s][i] \in Config
    BY <1>1
  <2> QED BY <2>1 DEF Config
<1> QED BY <1>1, <1>2 DEF Own

\* A library with one list changed, with a list made, or with names given.
LEMMA ReplacedOwn ==
  ASSUME NEW x, NEW n, Counted(x, n), NEW s \in DOMAIN x, NEW list, Own(list, n)
  PROVE  Counted([x EXCEPT ![s] = list], n)
<1>1. DOMAIN [x EXCEPT ![s] = list] = DOMAIN x
  OBVIOUS
<1>2. \A t \in DOMAIN x : [x EXCEPT ![s] = list][t] = IF t = s THEN list ELSE x[t]
  OBVIOUS
<1> QED BY <1>1, <1>2 DEF Counted

LEMMA MadeOwn ==
  ASSUME NEW x, NEW n, Counted(x, n), NEW s
  PROVE  Counted(WithList(x, s), n)
<1>1. Own(<<>>, n)
  BY DEF Own
<1> QED BY <1>1 DEF Counted, WithList, ConfigsOf

LEMMA NamesOwn ==
  ASSUME NEW x, IsSets(x), NEW n \in Nat, Counted(x, n)
  PROVE  Counted(AllNamed(x), n) /\ Counted(Shown(x), n)
<1>1. \A s \in DOMAIN x : Own(x[s], n) /\ Own(Named(x[s]), n)
  BY NamedAreTaken DEF IsSets, Counted
<1> QED BY <1>1 DEF Counted, AllNamed, Shown

\* At first each config of the library has an identity of its own.
LEMMA OwnAtFirst == Init => IdentityInv
<1> SUFFICES ASSUME Init PROVE IdentityInv
  OBVIOUS
<1>1. Counted(saved, made)
  BY IdentityAssumption DEF Init
<1>2. Counted(sets, made)
  BY DEF Init, NoConfigs, Counted, Own
<1>3. UnderWay = {} /\ made \in Nat
  BY PageAssumption DEF Init, UnderWay
<1>4. draft <= made /\ modalDraft <= made /\ AddsNoTwin(draft) /\ ~modalOpen /\ draft = 0
  BY <1>3 DEF Init, AddsNoTwin
<1> QED BY <1>1, <1>2, <1>3, <1>4 DEF IdentityInv

\* Loading and reloading: the page has the configs of the server, or none.
LEMMA LoadsOwn ==
  ASSUME IndInv, IdentityInv, Load \/ LoadFails \/ Reload
  PROVE  IdentityInv'
<1>1. /\ saved' = saved /\ made' = made /\ requests' = requests /\ UnderWay' = {}
      /\ made \in Nat /\ IsSets(saved)
  BY DEF Load, LoadFails, Reload, UnderWay, IndInv, TypeOK, LoadingIsQuiet
<1>2. Counted(sets', made')
  <2>1. CASE Load
    BY <2>1, <1>1, NamesOwn DEF Load, IdentityInv
  <2>2. CASE LoadFails
    BY <2>2, <1>1 DEF LoadFails, IdentityInv
  <2>3. CASE Reload
    BY <2>3 DEF Reload, NoConfigs, Counted, Own
  <2> QED BY <2>1, <2>2, <2>3
<1>3. /\ draft' = 0 /\ modalDraft' \in {0, modalDraft} /\ modalOpen' = FALSE
  <2>1. CASE Load \/ LoadFails
    BY <2>1 DEF Load, LoadFails, editor, IdentityInv, IndInv, TypeOK
  <2>2. CASE Reload
    BY <2>2 DEF Reload
  <2> QED BY <2>1, <2>2
<1>4. draft' <= made' /\ modalDraft' <= made' /\ AddsNoTwin(draft)'
  BY <1>1, <1>3 DEF IdentityInv, AddsNoTwin
<1> QED BY <1>1, <1>2, <1>3, <1>4 DEF IdentityInv

\* Steps that only show something else.
LEMMA ShowsOwn ==
  ASSUME IndInv, IdentityInv, NEW s \in Scope, Show(s)
  PROVE  IdentityInv'
<1>1. /\ saved' = saved /\ made' = made /\ requests' = requests /\ UnderWay' = UnderWay
      /\ page' = page /\ page # "loading" /\ index' = 0 /\ draft' = 0
      /\ modalOpen' = modalOpen /\ modalDraft' = modalDraft /\ ~modalOpen /\ made \in Nat
  BY DEF Show, ClearConfigEditor, UsesPanel, Uses, UnderWay, IndInv, TypeOK
<1>2. Counted(sets', made')
  BY <1>1, MadeOwn DEF Show, IdentityInv
<1>3. draft' <= made' /\ modalDraft' <= made' /\ AddsNoTwin(draft)'
  BY <1>1 DEF IdentityInv, AddsNoTwin
<1> QED BY <1>1, <1>2, <1>3 DEF IdentityInv
LEMMA EditsOwn ==
  ASSUME Patient, IndInv, IdentityInv,
         NewConfig \/ OpenModal \/ CloseModal \/ \E i \in DOMAIN List : SelectConfig(i)
  PROVE  IdentityInv'
<1>1. /\ saved' = saved /\ made' = made /\ requests' = requests /\ UnderWay = {} /\ UnderWay' = {}
      /\ page' = page /\ page # "loading" /\ sets' = sets /\ List' = List /\ made \in Nat
  BY DEF NewConfig, OpenModal, CloseModal, SelectConfig, UsesPanel, Uses, UnderWay, List, IndInv, TypeOK
<1>2. /\ draft <= made /\ modalDraft <= made /\ AddsNoTwin(draft)
      /\ modalOpen => AddsNoTwin(modalDraft)
  BY DEF IdentityInv
<1>3. /\ draft' <= made' /\ modalDraft' <= made' /\ AddsNoTwin(draft)'
      /\ modalOpen' => AddsNoTwin(modalDraft)'
  <2>1. CASE NewConfig
    BY <2>1, <1>1, <1>2 DEF NewConfig, ClearConfigEditor, UsesPanel, AddsNoTwin
  <2>2. CASE OpenModal
    BY <2>2, <1>1, <1>2 DEF OpenModal, AddsNoTwin
  <2>3. CASE CloseModal
    BY <2>3, <1>1, <1>2 DEF CloseModal, AddsNoTwin
  <2>4. CASE \E i \in DOMAIN List : SelectConfig(i)
    <3>1. PICK i \in DOMAIN List : SelectConfig(i)
      BY <2>4
    <3>2. List[i].id <= made /\ i # 0
      BY DEF IdentityInv, Counted, Own, List, IndInv, TypeOK, IsSets
    <3> QED BY <3>1, <3>2, <1>1, <1>2 DEF SelectConfig, UsesPanel, AddsNoTwin
  <2> QED BY <2>1, <2>2, <2>3, <2>4
<1> QED BY <1>1, <1>3 DEF IdentityInv

\* Moving configs.
LEMMA MovesOwn ==
  ASSUME Patient, IndInv, IdentityInv, NEW from \in DOMAIN List, NEW to \in DOMAIN List,
         MoveConfigItem(from, to)
  PROVE  IdentityInv'
<1>1. /\ List \in Seq(Config) /\ from \in 1..Len(List) /\ to \in 1..Len(List) /\ from # to
      /\ scope \in DOMAIN sets /\ made \in Nat /\ index \in 0..Len(List)
  BY DEF IndInv, TypeOK, IsSets, List, MoveConfigItem
<1>2. PICK list : list = Moved(List, from, to)
  OBVIOUS
<1>3. /\ Own(List, made) => Own(list, made)
      /\ \A id : ~Holds(List, id) => ~Holds(list, id)
  BY <1>1, <1>2, MovedAreTaken
<1>4. Own(List, made)
  BY <1>1 DEF IdentityInv, Counted, List
<1>5. /\ sets' = [sets EXCEPT ![scope] = list] /\ List' = list
      /\ saved' = saved /\ made' = made /\ page' = page /\ page # "loading"
      /\ UnderWay = {} /\ UnderWay' = {}
      /\ draft' = draft /\ modalOpen' = modalOpen /\ modalDraft' = modalDraft
      /\ index' = IF index = 0 THEN 0 ELSE MovedIndex(index, from, to)
  BY <1>1, <1>2 DEF MoveConfigItem, UsesPanel, Uses, UnderWay, List
<1>6. Counted(sets', made')
  BY <1>1, <1>3, <1>4, <1>5, ReplacedOwn DEF IdentityInv
<1>7. index' = 0 => index = 0
  <2>1. \A k \in 1..Len(List) : MovedIndex(k, from, to) \in 1..Len(List)
    BY <1>1, MovedConfigs
  <2> QED BY <2>1, <1>1, <1>5
<1>8. AddsNoTwin(draft)' /\ (modalOpen' => AddsNoTwin(modalDraft)')
  BY <1>3, <1>5, <1>7 DEF IdentityInv, AddsNoTwin
<1> QED BY <1>5, <1>6, <1>8 DEF IdentityInv

\* A POST that is sent carries what is on the page, and is the only one.
LEMMA SentAlone ==
  ASSUME NEW kind \in {"save", "delete", "modalDelete"}, IsSets(sets'), RequestsOK, UnderWay = {},
         Send(kind, sets')
  PROVE  \E r0 \in Slots : /\ UnderWay' = {r0} /\ requests'[r0].kind = kind
                           /\ requests'[r0].body = sets' /\ requests'[r0].step = "sent"
<1>1. PICK body : body = sets'
  OBVIOUS
<1>2. \E r0 \in Slots :
        /\ UnderWay' = UnderWay \union {r0}
        /\ requests'[r0].kind = kind /\ requests'[r0].body = body /\ requests'[r0].step = "sent"
  BY <1>1, Sending
<1> QED BY <1>1, <1>2

\* Saving: the config is the one that is open, or none of the list.
LEMMA SavesOwn ==
  ASSUME Patient, IndInv, IdentityInv, NEW from \in Nat, NEW text \in Texts, Uses,
         SaveConfigEntry(from, text), from <= made, AddsNoTwin(from),
         index # 0 => from = List[index].id,
         modalDraft' \in {modalDraft, draft'}, saved' = saved, page' = page
  PROVE  IdentityInv'
<1>0. made \in Nat /\ IsSets(saved) /\ IsSets(sets) /\ scope \in DOMAIN sets /\ modalDraft \in Nat /\ RequestsOK
  BY DEF IndInv, TypeOK
<1>1. List \in Seq(Config) /\ index \in 0..Len(List) /\ Own(List, made)
  BY DEF IndInv, TypeOK, IsSets, List, IdentityInv, Counted
<1>2. PICK id \in Nat \ {0} : id = IF from = 0 THEN made + 1 ELSE from
  BY <1>0
<1>3. PICK m \in Nat : m = IF from = 0 THEN id ELSE made
  BY <1>0
<1>4. id <= m /\ made <= m
  BY <1>0, <1>2, <1>3
<1>5. PICK config \in Config : config = [id |-> id, text |-> text, name |-> Given]
  BY DEF Config, Names
<1>6. PICK x \in Seq(Config) : x = List
  BY <1>1
<1>7. PICK i \in 0..Len(x) : i = index
  BY <1>1, <1>6
<1>8. Own(x, m)
  <2>1. \A k \in DOMAIN x : x[k].id \in Nat
    <3>1. \A k \in DOMAIN x : x[k] \in Config
      OBVIOUS
    <3> QED BY <3>1 DEF Config
  <2> QED BY <2>1, <1>0, <1>1, <1>4, <1>6 DEF Own
<1>9. i = 0 => ~Holds(x, id)
  <2>1. CASE from = 0
    <3>1. \A k \in DOMAIN x : x[k].id <= made
      BY <1>1, <1>6 DEF Own
    <3>2. ~(made + 1 <= made)
      BY <1>0
    <3> QED BY <3>1, <3>2, <2>1, <1>2 DEF Holds
  <2>2. CASE from # 0
    BY <2>2, <1>2, <1>6, <1>7 DEF AddsNoTwin
  <2> QED BY <2>1, <2>2
<1>10. i # 0 => x[i].id = id
  <2> SUFFICES ASSUME i # 0 PROVE x[i].id = id
    OBVIOUS
  <2>1. i \in 1..Len(x)
    BY <1>7
  <2>2. x[i] \in Config
    BY <2>1
  <2>3. x[i].id # 0
    BY <2>2 DEF Config
  <2> QED BY <2>3, <1>2, <1>6, <1>7
<1>11. PICK list : list = Put(x, i, config)
  OBVIOUS
<1>12. list \in Seq(Config) /\ Own(list, m)
  <2>1. config.id = id /\ config.id <= m
    BY <1>4, <1>5
  <2>2. Own(Put(x, i, config), m)
    BY <2>1, <1>8, <1>9, <1>10, PutKeepsOwn
  <2>3. Put(x, i, config) \in Seq(Config)
    BY PutConfig
  <2> QED BY <2>2, <2>3, <1>11
<1>13. /\ sets' = [sets EXCEPT ![scope] = list] /\ made' = m /\ draft' = id
       /\ Send("save", sets') /\ index' = IF index = 0 THEN Len(List) + 1 ELSE index
  BY <1>2, <1>3, <1>5, <1>6, <1>7, <1>11 DEF SaveConfigEntry
<1>14. index' # 0
  BY <1>1, <1>13
<1>15. Counted(sets, m) /\ Counted(saved, m)
  BY <1>0, <1>4, MoreConfigs DEF IdentityInv
<1>16. Counted(sets', made') /\ Counted(saved', made')
  BY <1>0, <1>12, <1>13, <1>15, ReplacedOwn
<1>17. IsSets(sets')
  BY <1>0, <1>12, <1>13, Replaced
<1>18. UnderWay = {}
  BY DEF Uses
<1>19. PICK r0 \in Slots : /\ UnderWay' = {r0} /\ requests'[r0].kind = "save"
                           /\ requests'[r0].body = sets'
  BY <1>0, <1>13, <1>17, <1>18, SentAlone
<1>20. draft' <= made' /\ modalDraft' <= made'
  <2>1. modalDraft <= made
    BY DEF IdentityInv
  <2> QED BY <2>1, <1>0, <1>4, <1>13
<1> QED BY <1>14, <1>16, <1>19, <1>20 DEF IdentityInv, AddsNoTwin, Uses

\* Deleting: what stays in the editor is not in the list any more.
LEMMA DeletesOwn ==
  ASSUME Patient, IndInv, IdentityInv, NEW kind \in {"delete", "modalDelete"}, Uses,
         kind = "modalDelete" => modalOpen, DeleteConfigEntry(kind)
  PROVE  IdentityInv'
<1>0. made \in Nat /\ IsSets(sets) /\ scope \in DOMAIN sets /\ RequestsOK
  BY DEF IndInv, TypeOK
<1>1. List \in Seq(Config) /\ index \in 1..Len(List) /\ Own(List, made)
  BY DEF IndInv, TypeOK, IsSets, List, DeleteConfigEntry, IdentityInv, Counted
<1>2. PICK list \in Seq(Config) : list = RemoveAt(List, index)
  BY <1>1, RemoveAtType
<1>3. Own(list, made) /\ ~Holds(list, List[index].id)
  BY <1>0, <1>1, <1>2, RemovedConfigs
<1>4. /\ sets' = [sets EXCEPT ![scope] = list] /\ List' = list /\ saved' = saved /\ made' = made
      /\ page' = page /\ page # "loading" /\ Send(kind, sets') /\ index' = 0
      /\ draft' = draft /\ modalOpen' = modalOpen /\ modalDraft' = modalDraft
  BY <1>0, <1>2 DEF DeleteConfigEntry, Uses, List
<1>5. draft = List[index].id /\ (modalOpen => modalDraft = List[index].id)
  BY <1>1 DEF IndInv, OpenIsEdited
<1>6. AddsNoTwin(draft)' /\ (modalOpen' => AddsNoTwin(modalDraft)')
  BY <1>3, <1>4, <1>5 DEF AddsNoTwin
<1>7. Counted(sets', made')
  BY <1>0, <1>3, <1>4, ReplacedOwn DEF IdentityInv
<1>8. IsSets(sets')
  BY <1>0, <1>2, <1>4, Replaced
<1>9. UnderWay = {}
  BY DEF Uses
<1>10. PICK r0 \in Slots : /\ UnderWay' = {r0} /\ requests'[r0].kind = kind
                           /\ requests'[r0].body = sets'
  BY <1>0, <1>4, <1>8, <1>9, SentAlone
<1> QED BY <1>4, <1>6, <1>7, <1>10 DEF IdentityInv

\* The steps of a POST change neither what it carries nor other POSTs.
LEMMA PostStep ==
  ASSUME IndInv, NEW r \in Slots, Apply(r) \/ Fail(r) \/ SaveAnswered(r) \/ DeleteAnswered(r)
  PROVE  /\ r \in UnderWay
         /\ \A q \in UnderWay' :
              /\ q \in UnderWay /\ requests'[q].kind = requests[q].kind
              /\ requests'[q].body = requests[q].body
         /\ Apply(r) => requests'[r].step = "applied"
         /\ Fail(r) => requests'[r].step = "failed"
         /\ SaveAnswered(r) \/ DeleteAnswered(r) => r \notin UnderWay'
<1>1. RequestsOK /\ requests[r].step \in {"sent", "applied", "failed"} /\ requests[r].step # "idle"
  BY DEF Apply, Fail, SaveAnswered, DeleteAnswered, IndInv, TypeOK
<1>2. r \in UnderWay /\ DOMAIN requests[r] = {"kind", "body", "step"}
  BY <1>1 DEF UnderWay, RequestsOK, Idle
<1>3. CASE Apply(r) \/ Fail(r)
  <2>1. PICK step \in {"applied", "failed"} :
          /\ Step(r, step) /\ (Apply(r) => step = "applied") /\ (Fail(r) => step = "failed")
    <3>1. Apply(r) => requests[r].step = "sent" /\ Step(r, "applied")
      BY DEF Apply
    <3>2. Fail(r) => Step(r, "failed")
      BY DEF Fail
    <3>3. CASE Apply(r) /\ ~Fail(r)
      BY <3>1, <3>3
    <3>4. CASE Fail(r) /\ ~Apply(r)
      BY <3>2, <3>4
    <3>5. CASE Apply(r) /\ Fail(r)
      BY <3>5, <1>1, <1>2 DEF Apply, Fail, Step, RequestsOK, UnderWay
    <3> QED BY <3>3, <3>4, <3>5, <1>3
  <2>2. PICK value : value = [requests[r] EXCEPT !.step = step]
    OBVIOUS
  <2>3. value.kind = requests[r].kind /\ value.body = requests[r].body /\ value.step = step
        /\ DOMAIN value = DOMAIN Idle
    BY <1>2, <2>2 DEF Idle
  <2>4. requests' = [requests EXCEPT ![r] = value]
    BY <2>1, <2>2 DEF Step
  <2>5. \A q \in UnderWay' :
              /\ q \in UnderWay /\ requests'[q].kind = requests[q].kind
              /\ requests'[q].body = requests[q].body
    BY <2>3, <2>4, <1>1, RequestStep
  <2>6. requests'[r] = value
    BY <2>4, <1>1, OneRequest
  <2>7. ~SaveAnswered(r) /\ ~DeleteAnswered(r)
    <3>1. SaveAnswered(r) \/ DeleteAnswered(r) => requests'[r] = Idle
      BY <1>1 DEF SaveAnswered, DeleteAnswered, Done, RequestsOK
    <3>2. value.step # Idle.step
      BY <2>3 DEF Idle
    <3> QED BY <3>1, <3>2, <2>6
  <2> QED BY <1>2, <2>1, <2>3, <2>5, <2>6, <2>7
<1>4. CASE SaveAnswered(r) \/ DeleteAnswered(r)
  <2>1. requests' = [requests EXCEPT ![r] = Idle]
    BY <1>4 DEF SaveAnswered, DeleteAnswered, Done
  <2>2. \A q \in UnderWay' :
              /\ q \in UnderWay /\ requests'[q].kind = requests[q].kind
              /\ requests'[q].body = requests[q].body
    BY <2>1, <1>1, RequestStep
  <2>3. requests'[r] = Idle /\ r \notin UnderWay'
    BY <2>1, <1>1, OneRequest
  <2>4. ~Apply(r) /\ ~Fail(r)
    <3>1. Apply(r) \/ Fail(r) => requests'[r].step \in {"applied", "failed"}
      BY <1>1, <1>2 DEF Apply, Fail, Step, RequestsOK
    <3> QED BY <3>1, <2>3 DEF Idle
  <2> QED BY <1>2, <2>2, <2>3, <2>4
<1> QED BY <1>3, <1>4

\* The server and the answers make no configs.
LEMMA PostsOwn ==
  ASSUME Patient, IndInv, IdentityInv, NEW r \in Slots,
         Apply(r) \/ Fail(r) \/ SaveAnswered(r) \/ DeleteAnswered(r),
         \A q \in UnderWay : q = r
  PROVE  IdentityInv'
<1>1. /\ r \in UnderWay
      /\ \A q \in UnderWay' :
           /\ q \in UnderWay /\ requests'[q].kind = requests[q].kind
           /\ requests'[q].body = requests[q].body
      /\ SaveAnswered(r) \/ DeleteAnswered(r) => r \notin UnderWay'
  BY PostStep
<1>2. /\ sets' = sets /\ scope' = scope /\ made' = made /\ page' = page /\ List' = List
      /\ modalDraft' = modalDraft /\ made \in Nat
  BY DEF Apply, Fail, SaveAnswered, DeleteAnswered, editor, List, IndInv, TypeOK
<1>3. page # "loading"
  BY <1>1 DEF IndInv, LoadingIsQuiet
<1>4. Counted(saved', made')
  <2>1. CASE Apply(r)
    <3>1. PICK body : body = requests[r].body /\ IsSets(body) /\ Counted(body, made)
      BY <1>1 DEF IndInv, TypeOK, RequestsOK, IdentityInv
    <3>2. Counted(AllNamed(body), made)
      BY <3>1, <1>2, NamesOwn
    <3> QED BY <2>1, <3>1, <3>2, <1>2 DEF Apply
  <2>2. CASE Fail(r) \/ SaveAnswered(r) \/ DeleteAnswered(r)
    BY <2>2, <1>2 DEF Fail, SaveAnswered, DeleteAnswered, IdentityInv
  <2> QED BY <2>1, <2>2
<1>5. Counted(sets', made') /\ \A q \in UnderWay' : Counted(requests'[q].body, made')
  BY <1>1, <1>2 DEF IdentityInv
<1>6. /\ draft' <= made' /\ modalDraft' <= made' /\ AddsNoTwin(draft)'
      /\ modalOpen' => AddsNoTwin(modalDraft)'
      /\ \A q \in UnderWay' : requests'[q].kind = "modalDelete" => modalOpen'
  <2>1. CASE Apply(r) \/ Fail(r) \/ SaveAnswered(r)
    <3>1. index' = index /\ draft' = draft /\ modalOpen' = modalOpen
      BY <2>1 DEF Apply, Fail, SaveAnswered, editor
    <3> QED BY <3>1, <1>1, <1>2 DEF IdentityInv, AddsNoTwin
  <2>2. CASE DeleteAnswered(r)
    <3>1. index = 0 /\ index' = 0 /\ UnderWay' = {}
      BY <2>2, <1>1 DEF DeleteAnswered, IndInv, DeletesClose
    <3>2. \/ requests[r].kind = "modalDelete" /\ draft' = modalDraft /\ modalOpen' = FALSE
          \/ draft' \in {0, draft} /\ modalOpen' = modalOpen
      BY <2>2 DEF DeleteAnswered
    <3>3. draft' \in {0, draft} \/ (modalOpen /\ draft' = modalDraft)
      BY <3>2, <1>1 DEF IdentityInv
    <3>4. draft' <= made' /\ modalDraft' <= made' /\ AddsNoTwin(draft)'
      BY <3>1, <3>3, <1>2 DEF IdentityInv, AddsNoTwin
    <3>5. modalOpen' => AddsNoTwin(modalDraft)'
      BY <3>1, <3>2, <1>2 DEF IdentityInv, AddsNoTwin
    <3> QED BY <3>1, <3>4, <3>5
  <2> QED BY <2>1, <2>2
<1> QED BY <1>2, <1>3, <1>4, <1>5, <1>6 DEF IdentityInv

-----------------------------------------------------------------------------
(* The saves *)

\* At first, and while a page is loaded, nothing was changed.
LEMMA NothingSaved == Init => SavingInv
<1>1. Init => UnderWay = {} /\ edited = {}
  BY DEF Init, UnderWay
<1> QED BY <1>1 DEF SavingInv, AnsweredIsSaved

LEMMA LoadsSaved ==
  ASSUME IndInv, SavingInv, Load \/ LoadFails \/ Reload
  PROVE  SavingInv'
<1>1. UnderWay' = {} /\ edited' = {}
  BY DEF Load, LoadFails, Reload, UnderWay, IndInv, LoadingIsQuiet
<1> QED BY <1>1 DEF SavingInv, AnsweredIsSaved

\* Steps that only show something else.
LEMMA ShowsSaved ==
  ASSUME Patient, IndInv, SavingInv, NEW s \in Scope, Show(s)
  PROVE  SavingInv'
<1>1. \A t : ConfigsOf(sets', t) = ConfigsOf(sets, t)
  BY ListMade DEF Show, IndInv, TypeOK
<1>2. /\ UnderWay = {} /\ UnderWay' = {} /\ saved' = saved /\ page' = page /\ edited' = edited
      /\ unsaved' = unsaved
  BY DEF Show, UsesPanel, Uses, UnderWay
<1> QED BY <1>1, <1>2 DEF SavingInv, AnsweredIsSaved

LEMMA EditsSaved ==
  ASSUME Patient, SavingInv,
         NewConfig \/ OpenModal \/ CloseModal \/ \E i \in DOMAIN List : SelectConfig(i)
  PROVE  SavingInv'
<1>1. /\ UnderWay = {} /\ UnderWay' = {} /\ saved' = saved /\ page' = page /\ edited' = edited
      /\ unsaved' = unsaved /\ sets' = sets
  BY DEF NewConfig, OpenModal, CloseModal, SelectConfig, UsesPanel, Uses, UnderWay
<1> QED BY <1>1 DEF SavingInv, AnsweredIsSaved

LEMMA MovesSaved ==
  ASSUME Patient, NEW from, NEW to, MoveConfigItem(from, to)
  PROVE  SavingInv'
<1>1. UnderWay' = {} /\ unsaved' = TRUE
  BY DEF MoveConfigItem, UsesPanel, Uses, UnderWay
<1> QED BY <1>1 DEF SavingInv, AnsweredIsSaved

\* A POST carries the configs of the page.
LEMMA PostsSaved ==
  ASSUME Patient, IndInv, IndInv', NEW kind \in {"save", "delete", "modalDelete"},
         Uses, unsaved', Send(kind, sets')
  PROVE  SavingInv'
<1>1. IsSets(sets') /\ RequestsOK /\ UnderWay = {}
  BY DEF IndInv, TypeOK, Uses
<1>2. PICK r0 \in Slots : UnderWay' = {r0} /\ requests'[r0].body = sets' /\ requests'[r0].step = "sent"
  BY <1>1, SentAlone
<1>3. \A q, r \in UnderWay' : q = r
  BY <1>2
<1>4. \A r \in UnderWay' : SameConfigs(requests'[r].body, sets') /\ requests'[r].step # "applied"
  BY <1>2 DEF SameConfigs
<1>5. AnsweredIsSaved'
  BY <1>2 DEF AnsweredIsSaved
<1> QED BY <1>3, <1>4, <1>5 DEF SavingInv

\* Once the server has taken it, it has what is on the page (server.go:192-239).
LEMMA ApplySaved ==
  ASSUME IndInv, SavingInv, NEW r \in Slots, Apply(r)
  PROVE  SavingInv'
<1>1. /\ r \in UnderWay /\ requests'[r].step = "applied"
      /\ \A q \in UnderWay' : q \in UnderWay /\ requests'[q].body = requests[q].body
  BY PostStep
<1>2. \A q, p \in UnderWay : q = p
  BY DEF SavingInv
<1>3. sets' = sets /\ unsaved' = unsaved /\ saved' = AllNamed(requests[r].body)
  BY DEF Apply
<1>4. PICK body : body = requests[r].body /\ IsSets(body) /\ SameConfigs(body, sets)
  BY <1>1 DEF IndInv, TypeOK, RequestsOK, SavingInv
<1>5. \A t : ConfigsOf(AllNamed(body), t) = Named(ConfigsOf(body, t))
  BY <1>4, Names_
<1>6. ServerHas(sets)'
  BY <1>3, <1>4, <1>5 DEF ServerHas, SameConfigs
<1>7. \A q \in UnderWay' : unsaved' /\ SameConfigs(requests'[q].body, sets')
  BY <1>1, <1>3 DEF SavingInv, SameConfigs
<1>8. AnsweredIsSaved'
  <2>1. unsaved
    BY <1>1 DEF SavingInv
  <2> QED BY <2>1, <1>3 DEF AnsweredIsSaved
<1> QED BY <1>1, <1>2, <1>6, <1>7, <1>8 DEF SavingInv

\* A POST or an answer that fails leaves the changes unsaved (app.js:1098-1105).
LEMMA FailSaved ==
  ASSUME IndInv, SavingInv, NEW r \in Slots, Fail(r)
  PROVE  SavingInv'
<1>1. /\ r \in UnderWay /\ requests'[r].step = "failed"
      /\ \A q \in UnderWay' : q \in UnderWay /\ requests'[q].body = requests[q].body
  BY PostStep
<1>2. sets' = sets /\ unsaved' = unsaved /\ unsaved
  BY <1>1 DEF Fail, SavingInv
<1>3. \A q \in UnderWay' : SameConfigs(requests'[q].body, sets')
  BY <1>1, <1>2 DEF SavingInv, SameConfigs
<1>4. \A q, p \in UnderWay' : q = p
  BY <1>1 DEF SavingInv
<1>5. \A q \in UnderWay' : requests'[q].step # "applied"
  BY <1>1, <1>4 DEF SavingInv
<1>6. AnsweredIsSaved'
  BY <1>2 DEF AnsweredIsSaved
<1> QED BY <1>2, <1>3, <1>4, <1>5, <1>6 DEF SavingInv

\* An answer says that the changes are saved only if they are (app.js:1094-1106, 1117-1127).
LEMMA AnswerSaved ==
  ASSUME IndInv, SavingInv, NEW r \in Slots, SaveAnswered(r) \/ DeleteAnswered(r)
  PROVE  SavingInv'
<1>1. /\ r \in UnderWay /\ r \notin UnderWay' /\ \A q \in UnderWay' : q \in UnderWay
  BY PostStep
<1>2. UnderWay' = {}
  BY <1>1 DEF SavingInv
<1>3. sets' = sets /\ saved' = saved
  BY DEF SaveAnswered, DeleteAnswered
<1>4. unsaved' = (unsaved /\ requests[r].step # "applied")
  BY Zenon DEF SaveAnswered, DeleteAnswered
<1>5. CASE requests[r].step = "applied"
  <2>1. ServerHas(sets)
    BY <1>1, <1>5 DEF SavingInv
  <2>2. \A s \in Scope : ConfigsOf(saved', s) = Named(ConfigsOf(sets', s))
    BY <2>1, <1>3 DEF ServerHas
  <2> QED BY <2>2, <1>2 DEF SavingInv, AnsweredIsSaved
<1>6. CASE requests[r].step # "applied"
  <2>1. unsaved
    BY <1>1 DEF SavingInv
  <2>2. unsaved'
    BY <2>1, <1>4, <1>6, Zenon
  <2> QED BY <2>2, <1>2 DEF SavingInv, AnsweredIsSaved
<1> QED BY <1>5, <1>6

-----------------------------------------------------------------------------
(* What a patient administrator can rely on *)

LEMMA PatientStep ==
  ASSUME Patient, IndInv, IdentityInv, SavingInv, [Next]_vars
  PROVE  IdentityInv' /\ SavingInv'
<1>0. TypeOK /\ IndInv'
  BY Inductive DEF IndInv
<1>1. CASE Load \/ LoadFails \/ Reload
  BY <1>1, LoadsOwn, LoadsSaved
<1>2. CASE \E c \in Cores : SelectCore(c)
  <2>1. PICK s \in Scope : Show(s)
    BY <1>2, <1>0, Scopes DEF SelectCore
  <2> QED BY <2>1, ShowsOwn, ShowsSaved
<1>3. CASE \E s \in Squads \union {Default} : SelectSquad(s)
  <2>1. PICK s \in Scope : Show(s)
    BY <1>3, <1>0, Scopes DEF SelectSquad
  <2> QED BY <2>1, ShowsOwn, ShowsSaved
<1>4. CASE NewConfig \/ OpenModal \/ CloseModal \/ \E i \in DOMAIN List : SelectConfig(i)
  BY <1>4, EditsOwn, EditsSaved
<1>5. CASE \E from, to \in DOMAIN List : MoveConfigItem(from, to)
  <2>1. PICK from \in DOMAIN List, to \in DOMAIN List : MoveConfigItem(from, to)
    BY <1>5
  <2>2. SavingInv'
    BY <2>1, MovesSaved
  <2> QED BY <2>1, <2>2, MovesOwn
<1>6. CASE \E text \in Texts : SaveInPanel(text)
  <2>1. PICK text \in Texts : SaveInPanel(text)
    BY <1>6
  <2>2. /\ Uses /\ draft \in Nat /\ SaveConfigEntry(draft, text)
        /\ saved' = saved /\ page' = page /\ modalDraft' = modalDraft
    BY <2>1, <1>0 DEF SaveInPanel, UsesPanel, TypeOK
  <2>3. draft <= made /\ AddsNoTwin(draft) /\ (index # 0 => draft = List[index].id)
    BY DEF IdentityInv, IndInv, OpenIsEdited
  <2>4. IdentityInv'
    BY <2>2, <2>3, SavesOwn
  <2>5. unsaved' /\ Send("save", sets')
    BY <2>2 DEF SaveConfigEntry
  <2> QED BY <2>2, <2>4, <2>5, <1>0, PostsSaved
<1>7. CASE \E text \in Texts : ModalSaveConfig(text)
  <2>1. PICK text \in Texts : ModalSaveConfig(text)
    BY <1>7
  <2>2. /\ Uses /\ modalOpen /\ modalDraft \in Nat /\ SaveConfigEntry(modalDraft, text)
        /\ saved' = saved /\ page' = page /\ modalDraft' = draft'
    BY <2>1, <1>0 DEF ModalSaveConfig, TypeOK
  <2>3. modalDraft <= made /\ AddsNoTwin(modalDraft) /\ (index # 0 => modalDraft = List[index].id)
    BY <2>2 DEF IdentityInv, IndInv, OpenIsEdited
  <2>4. IdentityInv'
    BY <2>2, <2>3, SavesOwn
  <2>5. unsaved' /\ Send("save", sets')
    BY <2>2 DEF SaveConfigEntry
  <2> QED BY <2>2, <2>4, <2>5, <1>0, PostsSaved
<1>8. CASE DeleteInPanel \/ ModalDeleteConfig
  <2>1. PICK kind \in {"delete", "modalDelete"} :
          Uses /\ (kind = "modalDelete" => modalOpen) /\ DeleteConfigEntry(kind)
    BY <1>8 DEF DeleteInPanel, ModalDeleteConfig, UsesPanel
  <2>2. IdentityInv'
    BY <2>1, DeletesOwn
  <2>3. unsaved' /\ Send(kind, sets')
    BY <2>1 DEF DeleteConfigEntry
  <2> QED BY <2>1, <2>2, <2>3, <1>0, PostsSaved
<1>9. CASE \E r \in Slots : Apply(r) \/ Fail(r) \/ SaveAnswered(r) \/ DeleteAnswered(r)
  <2>1. PICK r \in Slots : Apply(r) \/ Fail(r) \/ SaveAnswered(r) \/ DeleteAnswered(r)
    BY <1>9
  <2>2. \A q \in UnderWay : q = r
    BY <2>1, PostStep DEF SavingInv
  <2>3. IdentityInv'
    BY <2>1, <2>2, PostsOwn
  <2> QED BY <2>1, <2>3, ApplySaved, FailSaved, AnswerSaved
<1>10. CASE UNCHANGED vars
  <2>1. UnderWay' = UnderWay /\ List' = List
    BY <1>10 DEF vars, UnderWay, List
  <2>2. IdentityInv'
    BY <2>1, <1>10 DEF vars, IdentityInv, AddsNoTwin
  <2> QED BY <2>1, <2>2, <1>10 DEF vars, SavingInv, ServerHas, AnsweredIsSaved
<1> QED BY <1>1, <1>2, <1>3, <1>4, <1>5, <1>6, <1>7, <1>8, <1>9, <1>10 DEF Next

\* If he waits for every answer, no list has two configs of one identity, a save adds none
\* it has already, and a POST that was applied left the page's configs on the server.
THEOREM PatientInvariance == Spec => []PatientInv
<1>1. Init => PatientInv
  BY OwnAtFirst, NothingSaved DEF PatientInv
<1>2. IndInv /\ PatientInv /\ [Next]_vars => PatientInv'
  <2>1. ~Patient => PatientInv'
    BY DEF PatientInv
  <2>2. Patient /\ IndInv /\ PatientInv /\ [Next]_vars => IdentityInv' /\ SavingInv'
    BY PatientStep DEF PatientInv
  <2> QED BY <2>1, <2>2 DEF PatientInv
<1> QED BY <1>1, <1>2, Invariance, PTL DEF Spec

\* Saving a config again, after moves, deletes and answers that fail, replaces it and
\* never makes a second one (app.js:1086-1092).
THEOREM NoTwinsHolds == Patient => (Spec => []NoTwins)
<1> SUFFICES ASSUME Patient PROVE Spec => []NoTwins
  OBVIOUS
<1>1. PatientInv => NoTwins
  BY DEF PatientInv, IdentityInv, Counted, Own, NoTwins
<1> QED BY <1>1, PatientInvariance, PTL

\* When every change was answered as saved, the server has what the page shows, whatever
\* failed before (app.js:1094-1106, 1117-1127).
THEOREM AnsweredIsSavedHolds == Patient => (Spec => []AnsweredIsSaved)
<1> SUFFICES ASSUME Patient PROVE Spec => []AnsweredIsSaved
  OBVIOUS
<1>1. PatientInv => AnsweredIsSaved
  BY DEF PatientInv, SavingInv
<1> QED BY <1>1, PatientInvariance, PTL
=============================================================================
