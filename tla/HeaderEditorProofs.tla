-------------------------- MODULE HeaderEditorProofs --------------------------
(***************************************************************************)
(* Proofs about HeaderEditor, for every set of headers, users and          *)
(* overrides and any number of edits, fetches and saves: the page shows    *)
(* what users get, and a save alters no header that was not touched.       *)
(***************************************************************************)
EXTENDS HeaderEditor, FiniteSetTheorems, TLAPS

-----------------------------------------------------------------------------
(* Sequences and sets. *)

\* A nonempty set of indices has a last one.
LEMMA LastIsIn ==
  ASSUME NEW n \in Nat, NEW S \in SUBSET (1..n), S # {}
  PROVE  \E i \in S : \A j \in S : j <= i
<1> DEFINE T == {n - i : i \in S}
<1>1. T \subseteq Nat /\ T # {}
  <2>1. \A i \in S : n - i \in Nat
    <3>1. \A i \in 1..n : n - i \in Nat
      OBVIOUS
    <3> QED
      BY <3>1
  <2>2. PICK i \in S : TRUE
    OBVIOUS
  <2>3. n - i \in T
    OBVIOUS
  <2> QED
    BY <2>1, <2>3
<1>2. PICK m \in T : \A y \in T : <<y, m>> \notin OpToRel(<, Nat)
  BY <1>1, WFMin, NatLessThanWellFounded
<1>3. PICK i \in S : m = n - i
  BY <1>2
<1>4. ASSUME NEW j \in S
      PROVE  j <= i
  <2>1. ~(n - j < n - i)
    BY <1>1, <1>2, <1>3 DEF OpToRel
  <2>2. i \in Int /\ j \in Int
    <3>1. \A x \in 1..n : x \in Int
      OBVIOUS
    <3> QED
      BY <3>1
  <2> QED
    BY <2>1, <2>2
<1> QED
  BY <1>4

\* The sequence of a finite set has each of its elements, and no other.
LEMMA SetToSeqIsOnto ==
  ASSUME NEW S, IsFiniteSet(S)
  PROVE  /\ Cardinality(S) \in Nat
         /\ SetToSeq(S) \in [1..Cardinality(S) -> S]
         /\ \A x \in S : \E i \in 1..Cardinality(S) : SetToSeq(S)[i] = x
<1> DEFINE n == Cardinality(S)
           I == 1..n
           f == SetToSeq(S)
<1>1. n \in Nat /\ ExistsBijection(I, S)
  BY FS_CardinalityType
<1>2. \E g \in [I -> S] : IsInjective(g)
  BY <1>1 DEF ExistsBijection, Bijection, Injection
<1>3. f \in [I -> S] /\ IsInjective(f)
  BY <1>2 DEF SetToSeq
<1>4. f \in Injection(I, S)
  BY <1>3 DEF Injection
<1>5. Cardinality(I) = n
  BY <1>1, FS_Interval
<1> HIDE DEF n, I, f
<1>6. f \in Surjection(I, S)
  BY <1>4, <1>5, FS_Injection DEF n
<1>7. \A x \in S : \E i \in I : f[i] = x
  BY <1>6 DEF Surjection
<1> QED
  BY <1>1, <1>3, <1>7 DEF n, I, f

\* The elements of a sequence are a finite set, and so is each part of it.
LEMMA ElementsAreFinite ==
  ASSUME NEW n \in Nat, NEW f, DOMAIN f = 1..n, NEW S,
         \A x \in S : \E i \in 1..n : f[i] = x
  PROVE  IsFiniteSet(S)
<1> DEFINE T == {f[i] : i \in 1..n}
           g == [i \in 1..n |-> f[i]]
<1>1. g \in Surjection(1..n, T)
  BY DEF Surjection
<1>2. IsFiniteSet(1..n)
  BY FS_Interval
<1>3. IsFiniteSet(T)
  BY <1>1, <1>2, FS_Surjection
<1>4. S \in SUBSET T
  OBVIOUS
<1> QED
  BY <1>3, <1>4, FS_Subset

-----------------------------------------------------------------------------
(* The row of a key that counts. *)

\* The last row with a key counts, and no other.
LEMMA RulingRules ==
  ASSUME NEW list \in Seq(Row), NEW k \in Listed(list)
  PROVE  /\ Ruling(list, k) \in DOMAIN list
         /\ Rules(list, k, Ruling(list, k))
         /\ list[Ruling(list, k)].key = k
<1> DEFINE S == {i \in 1..Len(list) : list[i].key = k}
<1>1. PICK i \in S : \A j \in S : j <= i
  <2>1. S \in SUBSET (1..Len(list)) /\ S # {} /\ Len(list) \in Nat
    BY DEF Listed
  <2> QED
    BY <2>1, LastIsIn
<1>2. Rules(list, k, i)
  <2>1. ASSUME NEW j \in (i + 1)..Len(list), list[j].key = k
        PROVE  FALSE
    <3>1. j \in S
      BY <2>1
    <3> QED
      BY <1>1, <3>1
  <2> QED
    BY <1>1, <2>1 DEF Rules
<1>3. \E j \in DOMAIN list : Rules(list, k, j)
  BY <1>2
<1>4. Ruling(list, k) \in DOMAIN list /\ Rules(list, k, Ruling(list, k))
  BY <1>3 DEF Ruling
<1> QED
  BY <1>4 DEF Rules

\* So an override shown by the row that counts is one the list displays.
LEMMA DisplayedBy ==
  ASSUME NEW list \in Seq(Row), NEW k \in Listed(list), NEW o, NEW must, Displays(list, k, o, must)
  PROVE  Shows(list[Ruling(list, k)], o)
BY RulingRules DEF Displays

-----------------------------------------------------------------------------
(* Values and parameters. *)

\* What the parameters of a row or of an override are.
LEMMA ParamSetsType ==
  ASSUME NEW modes, NEW f \in ParamSets(modes)
  PROVE  /\ DOMAIN f \subseteq Params
         /\ f \in [DOMAIN f -> Param(modes)]
         /\ \A p \in DOMAIN f : f[p] \in Param(modes) /\ f[p].mode \in modes /\ f[p].value \in Numbers \union {Blank}
<1>1. PICK D \in SUBSET Params : f \in [D -> Param(modes)]
  BY DEF ParamSets
<1> QED
  BY <1>1 DEF Param

LEMMA IsParamSet ==
  ASSUME NEW modes, NEW D \in SUBSET Params, NEW f \in [D -> Param(modes)]
  PROVE  f \in ParamSets(modes)
BY DEF ParamSets

LEMMA RowParamsAreParams == ParamSets({"actual", "custom"}) \subseteq ParamSets(Modes)
<1> SUFFICES ASSUME NEW f \in ParamSets({"actual", "custom"})
             PROVE  f \in ParamSets(Modes)
  OBVIOUS
<1>1. DOMAIN f \in SUBSET Params /\ f \in [DOMAIN f -> Param({"actual", "custom"})]
  BY ParamSetsType
<1>2. Param({"actual", "custom"}) \subseteq Param(Modes)
  BY DEF Param, Modes
<1>3. f \in [DOMAIN f -> Param(Modes)]
  BY <1>1, <1>2
<1> QED
  BY <1>1, <1>3, IsParamSet

LEMMA EmptyIsParamSet ==
  ASSUME NEW modes
  PROVE  Empty \in ParamSets(modes)
<1>1. Empty \in [{} -> Param(modes)]
  BY DEF Empty
<1> QED
  BY <1>1, IsParamSet

\* What a userinfo parses to.
LEMMA InfosType ==
  ASSUME NEW f \in Infos
  PROVE  /\ DOMAIN f \subseteq Params /\ f \in [DOMAIN f -> Numbers]
         /\ f # Empty /\ DOMAIN f # {} /\ f # Blank
<1>1. PICK D \in SUBSET Params : f \in [D -> Numbers] /\ f # Empty
  BY DEF Infos
<1>2. f = [p \in D |-> f[p]] /\ DOMAIN f = D
  BY <1>1
<1>3. ASSUME D = {}
      PROVE  FALSE
  BY <1>1, <1>2, <1>3 DEF Empty
<1>4. f # Blank
  BY EditorAssumption
<1> QED
  BY <1>1, <1>2, <1>3, <1>4

LEMMA ParsedType ==
  ASSUME NEW v
  PROVE  /\ Parsed(v) \in Infos \union {Empty}
         /\ DOMAIN Parsed(v) \subseteq Params
         /\ \A p \in DOMAIN Parsed(v) : Parsed(v)[p] \in Numbers
<1>1. Parsed(v) \in Infos \union {Empty}
  BY DEF Parsed
<1>2. CASE Parsed(v) \in Infos
  BY <1>1, <1>2, InfosType
<1>3. CASE Parsed(v) = Empty
  <2>1. DOMAIN Empty = {}
    BY DEF Empty
  <2> QED
    BY <1>1, <1>3, <2>1
<1> QED
  BY <1>1, <1>2, <1>3

LEMMA TextType ==
  ASSUME NEW D \in SUBSET Params, NEW f \in [D -> Numbers]
  PROVE  Text(f) \in Infos \union {Blank} /\ (Text(f) \in Infos => Text(f) = f)
<1>1. f # Empty => f \in Infos
  BY DEF Infos
<1>2. Blank \notin Infos
  BY EditorAssumption
<1> QED
  BY <1>1, <1>2 DEF Text

\* Modes of rows are left as they are.
LEMMA NormalizeKeeps ==
  /\ \A m : NormalizeMode(m) \in {"actual", "custom"}
  /\ \A m \in {"actual", "custom"} : NormalizeMode(m) = m
BY DEF NormalizeMode

LEMMA NoOverrideType == NoOverride \in Override
BY EmptyIsParamSet DEF NoOverride, Override, Modes, Values

\* The parameters of an override, in the modes the page has.
LEMMA NormalizedType ==
  ASSUME NEW o \in Override
  PROVE  LET f == [p \in DOMAIN o.params |-> [o.params[p] EXCEPT !.mode = NormalizeMode(@)]]
         IN f \in ParamSets({"actual", "custom"}) /\ DOMAIN f = DOMAIN o.params
<1> DEFINE f == [p \in DOMAIN o.params |-> [o.params[p] EXCEPT !.mode = NormalizeMode(@)]]
<1>1. o.params \in ParamSets(Modes)
  BY DEF Override
<1>2. DOMAIN o.params \in SUBSET Params /\ \A p \in DOMAIN o.params : o.params[p] \in Param(Modes)
  BY <1>1, ParamSetsType
<1>3. ASSUME NEW p \in DOMAIN o.params
      PROVE  [o.params[p] EXCEPT !.mode = NormalizeMode(@)] \in Param({"actual", "custom"})
  BY <1>2, NormalizeKeeps DEF Param
<1>4. f \in [DOMAIN o.params -> Param({"actual", "custom"})]
  BY <1>3
<1> QED
  BY <1>2, <1>4, IsParamSet

-----------------------------------------------------------------------------
(* One row. *)

LEMMA ActualParamsType ==
  ASSUME NEW row, NEW h
  PROVE  /\ ActualParams(row, h) \in Infos \union {Empty}
         /\ DOMAIN ActualParams(row, h) \subseteq Params
         /\ \A p \in DOMAIN ActualParams(row, h) : ActualParams(row, h)[p] \in Numbers
BY ParsedType DEF ActualParams

\* A row as it is drawn for a user.
Drawn(row, h) == IF IsUserinfo(row.key) THEN Ensured(row, ActualParams(row, h)) ELSE row

LEMMA RowParams ==
  ASSUME NEW row \in Row, row.params # NoParams
  PROVE  /\ row.params \in ParamSets({"actual", "custom"})
         /\ DOMAIN row.params \subseteq Params
         /\ row.params = [p \in DOMAIN row.params |-> row.params[p]]
         /\ \A p \in DOMAIN row.params :
              /\ row.params[p] \in Param({"actual", "custom"})
              /\ row.params[p].mode \in {"actual", "custom"}
              /\ row.params[p].value \in Numbers \union {Blank}
<1>1. row.params \in ParamSets({"actual", "custom"})
  BY DEF Row
<1>2. row.params \in [DOMAIN row.params -> Param({"actual", "custom"})]
  BY <1>1, ParamSetsType
<1>3. row.params = [p \in DOMAIN row.params |-> row.params[p]]
  BY <1>2
<1> QED
  BY <1>1, <1>2, <1>3, ParamSetsType

\* A list of parameters is none of a row without.
LEMMA NoParamsIsNone ==
  ASSUME NEW f \in ParamSets({"actual", "custom"})
  PROVE  f # NoParams
BY EditorAssumption, RowParamsAreParams

\* Drawing a row gives a userinfo a control for each parameter the page knows.
LEMMA DrawnType ==
  ASSUME NEW row \in Row, NEW h
  PROVE  /\ Drawn(row, h) \in Row
         /\ Drawn(row, h).key = row.key /\ Drawn(row, h).mode = row.mode
         /\ Drawn(row, h).value = row.value
         /\ IsUserinfo(row.key) => Shown \subseteq DOMAIN Drawn(row, h).params /\ Drawn(row, h).params # NoParams
<1>1. CASE ~IsUserinfo(row.key)
  BY <1>1 DEF Drawn
<1>2. CASE IsUserinfo(row.key)
  <2> DEFINE old == IF row.params = NoParams THEN Empty ELSE row.params
             info == ActualParams(row, h)
             f == [p \in DOMAIN old \union Shown |->
                    IF p \in DOMAIN old THEN old[p]
                    ELSE [mode |-> IF p \in DOMAIN info THEN "actual" ELSE "custom", value |-> Blank]]
  <2>1. Drawn(row, h) = [row EXCEPT !.params = f]
    BY <1>2 DEF Drawn, Ensured
  <2>2. ASSUME NEW p \in DOMAIN old \union Shown
        PROVE  f[p] \in Param({"actual", "custom"})
    <3>1. CASE p \in DOMAIN old
      <4>1. row.params # NoParams
        BY <3>1 DEF Empty
      <4> QED
        BY <3>1, <4>1, RowParams
    <3>2. CASE p \notin DOMAIN old
      BY <3>2 DEF Param
    <3> QED
      BY <3>1, <3>2
  <2>3. DOMAIN old \union Shown \in SUBSET Params
    <3>1. CASE row.params = NoParams
      <4>1. DOMAIN old = {}
        BY <3>1 DEF Empty
      <4> QED
        BY <4>1, EditorAssumption
    <3>2. CASE row.params # NoParams
      BY <3>2, RowParams, EditorAssumption
    <3> QED
      BY <3>1, <3>2
  <2>4. f \in [DOMAIN old \union Shown -> Param({"actual", "custom"})] /\ Shown \subseteq DOMAIN f
    BY <2>2
  <2> HIDE DEF f
  <2>5. f \in ParamSets({"actual", "custom"})
    BY <2>4, <2>3, IsParamSet
  <2>6. f # NoParams
    BY <2>5, NoParamsIsNone
  <2>7. [row EXCEPT !.params = f] \in Row
    BY <2>5 DEF Row
  <2>8. /\ [row EXCEPT !.params = f].key = row.key /\ [row EXCEPT !.params = f].mode = row.mode
        /\ [row EXCEPT !.params = f].value = row.value /\ [row EXCEPT !.params = f].params = f
    BY DEF Row
  <2> QED
    BY <2>1, <2>4, <2>6, <2>7, <2>8
<1> QED
  BY <1>1, <1>2

\* It keeps the controls that are there; new ones leave a parameter to the panel, or empty.
LEMMA DrawnParams ==
  ASSUME NEW row \in Row, NEW h, IsUserinfo(row.key)
  PROVE  /\ row.params # NoParams /\ Shown \subseteq DOMAIN row.params => Drawn(row, h).params = row.params
         /\ row.params = NoParams =>
              Drawn(row, h).params =
                [p \in Shown |->
                   [mode |-> IF p \in DOMAIN ActualParams(row, h) THEN "actual" ELSE "custom", value |-> Blank]]
<1> DEFINE old == IF row.params = NoParams THEN Empty ELSE row.params
           info == ActualParams(row, h)
           f == [p \in DOMAIN old \union Shown |->
                  IF p \in DOMAIN old THEN old[p]
                  ELSE [mode |-> IF p \in DOMAIN info THEN "actual" ELSE "custom", value |-> Blank]]
<1>1. Drawn(row, h).params = f
  <2>1. Drawn(row, h) = [row EXCEPT !.params = f]
    BY DEF Drawn, Ensured
  <2> HIDE DEF f
  <2> QED
    BY <2>1 DEF Row
<1>2. ASSUME row.params # NoParams, Shown \subseteq DOMAIN row.params
      PROVE  f = row.params
  <2>1. row.params = [p \in DOMAIN row.params |-> row.params[p]] /\ DOMAIN row.params \union Shown = DOMAIN row.params
    BY <1>2, RowParams
  <2> QED
    BY <1>2, <2>1
<1>3. ASSUME row.params = NoParams
      PROVE  f = [p \in Shown |-> [mode |-> IF p \in DOMAIN info THEN "actual" ELSE "custom", value |-> Blank]]
  <2>1. DOMAIN old = {}
    BY <1>3 DEF Empty
  <2> HIDE DEF old
  <2> QED
    BY <2>1
<1> QED
  BY <1>1, <1>2, <1>3

\* Drawing a row that shows an override does not change that.
LEMMA DrawnShows ==
  ASSUME NEW row \in Row, NEW h, NEW o \in Override, Shows(row, o)
  PROVE  Shows(Drawn(row, h), o)
<1> DEFINE new == Drawn(row, h)
<1>1. /\ new.key = row.key /\ new.mode = row.mode /\ new.value = row.value
      /\ IsUserinfo(row.key) => Shown \subseteq DOMAIN new.params /\ new.params # NoParams
  BY DrawnType
<1>2. CASE ~IsUserinfo(row.key)
  BY <1>2 DEF Drawn
<1>3. CASE IsUserinfo(row.key) /\ o = NoOverride
  <2>1. LeftAlone(row)
    BY <1>3 DEF Shows
  <2>2. LeftAlone(new)
    <3>1. CASE row.params = NoParams
      <4>1. new.value = Blank /\ new.value \notin Infos
        BY <1>1, <2>1, <3>1, EditorAssumption DEF LeftAlone
      <4>2. DOMAIN new.params = Shown /\ \A p \in Shown : new.params[p].value = Blank
        <5>1. new.params = [p \in Shown |-> [mode |-> IF p \in DOMAIN ActualParams(row, h) THEN "actual" ELSE "custom",
                                             value |-> Blank]]
          BY <1>3, <3>1, DrawnParams
        <5> HIDE DEF new
        <5> QED
          BY <5>1
      <4> QED
        BY <1>1, <1>3, <4>1, <4>2 DEF LeftAlone
    <3>2. CASE row.params # NoParams
      <4>1. new.params = row.params
        BY <1>3, <2>1, <3>2, DrawnParams DEF LeftAlone
      <4> QED
        BY <1>1, <2>1, <3>2, <4>1 DEF LeftAlone
    <3> QED
      BY <3>1, <3>2
  <2> QED
    BY <1>1, <1>3, <2>2 DEF Shows
<1>4. CASE IsUserinfo(row.key) /\ o # NoOverride
  <2>1. ASSUME DOMAIN o.params = Shown
        PROVE  new.params = row.params
    <3>1. row.params # NoParams /\ Shown \subseteq DOMAIN row.params
      BY <1>4, <2>1 DEF Shows
    <3> QED
      BY <1>4, <3>1, DrawnParams
  <2> QED
    BY <1>1, <1>4, <2>1 DEF Shows
<1> QED
  BY <1>2, <1>3, <1>4

\* The row of an override shows it.
LEMMA RowOfType ==
  ASSUME NEW key \in Keys, NEW o \in Override
  PROVE  RowOf(key, o) \in Row /\ RowOf(key, o).key = key /\ Shows(RowOf(key, o), o)
<1> DEFINE info == Parsed(o.value)
           f == [p \in DOMAIN o.params |-> [o.params[p] EXCEPT !.mode = NormalizeMode(@)]]
           g == [p \in DOMAIN info |-> [mode |-> "custom", value |-> info[p]]]
           params == IF ~IsUserinfo(key) THEN NoParams
                     ELSE IF o.params # Empty THEN f
                     ELSE IF o.value # Blank THEN g ELSE NoParams
           row == [key |-> key, mode |-> NormalizeMode(o.mode), value |-> o.value, params |-> params]
<1>1. RowOf(key, o) = row
  BY DEF RowOf
<1>2. o.mode \in Modes /\ o.value \in Values /\ o.params \in ParamSets(Modes)
  BY DEF Override
<1>3. f \in ParamSets({"actual", "custom"}) /\ DOMAIN f = DOMAIN o.params
  BY NormalizedType
<1>4. g \in ParamSets({"actual", "custom"})
  <2>1. DOMAIN info \in SUBSET Params /\ \A p \in DOMAIN info : info[p] \in Numbers
    BY ParsedType
  <2>2. g \in [DOMAIN info -> Param({"actual", "custom"})]
    BY <2>1 DEF Param
  <2> QED
    BY <2>1, <2>2, IsParamSet
<1>5. row \in Row
  <2>1. params \in ParamSets({"actual", "custom"}) \union {NoParams}
    BY <1>3, <1>4
  <2> HIDE DEF params
  <2> QED
    BY <1>2, <2>1, NormalizeKeeps DEF Row
<1>6. Shows(row, o)
  <2>1. CASE ~IsUserinfo(key)
    BY <2>1 DEF Shows
  <2>2. CASE IsUserinfo(key) /\ o = NoOverride
    <3>1. params = NoParams /\ NormalizeMode(o.mode) = "actual" /\ o.value = Blank
      BY <2>2, NormalizeKeeps DEF NoOverride
    <3> HIDE DEF params
    <3> QED
      BY <2>2, <3>1 DEF Shows, LeftAlone
  <2>3. CASE IsUserinfo(key) /\ o # NoOverride
    <3>1. ASSUME DOMAIN o.params = Shown
          PROVE  /\ params # NoParams /\ DOMAIN params = Shown
                 /\ \A p \in Shown : params[p] = [o.params[p] EXCEPT !.mode = NormalizeMode(@)]
      <4>1. o.params # Empty
        BY <3>1, EditorAssumption DEF Empty
      <4>2. params = f /\ \A p \in DOMAIN f : f[p] = [o.params[p] EXCEPT !.mode = NormalizeMode(@)]
        BY <2>3, <4>1
      <4> HIDE DEF params, f
      <4> QED
        BY <1>3, <3>1, <4>2, NoParamsIsNone
    <3> HIDE DEF params
    <3> QED
      BY <2>3, <3>1 DEF Shows
  <2> QED
    BY <2>1, <2>2, <2>3
<1> HIDE DEF row
<1> QED
  BY <1>1, <1>5, <1>6 DEF row

-----------------------------------------------------------------------------
(* The override of a row. *)

\* A combined userinfo has the parameters that are left to the panel and those with
\* a value of their own.
LEMMA CombinedType ==
  ASSUME NEW params \in ParamSets({"actual", "custom"}), NEW info \in Infos \union {Empty}
  PROVE  /\ Combined(params, info) \in Infos \union {Blank}
         /\ Combined(params, info) \in Infos =>
              \A p \in DOMAIN Combined(params, info) :
                p \in DOMAIN params /\ p \in Shown /\ (params[p].mode # "actual" => params[p].value # Blank)
<1> DEFINE Set(p) == IF params[p].mode = "actual" THEN p \in DOMAIN info ELSE params[p].value # Blank
           D == {p \in DOMAIN params \intersect Shown : Set(p)}
           f == [p \in D |-> IF params[p].mode = "actual" THEN info[p] ELSE params[p].value]
<1>1. D \in SUBSET Params
  BY ParamSetsType
<1>2. ASSUME NEW p \in D
      PROVE  f[p] \in Numbers
  <2>1. params[p].value \in Numbers \union {Blank}
    BY ParamSetsType
  <2>2. CASE params[p].mode = "actual"
    <3>1. p \in DOMAIN info
      BY <2>2
    <3>2. info \in Infos
      BY <3>1 DEF Empty
    <3> QED
      BY <2>2, <3>1, <3>2, InfosType
  <2> QED
    BY <2>1, <2>2
<1>3. f \in [D -> Numbers]
  BY <1>2
<1>4. Combined(params, info) = Text(f)
  BY DEF Combined
<1>5. \A p \in D : p \in DOMAIN params /\ p \in Shown /\ (params[p].mode # "actual" => params[p].value # Blank)
  OBVIOUS
<1>6. DOMAIN f = D
  OBVIOUS
<1> HIDE DEF f, D
<1>7. Text(f) \in Infos \union {Blank} /\ (Text(f) \in Infos => Text(f) = f)
  BY <1>1, <1>3, TextType
<1> QED
  BY <1>4, <1>5, <1>6, <1>7

\* The override of a row is one the server takes, and the row shows it.
LEMMA OverrideOfType ==
  ASSUME NEW row \in Row
  PROVE  OverrideOf(row) \in Override /\ Shows(row, OverrideOf(row))
<1>1. row.mode \in {"actual", "custom"} /\ row.value \in Values
  BY DEF Row
<1>2. CASE IsUserinfo(row.key) /\ row.params # NoParams
  <2> DEFINE combined == Combined(row.params, ActualParams(row, actual))
             params == [p \in DOMAIN row.params \intersect Shown |-> row.params[p]]
             someActual == \E p \in DOMAIN params : params[p].mode = "actual"
             value == IF combined = Blank /\ ~someActual THEN row.value ELSE combined
             o == [mode |-> "custom", params |-> params, value |-> value]
  <2>1. OverrideOf(row) = o
    BY <1>2 DEF OverrideOf
  <2>2. row.params \in ParamSets({"actual", "custom"}) /\ params \in ParamSets({"actual", "custom"})
    <3>1. DOMAIN row.params \subseteq Params /\ \A p \in DOMAIN row.params : row.params[p] \in Param({"actual", "custom"})
      BY <1>2, RowParams
    <3>2. DOMAIN params \in SUBSET Params /\ params \in [DOMAIN params -> Param({"actual", "custom"})]
      BY <3>1
    <3> HIDE DEF params
    <3> QED
      BY <1>2, <3>2, RowParams, IsParamSet
  <2>3. combined \in Infos \union {Blank}
    BY <2>2, CombinedType, ActualParamsType
  <2>4. value \in Values
    BY <1>1, <2>3 DEF Values
  <2> HIDE DEF value, params
  <2>5. o \in Override
    BY <2>2, <2>4, RowParamsAreParams DEF Override, Modes
  <2>6. o # NoOverride
    BY DEF NoOverride
  <2>7. ASSUME DOMAIN o.params = Shown
        PROVE  /\ Shown \subseteq DOMAIN row.params
               /\ \A p \in Shown : row.params[p] = [o.params[p] EXCEPT !.mode = NormalizeMode(@)]
    <3>1. DOMAIN params = DOMAIN row.params \intersect Shown /\ \A p \in DOMAIN params : params[p] = row.params[p]
      BY DEF params
    <3>2. ASSUME NEW p \in Shown
          PROVE  p \in DOMAIN row.params /\ row.params[p] = [o.params[p] EXCEPT !.mode = NormalizeMode(@)]
      <4>1. p \in DOMAIN row.params /\ o.params[p] = row.params[p]
        BY <2>7, <3>1
      <4>2. row.params[p] \in Param({"actual", "custom"}) /\ row.params[p].mode \in {"actual", "custom"}
        BY <1>2, <4>1, RowParams
      <4>3. NormalizeMode(row.params[p].mode) = row.params[p].mode
        BY <4>2, NormalizeKeeps
      <4> QED
        BY <4>1, <4>2, <4>3 DEF Param
    <3> QED
      BY <3>2
  <2>8. Shows(row, o)
    BY <1>2, <2>6, <2>7 DEF Shows
  <2> QED
    BY <2>1, <2>5, <2>8
<1>3. CASE ~(IsUserinfo(row.key) /\ row.params # NoParams)
  <2> DEFINE o == [mode |-> row.mode, params |-> Empty, value |-> row.value]
  <2>1. OverrideOf(row) = o
    BY <1>1, <1>3, NormalizeKeeps DEF OverrideOf
  <2>2. o \in Override
    BY <1>1, EmptyIsParamSet DEF Override, Modes
  <2>3. CASE ~IsUserinfo(row.key)
    BY <1>1, <2>1, <2>2, <2>3, NormalizeKeeps DEF Shows
  <2>4. CASE IsUserinfo(row.key) /\ o = NoOverride
    <3>1. LeftAlone(row)
      BY <1>3, <2>4 DEF LeftAlone, NoOverride
    <3> QED
      BY <2>1, <2>2, <2>4, <3>1 DEF Shows
  <2>5. CASE IsUserinfo(row.key) /\ o # NoOverride
    <3>1. DOMAIN o.params # Shown
      BY EditorAssumption DEF Empty
    <3> QED
      BY <2>1, <2>2, <2>5, <3>1 DEF Shows
  <2> QED
    BY <2>3, <2>4, <2>5
<1> QED
  BY <1>2, <1>3

\* Saved, a row that shows an override leaves what users get as it was.
LEMMA NothingAltered ==
  ASSUME NEW row \in Row, NEW old \in Override, Shows(row, old), Settled(row.key, old)
  PROVE  \A v \in Sent(row.key, old, OverrideOf(row)) :
           Result(row.key, old, v) = Result(row.key, OverrideOf(row), v)
<1> DEFINE new == OverrideOf(row)
           k == row.key
<1>1. row.mode \in {"actual", "custom"} /\ row.value \in Values
  BY DEF Row
<1>2. CASE ~IsUserinfo(k)
  <2>1. new = [mode |-> row.mode, params |-> Empty, value |-> row.value]
    BY <1>1, <1>2, NormalizeKeeps DEF OverrideOf
  <2>2. row.mode = NormalizeMode(old.mode) /\ (row.mode = "custom" => row.value = old.value)
    BY <1>2 DEF Shows
  <2>3. old.mode = "remove" => old.value = Blank
    BY <1>2 DEF Settled
  <2>4. old.mode \in Modes
    BY DEF Override
  <2>5. ASSUME NEW v
        PROVE  Result(k, old, v) = Result(k, new, v)
    <3> HIDE DEF new
    <3>1. Cleaned(Blank) = Blank
      BY DEF Cleaned
    <3> QED
      BY <1>2, <2>1, <2>2, <2>3, <2>4, <3>1 DEF Result, NormalizeMode, Modes
  <2> QED
    BY <2>5
<1>3. CASE IsUserinfo(k) /\ old = NoOverride /\ row.params = NoParams
  <2>1. LeftAlone(row)
    BY <1>3 DEF Shows
  <2>2. new = old
    BY <1>1, <1>3, <2>1, NormalizeKeeps DEF OverrideOf, LeftAlone, NoOverride
  <2> QED
    BY <2>2
<1>4. ASSUME IsUserinfo(k), row.params # NoParams, Shown \subseteq DOMAIN row.params
      PROVE  /\ new.mode = "custom" /\ DOMAIN new.params = Shown /\ \A p \in Shown : new.params[p] = row.params[p]
             /\ \A v \in Infos : Result(k, new, v) = Cleaned(Text(WithParams(v, new.params)))
  <2>1. new.mode = "custom" /\ new.params = [p \in DOMAIN row.params \intersect Shown |-> row.params[p]]
    BY <1>4 DEF OverrideOf
  <2>2. DOMAIN new.params = Shown /\ \A p \in Shown : new.params[p] = row.params[p]
    <3> HIDE DEF new
    <3> QED
      BY <1>4, <2>1
  <2> HIDE DEF new
  <2>3. new.params # Empty
    BY <2>2, EditorAssumption DEF Empty
  <2>4. \A v \in Infos : v # Blank /\ Parsed(v) = v
    BY InfosType DEF Parsed
  <2>5. Name(k) \notin Refused
    BY <1>4, EditorAssumption DEF IsUserinfo
  <2> QED
    BY <1>4, <2>1, <2>2, <2>3, <2>4, <2>5 DEF Result
<1>5. CASE IsUserinfo(k) /\ old = NoOverride /\ row.params # NoParams
  <2>1. LeftAlone(row)
    BY <1>5 DEF Shows
  <2>2. DOMAIN row.params = Shown
    BY <1>5, <2>1 DEF LeftAlone
  <2>3. /\ new.mode = "custom" /\ DOMAIN new.params = Shown /\ \A p \in Shown : new.params[p] = row.params[p]
        /\ \A v \in Infos : Result(k, new, v) = Cleaned(Text(WithParams(v, new.params)))
    BY <1>4, <1>5, <2>2
  <2>4. ASSUME NEW v \in Infos, Legal(v), DOMAIN v \intersect Shown \subseteq DOMAIN Parsed(new.value)
        PROVE  Result(k, old, v) = Result(k, new, v)
    <3>1. Result(k, old, v) = v
      BY <1>5 DEF Result, NoOverride
    <3>2. \A p \in DOMAIN v \intersect Shown : row.params[p].mode = "actual"
      <4> DEFINE combined == Combined(row.params, ActualParams(row, actual))
      <4>1. row.params \in ParamSets({"actual", "custom"})
        BY <1>5, RowParams
      <4>2. combined \in Infos => \A p \in DOMAIN combined : row.params[p].mode # "actual" => row.params[p].value # Blank
        BY <4>1, CombinedType, ActualParamsType
      <4>3. \A p \in Shown : row.params[p].mode \in {"actual", "custom"}
        BY <1>5, <2>2, RowParams
      <4>4. new.value = row.value \/ new.value = combined
        BY <1>5 DEF OverrideOf
      <4>5. ASSUME NEW p \in DOMAIN v \intersect Shown
            PROVE  row.params[p].mode = "actual"
        <5>1. p \in DOMAIN Parsed(new.value)
          BY <2>4
        <5>2. new.value \in Infos /\ Parsed(new.value) = new.value
          <6>1. DOMAIN Empty = {}
            BY DEF Empty
          <6> QED
            BY <5>1, <6>1 DEF Parsed
        <5>3. CASE new.value = row.value
          <6>1. \A q \in DOMAIN row.value \intersect Shown : row.params[q].mode = "actual"
            BY <1>5, <2>1, <5>2, <5>3 DEF LeftAlone
          <6> QED
            BY <5>1, <5>2, <5>3, <6>1
        <5>4. CASE new.value = combined
          <6>1. row.params[p].mode # "actual" => row.params[p].value # Blank
            BY <4>2, <5>1, <5>2, <5>4
          <6>2. row.params[p].mode = "custom" => row.params[p].value = Blank
            BY <1>5, <2>1 DEF LeftAlone
          <6> QED
            BY <4>3, <6>1, <6>2
        <5> QED
          BY <4>4, <5>3, <5>4
      <4> QED
        BY <4>5
    <3>3. \A p \in Shown : row.params[p].mode # "actual" => row.params[p].value = Blank
      <4>1. \A p \in Shown : row.params[p].mode \in {"actual", "custom"}
        BY <1>5, <2>2, RowParams
      <4> QED
        BY <1>5, <2>1, <4>1 DEF LeftAlone
    <3>4. WithParams(v, new.params) = v
      <4> DEFINE params == new.params
                 Set(p) == p \in DOMAIN params /\ params[p].mode # "actual"
                 Gone(p) == params[p].mode = "remove" \/ params[p].value = Blank
                 D == {p \in DOMAIN v \union DOMAIN params : IF Set(p) THEN ~Gone(p) ELSE p \in DOMAIN v}
      <4>1. WithParams(v, params) = [p \in D |-> IF Set(p) THEN params[p].value ELSE v[p]]
        BY DEF WithParams
      <4> HIDE DEF new, params
      <4>2. DOMAIN params = Shown /\ \A p \in Shown : params[p] = row.params[p]
        BY <2>3 DEF params
      <4>3. D = DOMAIN v
        BY <3>2, <3>3, <4>2
      <4>4. \A p \in DOMAIN v : ~Set(p)
        BY <3>2, <4>2
      <4>5. v = [p \in DOMAIN v |-> v[p]]
        BY InfosType
      <4> HIDE DEF D, Set
      <4> QED
        BY <4>1, <4>3, <4>4, <4>5 DEF params
    <3>5. Cleaned(Text(v)) = v
      BY <2>4, InfosType DEF Text, Cleaned
    <3> QED
      BY <2>3, <3>1, <3>4, <3>5
  <2> QED
    BY <1>5, <2>4 DEF Sent
<1>6. CASE IsUserinfo(k) /\ old # NoOverride
  <2>1. /\ old.mode # "remove" /\ DOMAIN old.params = Shown
        /\ \A p \in Shown : old.params[p].mode = "remove" => old.params[p].value = Blank
    BY <1>6 DEF Settled
  <2>2. /\ row.params # NoParams /\ Shown \subseteq DOMAIN row.params
        /\ \A p \in Shown : row.params[p] = [old.params[p] EXCEPT !.mode = NormalizeMode(@)]
    BY <1>6, <2>1 DEF Shows
  <2>3. /\ DOMAIN new.params = Shown /\ \A p \in Shown : new.params[p] = row.params[p]
        /\ \A v \in Infos : Result(k, new, v) = Cleaned(Text(WithParams(v, new.params)))
    BY <1>4, <1>6, <2>2
  <2>4. PICK params : params = new.params
    OBVIOUS
  <2> HIDE DEF new
  <2>5. \A p \in Shown : old.params[p] \in Param(Modes)
    BY <2>1, ParamSetsType DEF Override
  <2>6. ASSUME NEW p \in Shown
        PROVE  params[p].mode = NormalizeMode(old.params[p].mode) /\ params[p].value = old.params[p].value
    <3>1. params[p] = [old.params[p] EXCEPT !.mode = NormalizeMode(@)]
      BY <2>2, <2>3, <2>4
    <3>2. old.params[p] \in Param(Modes)
      BY <2>5
    <3> QED
      BY <3>1, <3>2 DEF Param
  <2>7. ASSUME NEW v \in Infos
        PROVE  Result(k, old, v) = Result(k, new, v)
    <3>1. WithParams(v, old.params) = WithParams(v, params)
      <4>1. DOMAIN old.params = Shown /\ DOMAIN params = Shown
        BY <2>1, <2>3, <2>4
      <4>2. \A p \in Shown : old.params[p].mode \in Modes
        BY <2>5 DEF Param
      <4>3. \A p \in Shown : (params[p].mode # "actual") = (old.params[p].mode # "actual")
        BY <2>6 DEF NormalizeMode
      <4>4. \A p \in Shown : params[p].value = old.params[p].value
        BY <2>6
      <4>5. \A p \in Shown : params[p].mode # "remove"
        BY <2>6 DEF NormalizeMode
      <4>6. \A p \in Shown : old.params[p].mode = "remove" => old.params[p].value = Blank
        BY <2>1
      <4> DEFINE Kept(f) == {p \in DOMAIN v \union DOMAIN f :
                               IF p \in DOMAIN f /\ f[p].mode # "actual"
                               THEN ~(f[p].mode = "remove" \/ f[p].value = Blank) ELSE p \in DOMAIN v}
                 At(f, p) == IF p \in DOMAIN f /\ f[p].mode # "actual" THEN f[p].value ELSE v[p]
      <4>7. \A f : WithParams(v, f) = [p \in Kept(f) |-> At(f, p)]
        BY DEF WithParams
      <4>8. Kept(old.params) = Kept(params)
        BY <4>1, <4>3, <4>4, <4>5, <4>6
      <4>9. \A p : At(old.params, p) = At(params, p)
        BY <4>1, <4>3, <4>4
      <4> HIDE DEF Kept, At
      <4> QED
        BY <4>7, <4>8, <4>9
    <3>2. Result(k, old, v) = Cleaned(Text(WithParams(v, old.params)))
      <4>1. v # Blank /\ Parsed(v) = v
        BY InfosType DEF Parsed
      <4>2. old.params # Empty
        BY <2>1, EditorAssumption DEF Empty
      <4>3. Name(k) \notin Refused
        BY <1>6, EditorAssumption DEF IsUserinfo
      <4> QED
        BY <1>6, <2>1, <4>1, <4>2, <4>3 DEF Result
    <3> QED
      BY <2>3, <2>4, <3>1, <3>2
  <2> QED
    BY <1>6, <2>7 DEF Sent, new
<1> QED
  BY <1>2, <1>3, <1>5, <1>6

-----------------------------------------------------------------------------
(* Lists of rows. *)

\* A list whose rows with a key are in the same places, and show what they showed.
LEMMA SamePlaces ==
  ASSUME NEW list \in Seq(Row), NEW new \in Seq(Row), Len(new) = Len(list),
         NEW k \in Keys, NEW o, NEW must, Displays(list, k, o, must),
         \A j \in DOMAIN list : new[j].key = k <=> list[j].key = k,
         \A j \in DOMAIN list : list[j].key = k /\ Shows(list[j], o) => Shows(new[j], o)
  PROVE  Displays(new, k, o, must)
<1>1. DOMAIN list = 1..Len(list) /\ DOMAIN new = 1..Len(list)
  OBVIOUS
<1>2. k \in Listed(list) => k \in Listed(new)
  <2> SUFFICES ASSUME k \in Listed(list)
               PROVE  k \in Listed(new)
    OBVIOUS
  <2>1. PICK j \in DOMAIN list : list[j].key = k
    BY DEF Listed
  <2>2. j \in DOMAIN new /\ new[j].key = k
    BY <1>1, <2>1
  <2> QED
    BY <2>2, EditorAssumption DEF Listed
<1>3. ASSUME NEW i \in DOMAIN new, Rules(new, k, i)
      PROVE  Shows(new[i], o)
  <2>1. i \in DOMAIN list /\ list[i].key = k
    BY <1>1, <1>3 DEF Rules
  <2>2. ASSUME NEW j \in (i + 1)..Len(list)
        PROVE  list[j].key # k
    <3>1. j \in DOMAIN list
      BY <1>1, <2>1
    <3>2. new[j].key # k
      BY <1>3 DEF Rules
    <3> QED
      BY <3>1, <3>2
  <2>3. Rules(list, k, i)
    BY <2>1, <2>2 DEF Rules
  <2>4. Shows(list[i], o)
    BY <2>1, <2>3 DEF Displays
  <2> QED
    BY <2>1, <2>4
<1>4. must => k \in Listed(list)
  BY DEF Displays
<1> QED
  BY <1>2, <1>3, <1>4 DEF Displays

\* The rows on show are drawn one by one.
LEMMA RenderedType ==
  ASSUME NEW list \in Seq(Row), NEW h
  PROVE  /\ Rendered(list, h) \in Seq(Row) /\ Len(Rendered(list, h)) = Len(list)
         /\ \A i \in DOMAIN list :
              /\ Rendered(list, h)[i] = Drawn(list[i], h)
              /\ Rendered(list, h)[i].key = list[i].key
         /\ \A i \in DOMAIN Rendered(list, h) : IsUserinfo(Rendered(list, h)[i].key) =>
              Rendered(list, h)[i].params # NoParams /\ Shown \subseteq DOMAIN Rendered(list, h)[i].params
<1>1. Rendered(list, h) = [i \in 1..Len(list) |-> Drawn(list[i], h)]
  BY DEF Rendered, Drawn
<1>2. \A i \in 1..Len(list) :
        /\ Drawn(list[i], h) \in Row /\ Drawn(list[i], h).key = list[i].key
        /\ IsUserinfo(list[i].key) => Drawn(list[i], h).params # NoParams /\ Shown \subseteq DOMAIN Drawn(list[i], h).params
  BY DrawnType
<1> QED
  BY <1>1, <1>2

LEMMA RenderedDisplays ==
  ASSUME NEW list \in Seq(Row), NEW h, NEW k \in Keys, NEW o \in Override, NEW must,
         Displays(list, k, o, must)
  PROVE  Displays(Rendered(list, h), k, o, must)
<1>1. PICK new \in Seq(Row) : new = Rendered(list, h)
  BY RenderedType
<1>2. /\ Len(new) = Len(list)
      /\ \A i \in DOMAIN list : new[i] = Drawn(list[i], h) /\ new[i].key = list[i].key
  BY <1>1, RenderedType
<1>3. \A j \in DOMAIN list : Shows(list[j], o) => Shows(new[j], o)
  BY <1>2, DrawnShows
<1>4. Displays(new, k, o, must)
  BY <1>2, <1>3, SamePlaces
<1> QED
  BY <1>1, <1>4

\* A row that is added without a name displays nothing.
LEMMA AppendDisplays ==
  ASSUME NEW list \in Seq(Row), NEW row \in Row, row.key = NoKey, NEW k \in Keys, NEW o, NEW must,
         Displays(list, k, o, must)
  PROVE  Displays(Append(list, row), k, o, must)
<1> DEFINE new == Append(list, row)
<1>1. /\ DOMAIN list = 1..Len(list) /\ DOMAIN new = 1..(Len(list) + 1) /\ Len(new) = Len(list) + 1
      /\ Len(list) \in Nat /\ \A i \in 1..Len(list) : new[i] = list[i]
      /\ new[Len(list) + 1] = row
  OBVIOUS
<1> HIDE DEF new
<1>2. k # NoKey
  BY EditorAssumption
<1>3. must => k \in Listed(new)
  <2> SUFFICES ASSUME must
               PROVE  k \in Listed(new)
    OBVIOUS
  <2>1. PICK j \in DOMAIN list : list[j].key = k
    BY DEF Displays, Listed
  <2>2. j \in DOMAIN new /\ new[j].key = k
    BY <1>1, <2>1
  <2> QED
    BY <1>2, <2>2 DEF Listed
<1>4. ASSUME NEW i \in DOMAIN new, Rules(new, k, i)
      PROVE  Shows(new[i], o)
  <2>1. i \in DOMAIN list /\ list[i] = new[i]
    BY <1>1, <1>2, <1>4 DEF Rules
  <2>2. Rules(list, k, i)
    BY <1>1, <1>4, <2>1 DEF Rules
  <2> QED
    BY <2>1, <2>2 DEF Displays
<1> QED
  BY <1>3, <1>4 DEF Displays, new

\* Nor does one that is removed, but for its own key.
LEMMA RemoveAtType ==
  ASSUME NEW S, NEW list \in Seq(S), NEW i \in 1..Len(list)
  PROVE  /\ RemoveAt(list, i) \in Seq(S) /\ Len(RemoveAt(list, i)) = Len(list) - 1
         /\ Len(list) \in Nat /\ DOMAIN list = 1..Len(list)
         /\ DOMAIN RemoveAt(list, i) = 1..(Len(list) - 1)
         /\ \A j \in 1..(Len(list) - 1) : RemoveAt(list, i)[j] = list[IF j < i THEN j ELSE j + 1]
<1> DEFINE a == SubSeq(list, 1, i - 1)
           b == SubSeq(list, i + 1, Len(list))
<1>1. a \in Seq(S) /\ Len(a) = i - 1 /\ \A j \in 1..(i - 1) : a[j] = list[j]
  OBVIOUS
<1>2. b \in Seq(S) /\ Len(b) = Len(list) - i /\ \A j \in 1..(Len(list) - i) : b[j] = list[j + i]
  OBVIOUS
<1> HIDE DEF a, b
<1>3. a \o b \in Seq(S) /\ Len(a \o b) = Len(list) - 1
  <2>1. a \o b \in Seq(S) /\ Len(a \o b) = Len(a) + Len(b)
    <3>1. a \in Seq(S) /\ b \in Seq(S)
      BY <1>1, <1>2
    <3>2. PICK x \in Seq(S), y \in Seq(S) : x = a /\ y = b
      BY <3>1
    <3>3. x \o y \in Seq(S) /\ Len(x \o y) = Len(x) + Len(y)
      OBVIOUS
    <3> QED
      BY <3>2, <3>3
  <2>2. Len(list) \in Nat /\ i \in Int
    OBVIOUS
  <2>3. Len(a) + Len(b) = Len(list) - 1
    BY <1>1, <1>2, <2>2
  <2> QED
    BY <2>1, <2>3
<1>4. ASSUME NEW j \in 1..(Len(list) - 1)
      PROVE  (a \o b)[j] = list[IF j < i THEN j ELSE j + 1]
  <2>1. CASE j < i
    <3>1. j \in 1..(i - 1)
      BY <2>1
    <3>2. (a \o b)[j] = a[j]
      BY <1>1, <1>2, <3>1
    <3> QED
      BY <1>1, <2>1, <3>1, <3>2
  <2>2. CASE ~(j < i)
    <3>1. j - (i - 1) \in 1..(Len(list) - i) /\ j - (i - 1) + i = j + 1
      BY <2>2
    <3>2. (a \o b)[j] = b[j - (i - 1)]
      BY <1>1, <1>2, <2>2
    <3> QED
      BY <1>2, <2>2, <3>1, <3>2
  <2> QED
    BY <2>1, <2>2
<1>5. RemoveAt(list, i) = a \o b
  BY DEF RemoveAt, a, b
<1>6. PICK new \in Seq(S) : new = RemoveAt(list, i)
  BY <1>3, <1>5
<1>7. Len(new) = Len(list) - 1 /\ \A j \in 1..(Len(list) - 1) : new[j] = list[IF j < i THEN j ELSE j + 1]
  BY <1>3, <1>4, <1>5, <1>6
<1>8. DOMAIN new = 1..(Len(list) - 1) /\ Len(list) \in Nat /\ DOMAIN list = 1..Len(list)
  BY <1>7
<1> QED
  BY <1>6, <1>7, <1>8

LEMMA RemoveAtDisplays ==
  ASSUME NEW list \in Seq(Row), NEW i \in 1..Len(list), NEW k \in Keys, list[i].key # k, NEW o, NEW must,
         Displays(list, k, o, must)
  PROVE  Displays(RemoveAt(list, i), k, o, must)
<1>1. PICK new \in Seq(Row) : new = RemoveAt(list, i)
  BY RemoveAtType
<1>2. /\ Len(new) = Len(list) - 1 /\ Len(list) \in Nat /\ DOMAIN list = 1..Len(list)
      /\ DOMAIN new = 1..(Len(list) - 1)
      /\ \A j \in 1..(Len(list) - 1) : new[j] = list[IF j < i THEN j ELSE j + 1]
  BY <1>1, RemoveAtType
<1>3. must => k \in Listed(new)
  <2> SUFFICES ASSUME must
               PROVE  k \in Listed(new)
    OBVIOUS
  <2>1. PICK j \in DOMAIN list : list[j].key = k
    BY DEF Displays, Listed
  <2>2. j # i
    BY <2>1
  <2>3. \E x \in DOMAIN new : new[x].key = k
    <3>1. CASE j < i
      <4>1. j \in 1..(Len(list) - 1)
        BY <1>2, <3>1
      <4>2. new[j] = list[j]
        BY <1>2, <3>1, <4>1
      <4> QED
        BY <1>2, <2>1, <4>1, <4>2
    <3>2. CASE j > i
      <4>1. j - 1 \in 1..(Len(list) - 1) /\ ~(j - 1 < i) /\ j - 1 + 1 = j
        BY <1>2, <3>2
      <4>2. new[j - 1] = list[j]
        BY <1>2, <4>1
      <4> QED
        BY <1>2, <2>1, <4>1, <4>2
    <3> QED
      BY <1>2, <2>2, <3>1, <3>2
  <2> QED
    BY <2>3, EditorAssumption DEF Listed
<1>4. ASSUME NEW x \in DOMAIN new, Rules(new, k, x)
      PROVE  Shows(new[x], o)
  <2> DEFINE y == IF x < i THEN x ELSE x + 1
  <2>1. x \in 1..(Len(list) - 1) /\ x \in Int
    BY <1>2
  <2>2. y \in DOMAIN list /\ new[x] = list[y]
    BY <1>2, <2>1
  <2>3. ASSUME NEW j \in (y + 1)..Len(list)
        PROVE  list[j].key # k
    <3>1. CASE j = i
      BY <3>1
    <3>2. CASE j < i
      <4>1. j \in (x + 1)..Len(new) /\ j \in 1..(Len(list) - 1)
        BY <1>2, <2>1, <3>2
      <4>2. new[j] = list[j]
        BY <1>2, <3>2, <4>1
      <4> QED
        BY <1>4, <4>1, <4>2 DEF Rules
    <3>3. CASE j > i
      <4>1. j - 1 \in (x + 1)..Len(new) /\ j - 1 \in 1..(Len(list) - 1) /\ ~(j - 1 < i) /\ j - 1 + 1 = j
        BY <1>2, <2>1, <3>3
      <4>2. new[j - 1] = list[j]
        BY <1>2, <4>1
      <4> QED
        BY <1>4, <4>1, <4>2 DEF Rules
    <3>4. j \in Int
      BY <2>1
    <3> QED
      BY <3>1, <3>2, <3>3, <3>4
  <2>4. list[y].key = k
    BY <1>4, <2>2 DEF Rules
  <2> HIDE DEF y
  <2>5. Rules(list, k, y)
    BY <2>3, <2>4 DEF Rules
  <2> QED
    BY <2>2, <2>5 DEF Displays
<1>5. Displays(new, k, o, must)
  BY <1>3, <1>4 DEF Displays
<1> QED
  BY <1>1, <1>5

-----------------------------------------------------------------------------
(* Lists the page loads, and lists a fetch adds to. *)

\* The page loads a row for every override, that shows it, and no other.
LEMMA RowsOfType ==
  ASSUME NEW overrides, DOMAIN overrides \subseteq Keys, IsFiniteSet(DOMAIN overrides),
         \A k \in DOMAIN overrides : overrides[k] \in Override
  PROVE  /\ RowsOf(overrides) \in Seq(Row)
         /\ \A k \in Keys :
              /\ k \in DOMAIN overrides <=> k \in Listed(RowsOf(overrides))
              /\ \A i \in DOMAIN RowsOf(overrides) : RowsOf(overrides)[i].key = k =>
                   k \in DOMAIN overrides /\ RowsOf(overrides)[i] = RowOf(k, overrides[k])
<1>1. PICK n \in Nat : n = Cardinality(DOMAIN overrides)
  BY SetToSeqIsOnto
<1>2. PICK keys \in [1..n -> DOMAIN overrides] :
        /\ keys = SetToSeq(DOMAIN overrides)
        /\ \A k \in DOMAIN overrides : \E i \in 1..n : keys[i] = k
  BY <1>1, SetToSeqIsOnto
<1> DEFINE rows == [i \in 1..n |-> RowOf(keys[i], overrides[keys[i]])]
<1>3. RowsOf(overrides) = rows
  BY <1>2 DEF RowsOf
<1>4. \A i \in 1..n : rows[i] \in Row /\ rows[i].key = keys[i] /\ keys[i] \in DOMAIN overrides
  BY <1>2, RowOfType
<1>5. rows \in Seq(Row) /\ DOMAIN rows = 1..n /\ \A i \in 1..n : rows[i] = RowOf(keys[i], overrides[keys[i]])
  BY <1>4
<1> HIDE DEF rows
<1>6. ASSUME NEW k \in Keys
      PROVE  k \in DOMAIN overrides <=> k \in Listed(rows)
  <2>1. k # NoKey
    BY EditorAssumption
  <2>2. ASSUME k \in DOMAIN overrides
        PROVE  \E i \in 1..n : rows[i].key = k
    <3>1. PICK i \in 1..n : keys[i] = k
      BY <1>2, <2>2
    <3>2. rows[i].key = keys[i]
      BY <1>4
    <3> QED
      BY <3>1, <3>2
  <2>3. (\E i \in 1..n : rows[i].key = k) => k \in DOMAIN overrides
    BY <1>4
  <2> QED
    BY <1>5, <2>1, <2>2, <2>3 DEF Listed
<1>7. ASSUME NEW k \in Keys, NEW i \in DOMAIN rows, rows[i].key = k
      PROVE  k \in DOMAIN overrides /\ rows[i] = RowOf(k, overrides[k])
  BY <1>4, <1>5, <1>7
<1> QED
  BY <1>3, <1>5, <1>6, <1>7

LEMMA RowsOfDisplays ==
  ASSUME NEW x, IsSaved(x), NEW s \in Scopes, NEW k \in Keys
  PROVE  /\ RowsOf(x[s]) \in Seq(Row)
         /\ Own(x, s, k) \in Override
         /\ Displays(RowsOf(x[s]), k, Own(x, s, k), k \in DOMAIN x[s])
<1>1. DOMAIN x[s] \subseteq Keys /\ IsFiniteSet(DOMAIN x[s]) /\ \A j \in DOMAIN x[s] : x[s][j] \in Override
  BY DEF IsSaved
<1>2. Own(x, s, k) \in Override
  BY <1>1, NoOverrideType DEF Own
<1>3. ASSUME NEW i \in DOMAIN RowsOf(x[s]), Rules(RowsOf(x[s]), k, i)
      PROVE  Shows(RowsOf(x[s])[i], Own(x, s, k))
  <2>1. RowsOf(x[s])[i].key = k
    BY <1>3 DEF Rules
  <2>2. k \in DOMAIN x[s] /\ RowsOf(x[s])[i] = RowOf(k, x[s][k])
    BY <1>1, <2>1, RowsOfType
  <2> QED
    BY <1>1, <2>2, RowOfType DEF Own
<1>4. RowsOf(x[s]) \in Seq(Row) /\ (k \in DOMAIN x[s] => k \in Listed(RowsOf(x[s])))
  BY <1>1, RowsOfType
<1> QED
  BY <1>2, <1>3, <1>4 DEF Displays

\* A fetched header is found under its own key.
LEMMA ActualValueOf ==
  ASSUME NEW u \in Users
  PROVE  /\ \A key : ActualValue(u, key) \in Values
         /\ \A key : ActualValue(u, key) = Blank \/ Legal(ActualValue(u, key))
         /\ \A k \in DOMAIN u : ActualValue(u, k) = u[k] /\ u[k] \in Values \ {Blank} /\ k \in Keys
<1>1. /\ DOMAIN u \subseteq Keys /\ NoKey \notin Keys
      /\ \A k \in DOMAIN u : u[k] \in Values \ {Blank} /\ Legal(u[k])
      /\ \A j, k \in DOMAIN u : Name(j) = Name(k) => j = k
  <2>1. ~Legal(Blank)
    BY EditorAssumption DEF Legal
  <2> QED
    BY <2>1, EditorAssumption
<1>2. ASSUME NEW key
      PROVE  /\ ActualValue(u, key) \in Values
             /\ ActualValue(u, key) = Blank \/ Legal(ActualValue(u, key))
  <2> DEFINE same == {k \in DOMAIN u : Name(k) = Name(key)}
  <2>1. CASE key = NoKey \/ same = {}
    BY <2>1 DEF ActualValue, Values
  <2>2. CASE ~(key = NoKey \/ same = {})
    <3>1. (CHOOSE k \in same : TRUE) \in same
      BY <2>2
    <3>2. ActualValue(u, key) = u[CHOOSE k \in same : TRUE]
      BY <2>2 DEF ActualValue
    <3> QED
      BY <1>1, <3>1, <3>2
  <2> QED
    BY <2>1, <2>2
<1>3. ASSUME NEW k \in DOMAIN u
      PROVE  ActualValue(u, k) = u[k]
  <2> DEFINE same == {j \in DOMAIN u : Name(j) = Name(k)}
  <2>1. same = {k}
    BY <1>1
  <2>2. (CHOOSE j \in same : TRUE) = k
    BY <2>1
  <2>3. k # NoKey
    BY <1>1
  <2>4. ActualValue(u, k) = IF k = NoKey \/ same = {} THEN Blank ELSE u[CHOOSE j \in same : TRUE]
    BY DEF ActualValue
  <2> HIDE DEF same
  <2> QED
    BY <2>1, <2>2, <2>3, <2>4
<1> QED
  BY <1>1, <1>2, <1>3

\* The row a fetch adds leaves the header to the panel.
LEMMA AddedRow ==
  ASSUME NEW u \in Users, NEW k \in DOMAIN u,
         NEW row, row = [key |-> k, mode |-> "actual", value |-> u[k], params |-> NoParams]
  PROVE  row \in Row /\ row.key = k /\ Shows(Drawn(row, u), NoOverride)
<1>1. ActualValue(u, k) = u[k] /\ u[k] \in Values \ {Blank} /\ k \in Keys
  BY ActualValueOf
<1>2. row \in Row /\ row.key = k /\ row.mode = "actual" /\ row.value = u[k] /\ row.params = NoParams
  BY <1>1 DEF Row
<1>3. CASE ~IsUserinfo(k)
  BY <1>2, <1>3, NormalizeKeeps DEF Shows, Drawn, NoOverride
<1>4. CASE IsUserinfo(k)
  <2> DEFINE new == Drawn(row, u)
             info == ActualParams(row, u)
  <2>1. new.key = k /\ new.value = u[k] /\ new.params # NoParams
    BY <1>2, <1>4, DrawnType
  <2>2. new.params = [p \in Shown |-> [mode |-> IF p \in DOMAIN info THEN "actual" ELSE "custom", value |-> Blank]]
    BY <1>2, <1>4, DrawnParams
  <2>3. u[k] \in Infos => info = u[k]
    <3>1. u[k] \in Infos => Parsed(u[k]) = u[k] /\ u[k] # Empty
      BY InfosType DEF Parsed
    <3> QED
      BY <1>1, <1>2, <3>1 DEF ActualParams
  <2> HIDE DEF new, info
  <2>4. /\ DOMAIN new.params = Shown
        /\ \A p \in Shown : new.params[p].value = Blank /\ (p \in DOMAIN info => new.params[p].mode = "actual")
    BY <2>2
  <2>5. LeftAlone(new)
    BY <2>1, <2>3, <2>4 DEF LeftAlone
  <2>6. Shows(new, NoOverride)
    BY <1>4, <2>1, <2>5 DEF Shows
  <2> QED
    BY <1>2, <2>6 DEF new
<1> QED
  BY <1>2, <1>3, <1>4

\* A fetch keeps the rows but for the values that are left to the panel, and adds rows
\* for keys that have none.
LEMMA WithFetchedType ==
  ASSUME NEW list \in Seq(Row), NEW u \in Users
  PROVE  LET new == WithFetched(list, u) IN
         /\ new \in Seq(Row) /\ Len(new) >= Len(list)
         /\ \A i \in 1..Len(list) :
              /\ new[i].key = list[i].key
              /\ \A o : Shows(list[i], o) => Shows(new[i], o)
         /\ \A i \in (Len(list) + 1)..Len(new) :
              /\ new[i].key \in DOMAIN u /\ new[i].key \notin Listed(list)
              /\ new[i] = [key |-> new[i].key, mode |-> "actual", value |-> u[new[i].key], params |-> NoParams]
<1> DEFINE HasRow(k) == \E i \in DOMAIN list : list[i].key # NoKey /\ Name(list[i].key) = Name(k)
           M == {k \in DOMAIN u : ~HasRow(k)}
           Fresh(row) == IF Refreshes(row) /\ ActualValue(u, row.key) # Blank
                         THEN [row EXCEPT !.value = ActualValue(u, row.key)] ELSE row
<1>1. DOMAIN list = 1..Len(list) /\ Len(list) \in Nat
  OBVIOUS
<1>2. IsFiniteSet(M)
  <2>1. IsFiniteSet(DOMAIN u) /\ M \in SUBSET (DOMAIN u)
    BY EditorAssumption
  <2> QED
    BY <2>1, FS_Subset
<1>3. PICK n \in Nat : n = Cardinality(M)
  <2> HIDE DEF M
  <2> QED
    BY <1>2, SetToSeqIsOnto
<1>4. PICK missing \in [1..n -> M] : missing = SetToSeq(M)
  <2> HIDE DEF M
  <2> QED
    BY <1>2, <1>3, SetToSeqIsOnto
<1>5. ASSUME NEW k \in M
      PROVE  k \in DOMAIN u /\ k \notin Listed(list)
  BY <1>5 DEF Listed
<1> DEFINE Old(i) == IF list[i].key # NoKey /\ IsFirst(list, i) THEN Fresh(list[i]) ELSE list[i]
           New(k) == [key |-> k, mode |-> "actual", value |-> u[k], params |-> NoParams]
           a == [i \in 1..Len(list) |-> Old(i)]
           b == [i \in 1..n |-> New(missing[i])]
<1>6. WithFetched(list, u) = a \o b
  BY <1>1, <1>4 DEF WithFetched
<1>7. ASSUME NEW i \in 1..Len(list)
      PROVE  Old(i) \in Row /\ Old(i).key = list[i].key /\ \A o : Shows(list[i], o) => Shows(Old(i), o)
  <2>1. list[i] \in Row
    OBVIOUS
  <2>2. CASE Old(i) = list[i]
    BY <2>1, <2>2
  <2>3. ASSUME Old(i) # list[i]
        PROVE  /\ Old(i) = [list[i] EXCEPT !.value = ActualValue(u, list[i].key)]
               /\ ~IsUserinfo(list[i].key) /\ list[i].mode = "actual"
    BY <2>3 DEF Refreshes
  <2>4. CASE Old(i) # list[i]
    <3>1. ActualValue(u, list[i].key) \in Values
      BY ActualValueOf
    <3> DEFINE new == [list[i] EXCEPT !.value = ActualValue(u, list[i].key)]
    <3>2. new \in Row /\ new.key = list[i].key /\ new.mode = list[i].mode
      BY <2>1, <3>1 DEF Row
    <3>3. \A o : Shows(list[i], o) => Shows(new, o)
      <4> HIDE DEF new
      <4> QED
        BY <2>3, <2>4, <3>2 DEF Shows
    <3> QED
      BY <2>3, <2>4, <3>2, <3>3
  <2> QED
    BY <2>2, <2>4
<1>8. ASSUME NEW i \in 1..n
      PROVE  New(missing[i]) \in Row /\ missing[i] \in DOMAIN u /\ missing[i] \notin Listed(list)
  <2>1. missing[i] \in M
    OBVIOUS
  <2>2. missing[i] \in DOMAIN u /\ missing[i] \notin Listed(list)
    BY <1>5, <2>1
  <2> QED
    BY <2>2, AddedRow
<1> HIDE DEF Old, New, M
<1>9. a \in Seq(Row) /\ Len(a) = Len(list) /\ b \in Seq(Row) /\ Len(b) = n
  BY <1>1, <1>7, <1>8
<1>10. /\ \A i \in 1..Len(list) : a[i] = Old(i)
      /\ \A i \in 1..n : b[i] = New(missing[i])
  OBVIOUS
<1> HIDE DEF a, b
<1>11. PICK x \in Seq(Row), y \in Seq(Row) : x = a /\ y = b
  BY <1>9
<1>12. x \o y \in Seq(Row) /\ Len(x \o y) = Len(x) + Len(y)
  OBVIOUS
<1>13. PICK new \in Seq(Row) : x = a /\ y = b /\ new = x \o y
  BY <1>11, <1>12
<1>14. Len(new) = Len(list) + n
  <2>1. Len(new) = Len(x) + Len(y)
    BY <1>13, <1>12
  <2>2. Len(x) = Len(list) /\ Len(y) = n
    BY <1>9, <1>13
  <2> QED
    BY <2>1, <2>2
<1>15. ASSUME NEW i \in 1..Len(list)
       PROVE  new[i] = Old(i)
  <2>1. new[i] = x[i]
    BY <1>9, <1>13
  <2> QED
    BY <1>10, <1>13, <2>1
<1>16. ASSUME NEW i \in (Len(list) + 1)..Len(new)
       PROVE  \E j \in 1..n : new[i] = New(missing[j])
  <2>1. i - Len(list) \in 1..n
    BY <1>14
  <2>2. Len(x) = Len(list) /\ Len(list) \in Nat
    BY <1>9, <1>13
  <2>3. i \in Len(x) + 1..Len(x \o y)
    BY <1>13, <2>2
  <2>4. (x \o y)[i] = y[i - Len(x)]
    BY <2>3
  <2>5. new[i] = y[i - Len(list)]
    BY <1>13, <2>2, <2>4
  <2> QED
    BY <1>10, <1>13, <2>1, <2>5
<1>17. ASSUME NEW i \in (Len(list) + 1)..Len(new)
       PROVE  /\ new[i].key \in DOMAIN u /\ new[i].key \notin Listed(list)
              /\ new[i] = [key |-> new[i].key, mode |-> "actual", value |-> u[new[i].key], params |-> NoParams]
  <2>1. PICK j \in 1..n : new[i] = New(missing[j])
    BY <1>16
  <2>2. new[i].key = missing[j]
    BY <2>1 DEF New
  <2> QED
    BY <1>8, <2>1, <2>2 DEF New
<1>18. Len(new) >= Len(list)
  BY <1>1, <1>14
<1>19. WithFetched(list, u) = new
  BY <1>6, <1>13
<1> QED
  BY <1>7, <1>15, <1>17, <1>18, <1>19

-----------------------------------------------------------------------------
(* What a change of a list leaves displayed. *)

\* What the old list displays of some keys, the new one does.
Carries(old, new, keys) ==
  \A k \in Keys, o \in Override, must \in BOOLEAN :
    k \in keys /\ (must \/ o = NoOverride) /\ Displays(old, k, o, must) => Displays(new, k, o, must)

\* Mirrors, for lists and touched keys of any state.
Mirrored(x, all, l, t) ==
  \A s \in Scopes, k \in Keys :
    <<s, k>> \notin t \/ (all /\ k \in DOMAIN x[s]) =>
      Displays(l[s], k, Own(x, s, k), k \in DOMAIN x[s])

LEMMA CarriesMirrored ==
  ASSUME NEW x, IsSaved(x), NEW all, NEW all2, all2 => all, NEW l, NEW new, NEW t, NEW t2, t \subseteq t2,
         Mirrored(x, all, l, t),
         \A s \in Scopes : Carries(l[s], new[s], {k \in Keys : <<s, k>> \notin t2 \/ all2})
  PROVE  Mirrored(x, all2, new, t2)
<1> SUFFICES ASSUME NEW s \in Scopes, NEW k \in Keys, <<s, k>> \notin t2 \/ (all2 /\ k \in DOMAIN x[s])
             PROVE  Displays(new[s], k, Own(x, s, k), k \in DOMAIN x[s])
  BY DEF Mirrored
<1>1. Displays(l[s], k, Own(x, s, k), k \in DOMAIN x[s])
  BY DEF Mirrored
<1>2. PICK o \in Override : o = Own(x, s, k)
  BY RowsOfDisplays
<1>3. PICK must \in BOOLEAN : must = (k \in DOMAIN x[s])
  <2>1. (k \in DOMAIN x[s]) \in BOOLEAN
    OBVIOUS
  <2> QED
    BY <2>1, Zenon
<1>4. must \/ o = NoOverride
  BY <1>2, <1>3 DEF Own
<1>5. Displays(l[s], k, o, must)
  BY <1>1, <1>2, <1>3
<1>6. Displays(new[s], k, o, must)
  BY <1>4, <1>5 DEF Carries
<1> QED
  BY <1>2, <1>3, <1>6

LEMMA RenderedCarries ==
  ASSUME NEW old, NEW new \in Seq(Row), NEW h, NEW keys, Carries(old, new, keys)
  PROVE  Carries(old, Rendered(new, h), keys)
<1> SUFFICES ASSUME NEW k \in Keys, NEW o \in Override, NEW must \in BOOLEAN,
                    k \in keys, must \/ o = NoOverride, Displays(old, k, o, must)
             PROVE  Displays(Rendered(new, h), k, o, must)
  BY DEF Carries
<1>1. Displays(new, k, o, must)
  BY DEF Carries
<1> QED
  BY <1>1, RenderedDisplays

\* A change of one row that touches the keys it had and has.
LEMMA ChangedRowCarries ==
  ASSUME NEW list \in Seq(Row), NEW i \in DOMAIN list, NEW row \in Row, NEW new, new = [list EXCEPT ![i] = row]
  PROVE  new \in Seq(Row) /\ Carries(list, new, Keys \ {list[i].key, row.key})
<1>1. new \in Seq(Row) /\ Len(new) = Len(list)
  OBVIOUS
<1>2. new[i] = row /\ \A j \in DOMAIN list : j # i => new[j] = list[j]
  OBVIOUS
<1>3. ASSUME NEW k \in Keys \ {list[i].key, row.key}, NEW o, NEW must, Displays(list, k, o, must)
      PROVE  Displays(new, k, o, must)
  <2>1. \A j \in DOMAIN list : new[j] = list[j] \/ (new[j].key # k /\ list[j].key # k)
    BY <1>2
  <2>2. \A j \in DOMAIN list : new[j].key = k <=> list[j].key = k
    BY <2>1
  <2>3. \A j \in DOMAIN list : list[j].key = k /\ Shows(list[j], o) => Shows(new[j], o)
    BY <2>1
  <2> QED
    BY <1>1, <1>3, <2>2, <2>3, SamePlaces
<1>4. Carries(list, new, Keys \ {list[i].key, row.key})
  BY <1>3 DEF Carries
<1> QED
  BY <1>1, <1>4

\* A fetch displays what was displayed, whatever it adds.
LEMMA FetchedCarries ==
  ASSUME NEW list \in Seq(Row), NEW u \in Users
  PROVE  LET new == Rendered(WithFetched(list, u), u) IN new \in Seq(Row) /\ Carries(list, new, Keys)
<1>1. PICK w \in Seq(Row) : w = WithFetched(list, u)
  BY WithFetchedType
<1>2. PICK new \in Seq(Row) : new = Rendered(w, u)
  BY RenderedType
<1>3. /\ Len(new) = Len(w) /\ Len(w) >= Len(list) /\ Len(list) \in Nat /\ Len(w) \in Nat
      /\ DOMAIN list = 1..Len(list) /\ DOMAIN new = 1..Len(w)
  <2>1. Len(w) >= Len(list)
    BY <1>1, WithFetchedType
  <2>2. Len(new) = Len(w)
    BY <1>2, RenderedType
  <2> QED
    BY <2>1, <2>2
<1>4. \A i \in 1..Len(list) : w[i].key = list[i].key /\ \A o : Shows(list[i], o) => Shows(w[i], o)
  <2> DEFINE x == WithFetched(list, u)
  <2>1. \A i \in 1..Len(list) : x[i].key = list[i].key /\ \A o : Shows(list[i], o) => Shows(x[i], o)
    BY WithFetchedType, Zenon
  <2> HIDE DEF x
  <2>2. w = x
    BY <1>1 DEF x
  <2> QED
    BY <2>1, <2>2
<1>5. \A i \in 1..Len(w) : w[i] \in Row /\ new[i] = Drawn(w[i], u) /\ new[i].key = w[i].key
  <2>1. \A i \in DOMAIN w : new[i] = Drawn(w[i], u) /\ new[i].key = w[i].key
    BY <1>2, RenderedType
  <2>2. DOMAIN w = 1..Len(w) /\ \A i \in DOMAIN w : w[i] \in Row
    OBVIOUS
  <2> QED
    BY <2>1, <2>2
<1>6. ASSUME NEW k \in Keys, NEW o \in Override, NEW must \in BOOLEAN, must \/ o = NoOverride,
             Displays(list, k, o, must)
      PROVE  Displays(new, k, o, must)
  <2>0. k # NoKey
    BY EditorAssumption
  <2>1. must => k \in Listed(new)
    <3> SUFFICES ASSUME must
                 PROVE  k \in Listed(new)
      OBVIOUS
    <3>1. PICK j \in DOMAIN list : list[j].key = k
      BY <1>6 DEF Displays, Listed
    <3>2. j \in 1..Len(list) /\ j \in DOMAIN new /\ j \in 1..Len(w)
      BY <1>3, <3>1
    <3>3. new[j].key = k
      BY <1>4, <1>5, <3>1, <3>2
    <3> QED
      BY <2>0, <3>2, <3>3 DEF Listed
  <2>2. ASSUME NEW i \in DOMAIN new, Rules(new, k, i)
        PROVE  Shows(new[i], o)
    <3>1. i \in 1..Len(w) /\ new[i].key = k
      BY <1>3, <2>2 DEF Rules
    <3>2. CASE i \in 1..Len(list)
      <4>1. list[i].key = k
        BY <1>4, <1>5, <3>1, <3>2
      <4>2. ASSUME NEW j \in (i + 1)..Len(list)
            PROVE  list[j].key # k
        <5>1. j \in (i + 1)..Len(new) /\ j \in 1..Len(list) /\ j \in 1..Len(w)
          BY <1>3, <3>2
        <5>2. new[j].key # k
          BY <2>2, <5>1 DEF Rules
        <5> QED
          BY <1>4, <1>5, <5>1, <5>2
      <4>3. Rules(list, k, i)
        BY <4>1, <4>2 DEF Rules
      <4>4. Shows(list[i], o)
        BY <1>3, <1>6, <3>2, <4>3 DEF Displays
      <4>5. Shows(w[i], o)
        BY <1>4, <3>2, <4>4
      <4> QED
        BY <1>5, <3>1, <4>5, DrawnShows
    <3>3. CASE i \in (Len(list) + 1)..Len(w)
      <4>1. /\ w[i].key = k /\ k \in DOMAIN u /\ k \notin Listed(list)
            /\ w[i] = [key |-> k, mode |-> "actual", value |-> u[k], params |-> NoParams]
        BY <1>1, <1>5, <3>1, <3>3, WithFetchedType
      <4>2. o = NoOverride
        BY <1>6, <4>1 DEF Displays
      <4>3. Shows(Drawn(w[i], u), NoOverride)
        BY <4>1, AddedRow
      <4> QED
        BY <1>5, <3>1, <4>2, <4>3
    <3> QED
      BY <1>3, <3>1, <3>2, <3>3
  <2> QED
    BY <2>1, <2>2 DEF Displays
<1>7. Carries(list, new, Keys)
  BY <1>6 DEF Carries
<1> QED
  BY <1>1, <1>2, <1>7

-----------------------------------------------------------------------------
(* The invariant. *)

\* The part of the type that is about the lists.
ListsType(l, t) ==
  /\ DOMAIN l = Scopes /\ \A s \in Scopes : l[s] \in Seq(Row)
  /\ \A i \in DOMAIN l[t] : IsUserinfo(l[t][i].key) => l[t][i].params # NoParams /\ Shown \subseteq DOMAIN l[t][i].params

LEMMA MirrorsIs == \A x, all : Mirrors(x, all) <=> Mirrored(x, all, lists, touched)
BY DEF Mirrors, Mirrored

LEMMA TypeOKIs ==
  TypeOK <=>
    /\ IsSaved(saved) /\ ListsType(lists, scope)
    /\ scope \in Scopes /\ actual \in Users \union {Empty} /\ fetching \in BOOLEAN
    /\ DOMAIN post = DOMAIN NoPost /\ post.at \in {"none", "sent", "saved"} /\ post.late \in BOOLEAN
    /\ post.at = "sent" => IsSaved(post.body)
    /\ touched \subseteq Scopes \X Keys /\ acts \in 0..MaxActs
BY DEF TypeOK, ListsType, List

\* The fields of a post.
LEMMA NoPostFields ==
  /\ DOMAIN NoPost = {"at", "body", "touched", "late"}
  /\ NoPost.at = "none" /\ NoPost.late = FALSE
BY DEF NoPost

\* Lists the page has loaded mirror what it loaded.
LEMMA LoadedLists ==
  ASSUME NEW x, IsSaved(x), NEW t \in Scopes, NEW h, NEW l,
         l = [s \in Scopes |-> IF s = t THEN Rendered(RowsOf(x[s]), h) ELSE RowsOf(x[s])]
  PROVE  ListsType(l, t) /\ Mirrored(x, FALSE, l, {})
<1>1. ASSUME NEW s \in Scopes
      PROVE  l[s] \in Seq(Row)
  <2>1. PICK rows \in Seq(Row) : rows = RowsOf(x[s])
    BY RowsOfType DEF IsSaved
  <2>2. Rendered(rows, h) \in Seq(Row)
    BY RenderedType
  <2> QED
    BY <2>1, <2>2
<1>2. \A i \in DOMAIN l[t] : IsUserinfo(l[t][i].key) => l[t][i].params # NoParams /\ Shown \subseteq DOMAIN l[t][i].params
  <2>1. PICK rows \in Seq(Row) : rows = RowsOf(x[t])
    BY RowsOfType DEF IsSaved
  <2>2. l[t] = Rendered(rows, h)
    BY <2>1
  <2> QED
    BY <2>2, RenderedType
<1>3. ASSUME NEW s \in Scopes, NEW k \in Keys
      PROVE  Displays(l[s], k, Own(x, s, k), k \in DOMAIN x[s])
  <2>1. PICK rows \in Seq(Row) : rows = RowsOf(x[s])
    BY RowsOfDisplays
  <2>2. Own(x, s, k) \in Override /\ Displays(rows, k, Own(x, s, k), k \in DOMAIN x[s])
    BY <2>1, RowsOfDisplays
  <2>3. Displays(Rendered(rows, h), k, Own(x, s, k), k \in DOMAIN x[s])
    BY <2>2, RenderedDisplays
  <2> QED
    BY <2>1, <2>2, <2>3
<1> QED
  BY <1>1, <1>2, <1>3 DEF ListsType, Mirrored

LEMMA InitInvariant == Init => IndInv
<1> SUFFICES ASSUME Init
             PROVE  IndInv
  OBVIOUS
<1>1. IsSaved(saved) /\ scope \in Scopes /\ MaxActs \in Nat
  BY EditorAssumption DEF Init, FirstScope, Scopes
<1>2. ListsType(lists, scope) /\ Mirrored(saved, FALSE, lists, {})
  BY <1>1, LoadedLists DEF Init
<1>3. post.at = "none" /\ DOMAIN post = DOMAIN NoPost /\ post.late = FALSE
  BY NoPostFields DEF Init
<1>4. TypeOK
  <2>1. /\ actual \in Users \union {Empty} /\ fetching \in BOOLEAN /\ touched \subseteq Scopes \X Keys
        /\ acts \in 0..MaxActs
    <3>1. actual = Empty /\ fetching = FALSE /\ touched = {} /\ acts = 0
      BY DEF Init
    <3>2. Empty \in Users \union {Empty}
      OBVIOUS
    <3>3. touched \subseteq Scopes \X Keys
      BY <3>1
    <3>4. acts \in 0..MaxActs
      BY <1>1, <3>1
    <3> QED
      BY <3>1, <3>2, <3>3, <3>4
  <2>2. post.at \in {"none", "sent", "saved"} /\ post.late \in BOOLEAN /\ post.at # "sent"
    BY <1>3
  <2> QED
    BY <1>1, <1>2, <1>3, <2>1, <2>2, TypeOKIs
<1>5. Mirrors(saved, post.at = "saved" /\ ~post.late)
  <2>1. touched = {}
    BY DEF Init
  <2>2. Mirrors(saved, FALSE)
    BY <1>2, <2>1, MirrorsIs
  <2> QED
    BY <1>3, <2>2 DEF Mirrors
<1> QED
  BY <1>3, <1>4, <1>5 DEF IndInv

\* A step that changes lists, and no more of what was saved or sent, keeps the invariant
\* if it carries what is not touched.
LEMMA Carried ==
  ASSUME IndInv, TypeOK', saved' = saved,
         post'.at = post.at, post'.body = post.body, post'.touched = post.touched,
         ~post'.late => ~post.late, touched \subseteq touched',
         \A s \in Scopes :
           Carries(lists[s], lists'[s], {k \in Keys : <<s, k>> \notin touched' \/ (post.at # "none" /\ ~post'.late)})
  PROVE  IndInv'
<1> DEFINE all2 == post.at # "none" /\ ~post'.late
<1>1. IsSaved(saved) /\ (post.at = "sent" => IsSaved(post.body)) /\ post.at \in {"none", "sent", "saved"}
  BY DEF IndInv, TypeOK
<1>2. Mirrors(saved, post.at = "saved" /\ ~post.late)'
  <2>1. Mirrored(saved, post.at = "saved" /\ ~post.late, lists, touched)
    BY MirrorsIs DEF IndInv
  <2> DEFINE a == post.at = "saved" /\ ~post.late
             b == post'.at = "saved" /\ ~post'.late
  <2>2. b => a
    OBVIOUS
  <2>3. ASSUME NEW s \in Scopes
        PROVE  Carries(lists[s], lists'[s], {k \in Keys : <<s, k>> \notin touched' \/ b})
    <3>1. {k \in Keys : <<s, k>> \notin touched' \/ b} \subseteq {k \in Keys : <<s, k>> \notin touched' \/ all2}
      OBVIOUS
    <3> HIDE DEF b, all2
    <3>2. Carries(lists[s], lists'[s], {k \in Keys : <<s, k>> \notin touched' \/ all2})
      BY DEF all2
    <3> QED
      BY <3>1, <3>2 DEF Carries
  <2> HIDE DEF a, b
  <2>4. Mirrored(saved, a, lists, touched)
    BY <2>1 DEF a
  <2>5. Mirrored(saved, b, lists', touched')
    BY <1>1, <2>2, <2>3, <2>4, CarriesMirrored
  <2> QED
    BY <2>5 DEF Mirrors, Mirrored, b
<1>3. ASSUME post.at = "sent"
      PROVE  Mirrors(post.body, ~post.late)'
  <2>1. Mirrored(post.body, ~post.late, lists, touched)
    BY <1>3, MirrorsIs DEF IndInv
  <2>2. ASSUME NEW s \in Scopes
        PROVE  Carries(lists[s], lists'[s], {k \in Keys : <<s, k>> \notin touched' \/ ~post'.late})
    BY <1>3
  <2>3. PICK body : body = post.body
    OBVIOUS
  <2> DEFINE a == ~post.late
             b == ~post'.late
  <2>4. Mirrored(body, a, lists, touched) /\ IsSaved(body) /\ (b => a)
    BY <1>1, <1>3, <2>1, <2>3
  <2>5. \A s \in Scopes : Carries(lists[s], lists'[s], {k \in Keys : <<s, k>> \notin touched' \/ b})
    BY <2>2
  <2> HIDE DEF a, b
  <2>6. Mirrored(body, b, lists', touched')
    BY <2>4, <2>5, CarriesMirrored
  <2>7. post'.body = body
    BY <2>3
  <2> QED
    BY <2>6, <2>7 DEF Mirrors, Mirrored, b
<1>4. ASSUME post.at = "sent", NEW s \in Scopes, NEW k \in Keys, <<s, k>> \notin post'.touched
      PROVE  /\ Unaltered(k, Own(saved', s, k), Own(post'.body, s, k))
             /\ k \in DOMAIN saved'[s] => k \in DOMAIN post'.body[s]
  BY <1>4 DEF IndInv
<1> QED
  BY <1>2, <1>3, <1>4 DEF IndInv

-----------------------------------------------------------------------------
(* The administrator's actions. *)

LEMMA CarriesSame == \A list, keys : Carries(list, list, keys)
BY DEF Carries

\* Carrying all keys is carrying some.
LEMMA CarriesFewer ==
  ASSUME NEW old, NEW new, NEW keys, NEW fewer, Carries(old, new, keys), fewer \subseteq keys
  PROVE  Carries(old, new, fewer)
BY DEF Carries

LEMMA ShowKeeps ==
  ASSUME IndInv, NEW s \in Scopes, Show(s)
  PROVE  IndInv'
<1>1. TypeOK /\ ListsType(lists, scope)
  BY TypeOKIs DEF IndInv
<1>2. /\ scope' = s /\ lists' = [lists EXCEPT ![s] = Rendered(lists[s], actual)]
      /\ UNCHANGED <<saved, actual, fetching, post, touched, acts>>
  BY DEF Show
<1>3. PICK old \in Seq(Row), new \in Seq(Row) : old = lists[s] /\ new = Rendered(old, actual)
  <2>1. PICK old \in Seq(Row) : old = lists[s]
    BY <1>1 DEF ListsType
  <2>2. Rendered(old, actual) \in Seq(Row)
    BY RenderedType
  <2> QED
    BY <2>1, <2>2
<1>4. DOMAIN lists = Scopes /\ lists' = [lists EXCEPT ![s] = new] /\ \A t \in Scopes : lists[t] \in Seq(Row)
  BY <1>1, <1>2, <1>3 DEF ListsType
<1>5. lists'[s] = new /\ DOMAIN lists' = Scopes /\ \A t \in Scopes : t # s => lists'[t] = lists[t]
  BY <1>4
<1>6. \A i \in DOMAIN new : IsUserinfo(new[i].key) => new[i].params # NoParams /\ Shown \subseteq DOMAIN new[i].params
  BY <1>3, RenderedType
<1>7. ListsType(lists', scope')
  BY <1>2, <1>4, <1>5, <1>6 DEF ListsType
<1>8. TypeOK'
  BY <1>1, <1>2, <1>7 DEF TypeOK, ListsType, List
<1>9. ASSUME NEW t \in Scopes, NEW keys
      PROVE  Carries(lists[t], lists'[t], keys)
  <2>1. Carries(old, new, keys)
    <3>1. Carries(old, old, keys)
      BY CarriesSame
    <3> QED
      BY <1>3, <3>1, RenderedCarries
  <2> QED
    BY <1>3, <1>5, <2>1, CarriesSame
<1> QED
  BY <1>2, <1>8, <1>9, Carried

\* An edit keeps the invariant if it carries the keys it does not touch.
LEMMA EditsKeep ==
  ASSUME IndInv, NEW new \in Seq(Row), NEW keys \in SUBSET (Keys \union {NoKey}), Edits(new, keys),
         Carries(lists[scope], new, Keys \ keys)
  PROVE  IndInv'
<1>1. TypeOK /\ ListsType(lists, scope) /\ scope \in Scopes
  BY TypeOKIs DEF IndInv
<1>2. /\ lists' = [lists EXCEPT ![scope] = Rendered(new, actual)]
      /\ touched' = touched \union {<<scope, k>> : k \in keys \ {NoKey}}
      /\ post' = [post EXCEPT !.late = post # NoPost]
      /\ UNCHANGED <<saved, scope, actual, fetching>>
      /\ acts < MaxActs /\ acts' = acts + 1
  BY DEF Edits, Acts
<1>3. PICK drawn \in Seq(Row) : drawn = Rendered(new, actual)
  BY RenderedType
<1>4. DOMAIN lists = Scopes /\ \A s \in Scopes : lists[s] \in Seq(Row)
  BY <1>1 DEF ListsType
<1>5. /\ lists'[scope] = drawn /\ DOMAIN lists' = Scopes
      /\ \A s \in Scopes : s # scope => lists'[s] = lists[s]
  BY <1>1, <1>2, <1>3, <1>4
<1>6. \A i \in DOMAIN drawn : IsUserinfo(drawn[i].key) => drawn[i].params # NoParams /\ Shown \subseteq DOMAIN drawn[i].params
  BY <1>3, RenderedType
<1>7. ListsType(lists', scope')
  BY <1>2, <1>4, <1>5, <1>6 DEF ListsType
<1>8. /\ DOMAIN post' = DOMAIN NoPost /\ post'.at = post.at /\ post'.body = post.body
      /\ post'.touched = post.touched /\ post'.late = (post # NoPost)
  <2>1. DOMAIN post = {"at", "body", "touched", "late"}
    BY <1>1, NoPostFields DEF TypeOK
  <2> QED
    BY <1>2, <2>1, NoPostFields
<1>9. touched' \subseteq Scopes \X Keys
  <2>1. touched \subseteq Scopes \X Keys
    BY <1>1 DEF TypeOK
  <2>2. \A k \in keys \ {NoKey} : <<scope, k>> \in Scopes \X Keys
    BY <1>1
  <2> QED
    BY <1>2, <2>1, <2>2
<1>10. acts' \in 0..MaxActs
  BY <1>1, <1>2, EditorAssumption DEF TypeOK
<1>11. TypeOK'
  <2>1. post'.late \in BOOLEAN
    BY <1>8
  <2> QED
    BY <1>1, <1>2, <1>7, <1>8, <1>9, <1>10, <2>1 DEF TypeOK, ListsType, List
<1>12. post.at # "none" => post'.late
  BY <1>8, NoPostFields
<1>13. ASSUME NEW s \in Scopes
       PROVE  Carries(lists[s], lists'[s], {k \in Keys : <<s, k>> \notin touched' \/ (post.at # "none" /\ ~post'.late)})
  <2> DEFINE K == {k \in Keys : <<s, k>> \notin touched' \/ (post.at # "none" /\ ~post'.late)}
  <2>1. CASE s = scope
    <3>1. PICK list : list = lists[scope]
      OBVIOUS
    <3>2. Carries(list, drawn, Keys \ keys)
      BY <1>3, <3>1, RenderedCarries
    <3>3. K \subseteq Keys \ keys
      <4> SUFFICES ASSUME NEW k \in Keys, <<s, k>> \notin touched'
                   PROVE  k \notin keys
        BY <1>12
      <4>1. k # NoKey
        BY EditorAssumption
      <4> QED
        BY <1>2, <2>1, <4>1
    <3> HIDE DEF K
    <3>4. Carries(list, drawn, K)
      BY <3>2, <3>3 DEF Carries
    <3> QED
      BY <1>5, <2>1, <3>1, <3>4 DEF K
  <2>2. CASE s # scope
    <3>1. lists'[s] = lists[s]
      BY <1>5, <2>2
    <3> HIDE DEF K
    <3>2. Carries(lists[s], lists'[s], K)
      BY <3>1 DEF Carries
    <3> QED
      BY <3>2 DEF K
  <2> QED
    BY <2>1, <2>2
<1>14. touched \subseteq touched' /\ (~post'.late => ~post.late)
  <2>1. ~post'.late => post = NoPost
    BY <1>8
  <2> QED
    BY <1>2, <2>1, NoPostFields
<1> QED
  BY <1>2, <1>8, <1>11, <1>13, <1>14, Carried

LEMMA ListIs ==
  ASSUME IndInv
  PROVE  /\ List \in Seq(Row) /\ List = lists[scope]
         /\ \A i \in DOMAIN List : IsUserinfo(List[i].key) =>
              List[i].params # NoParams /\ Shown \subseteq DOMAIN List[i].params
BY DEF IndInv, TypeOK, List

LEMMA AddRowKeeps ==
  ASSUME IndInv, AddRow
  PROVE  IndInv'
<1> DEFINE row == [key |-> NoKey, mode |-> "custom", value |-> Blank, params |-> NoParams]
<1>1. row \in Row /\ row.key = NoKey
  BY DEF Row, Values
<1>2. Edits(Append(List, row), {})
  BY DEF AddRow
<1> HIDE DEF row
<1>3. PICK list \in Seq(Row) : list = List /\ list = lists[scope]
  BY ListIs
<1>4. PICK new \in Seq(Row) : new = Append(list, row)
  <2>1. Append(list, row) \in Seq(Row)
    BY <1>1
  <2> QED
    BY <2>1, Zenon
<1>5. Carries(list, new, Keys \ {})
  <2>1. ASSUME NEW k \in Keys, NEW o, NEW must, Displays(list, k, o, must)
        PROVE  Displays(new, k, o, must)
    <3>1. Displays(Append(list, row), k, o, must)
      BY <1>1, <2>1, AppendDisplays
    <3> QED
      BY <1>4, <3>1
  <2> QED
    BY <2>1 DEF Carries
<1>6. Edits(new, {})
  BY <1>2, <1>3, <1>4
<1> QED
  BY <1>3, <1>5, <1>6, EditsKeep

LEMMA RemoveRowKeeps ==
  ASSUME IndInv, NEW i \in DOMAIN List, RemoveRow(i)
  PROVE  IndInv'
<1>1. PICK list \in Seq(Row) : list = List /\ list = lists[scope]
  BY ListIs
<1>2. i \in 1..Len(list) /\ list[i] \in Row
  BY <1>1
<1>3. PICK new \in Seq(Row) : new = RemoveAt(list, i)
  BY <1>2, RemoveAtType
<1>4. PICK keys \in SUBSET (Keys \union {NoKey}) : keys = {list[i].key}
  <2>1. list[i].key \in Keys \union {NoKey}
    BY <1>2 DEF Row
  <2> QED
    BY <2>1
<1>5. Edits(new, keys)
  BY <1>1, <1>3, <1>4 DEF RemoveRow
<1>6. Carries(list, new, Keys \ keys)
  BY <1>2, <1>3, <1>4, RemoveAtDisplays DEF Carries
<1> QED
  BY <1>1, <1>5, <1>6, EditsKeep

\* An edit of one row, that touches the keys it had and has.
LEMMA EditRowKeeps ==
  ASSUME IndInv, NEW i \in DOMAIN List, NEW row \in Row, NEW list, list = [List EXCEPT ![i] = row],
         NEW keys, keys = {List[i].key, row.key}, Edits(list, keys)
  PROVE  IndInv'
<1>1. PICK old \in Seq(Row) : old = List /\ old = lists[scope]
  BY ListIs
<1>2. list \in Seq(Row) /\ Carries(old, list, Keys \ {old[i].key, row.key})
  BY <1>1, ChangedRowCarries
<1>3. keys \in SUBSET (Keys \union {NoKey})
  <2>1. old[i] \in Row
    BY <1>1
  <2> QED
    BY <1>1, <2>1 DEF Row
<1>4. Carries(old, list, Keys \ keys)
  BY <1>1, <1>2
<1> QED
  BY <1>1, <1>2, <1>3, <1>4, EditsKeep

LEMMA TypeKeyKeeps ==
  ASSUME IndInv, NEW i \in DOMAIN List, TypeKey(i)
  PROVE  IndInv'
<1>1. PICK k \in (Keys \union {NoKey}) \ {List[i].key} : Edits([List EXCEPT ![i].key = k], {k, List[i].key})
  BY DEF TypeKey
<1>2. PICK list \in Seq(Row) : list = List
  BY ListIs
<1>3. PICK row \in Row : row = [list[i] EXCEPT !.key = k] /\ row.key = k
  <2>1. list[i] \in Row
    BY <1>2
  <2>2. [list[i] EXCEPT !.key = k] \in Row /\ [list[i] EXCEPT !.key = k].key = k
    BY <2>1 DEF Row
  <2> QED
    BY <2>2
<1>4. PICK new : new = [list EXCEPT ![i] = row]
  OBVIOUS
<1>5. [list EXCEPT ![i].key = k] = new
  BY <1>2, <1>3, <1>4
<1>6. PICK keys : keys = {list[i].key, row.key}
  OBVIOUS
<1>7. keys = {k, list[i].key}
  BY <1>3, <1>6
<1>8. Edits(new, keys)
  BY <1>1, <1>2, <1>5, <1>7
<1> QED
  BY <1>2, <1>4, <1>6, <1>8, EditRowKeeps

\* An edit of a row that keeps its key.
LEMMA EditValueKeeps ==
  ASSUME IndInv, NEW i \in DOMAIN List, NEW row \in Row, row.key = List[i].key,
         Edits([List EXCEPT ![i] = row], {List[i].key})
  PROVE  IndInv'
<1>1. PICK list : list = [List EXCEPT ![i] = row]
  OBVIOUS
<1>2. PICK keys : keys = {List[i].key}
  OBVIOUS
<1>3. keys = {List[i].key, row.key}
  BY <1>2
<1>4. Edits(list, keys)
  BY <1>1, <1>2
<1> QED
  BY <1>1, <1>3, <1>4, EditRowKeeps

LEMMA TypeValueKeeps ==
  ASSUME IndInv, NEW i \in DOMAIN List, TypeValue(i)
  PROVE  IndInv'
<1>1. PICK v \in (Texts \union {Blank}) \ {List[i].value} : Edits([List EXCEPT ![i].value = v], {List[i].key})
  BY DEF TypeValue
<1>2. PICK list \in Seq(Row) : list = List
  BY ListIs
<1>3. PICK row \in Row : row = [list[i] EXCEPT !.value = v] /\ row.key = list[i].key
  <2>1. list[i] \in Row
    BY <1>2
  <2>2. v \in Values
    BY DEF Values
  <2>3. [list[i] EXCEPT !.value = v] \in Row /\ [list[i] EXCEPT !.value = v].key = list[i].key
    BY <2>1, <2>2 DEF Row
  <2> QED
    BY <2>3
<1>4. [list EXCEPT ![i].value = v] = [list EXCEPT ![i] = row]
  BY <1>2, <1>3
<1>5. Edits([List EXCEPT ![i] = row], {List[i].key})
  BY <1>1, <1>2, <1>4
<1> QED
  BY <1>2, <1>3, <1>5, EditValueKeeps

LEMMA SwitchModeKeeps ==
  ASSUME IndInv, NEW i \in DOMAIN List, SwitchMode(i)
  PROVE  IndInv'
<1>1. PICK m \in {"actual", "custom"} \ {List[i].mode} : Edits([List EXCEPT ![i].mode = m], {List[i].key})
  BY DEF SwitchMode
<1>2. PICK list \in Seq(Row) : list = List
  BY ListIs
<1>3. PICK row \in Row : row = [list[i] EXCEPT !.mode = m] /\ row.key = list[i].key
  <2>1. list[i] \in Row
    BY <1>2
  <2>2. [list[i] EXCEPT !.mode = m] \in Row /\ [list[i] EXCEPT !.mode = m].key = list[i].key
    BY <2>1 DEF Row
  <2> QED
    BY <2>2
<1>4. [list EXCEPT ![i].mode = m] = [list EXCEPT ![i] = row]
  BY <1>2, <1>3
<1>5. Edits([List EXCEPT ![i] = row], {List[i].key})
  BY <1>1, <1>2, <1>4
<1> QED
  BY <1>2, <1>3, <1>5, EditValueKeeps

\* A row with another parameter is a row.
LEMMA ParamType ==
  ASSUME NEW row \in Row, row.params # NoParams, NEW p \in DOMAIN row.params,
         NEW x \in Param({"actual", "custom"}),
         NEW new, new = [row EXCEPT !.params = [row.params EXCEPT ![p] = x]]
  PROVE  new \in Row /\ new.key = row.key
<1> DEFINE f == [row.params EXCEPT ![p] = x]
<1>1. row.params \in [DOMAIN row.params -> Param({"actual", "custom"})] /\ DOMAIN row.params \in SUBSET Params
  BY RowParams, ParamSetsType
<1>2. f \in [DOMAIN row.params -> Param({"actual", "custom"})]
  BY <1>1
<1>3. f \in ParamSets({"actual", "custom"})
  BY <1>1, <1>2, IsParamSet
<1> HIDE DEF f
<1>4. new = [row EXCEPT !.params = f]
  BY DEF f
<1> QED
  BY <1>3, <1>4 DEF Row

LEMMA TypeParamKeeps ==
  ASSUME IndInv, NEW i \in DOMAIN List, TypeParam(i)
  PROVE  IndInv'
<1>1. PICK p \in Shown, v \in Numbers \union {Blank} :
        Edits([List EXCEPT ![i].params[p].value = v], {List[i].key})
  BY DEF TypeParam
<1>2. PICK list \in Seq(Row) : list = List /\ list[i] \in Row
  BY ListIs
<1>3. list[i].params # NoParams /\ p \in DOMAIN list[i].params
  BY <1>2, ListIs DEF TypeParam
<1>4. PICK x \in Param({"actual", "custom"}) : x = [list[i].params[p] EXCEPT !.value = v]
  <2>1. list[i].params[p] \in Param({"actual", "custom"})
    BY <1>2, <1>3, RowParams
  <2> QED
    BY <2>1 DEF Param
<1>5. PICK row : row = [list[i] EXCEPT !.params = [list[i].params EXCEPT ![p] = x]]
  OBVIOUS
<1>6. row \in Row /\ row.key = list[i].key
  BY <1>2, <1>3, <1>5, ParamType
<1>7. [list EXCEPT ![i].params[p].value = v] = [list EXCEPT ![i] = row]
  <2>1. [list EXCEPT ![i].params[p].value = v] =
          [list EXCEPT ![i] = [list[i] EXCEPT !.params = [list[i].params EXCEPT ![p] =
             [list[i].params[p] EXCEPT !.value = v]]]]
    OBVIOUS
  <2> QED
    BY <1>4, <1>5, <2>1
<1>8. Edits([List EXCEPT ![i] = row], {List[i].key})
  BY <1>1, <1>2, <1>7
<1> QED
  BY <1>2, <1>8, <1>6, EditValueKeeps

LEMMA SwitchParamKeeps ==
  ASSUME IndInv, NEW i \in DOMAIN List, SwitchParam(i)
  PROVE  IndInv'
<1>1. PICK p \in Shown, m \in {"actual", "custom"} :
        Edits([List EXCEPT ![i].params[p].mode = m], {List[i].key})
  BY DEF SwitchParam
<1>2. PICK list \in Seq(Row) : list = List /\ list[i] \in Row
  BY ListIs
<1>3. list[i].params # NoParams /\ p \in DOMAIN list[i].params
  BY <1>2, ListIs DEF SwitchParam
<1>4. PICK x \in Param({"actual", "custom"}) : x = [list[i].params[p] EXCEPT !.mode = m]
  <2>1. list[i].params[p] \in Param({"actual", "custom"})
    BY <1>2, <1>3, RowParams
  <2> QED
    BY <2>1 DEF Param
<1>5. PICK row : row = [list[i] EXCEPT !.params = [list[i].params EXCEPT ![p] = x]]
  OBVIOUS
<1>6. row \in Row /\ row.key = list[i].key
  BY <1>2, <1>3, <1>5, ParamType
<1>7. [list EXCEPT ![i].params[p].mode = m] = [list EXCEPT ![i] = row]
  <2>1. [list EXCEPT ![i].params[p].mode = m] =
          [list EXCEPT ![i] = [list[i] EXCEPT !.params = [list[i].params EXCEPT ![p] =
             [list[i].params[p] EXCEPT !.mode = m]]]]
    OBVIOUS
  <2> QED
    BY <1>4, <1>5, <2>1
<1>8. Edits([List EXCEPT ![i] = row], {List[i].key})
  BY <1>1, <1>2, <1>7
<1> QED
  BY <1>2, <1>8, <1>6, EditValueKeeps

-----------------------------------------------------------------------------
(* Fetches and saves. *)

LEMMA FetchedKeeps ==
  ASSUME IndInv, NEW u \in Users, Fetched(u)
  PROVE  IndInv'
<1>1. TypeOK /\ ListsType(lists, scope) /\ scope \in Scopes
  BY TypeOKIs DEF IndInv
<1>2. /\ lists' = [lists EXCEPT ![scope] = Rendered(WithFetched(lists[scope], u), u)]
      /\ actual' = u /\ fetching' = FALSE
      /\ UNCHANGED <<saved, scope, post, touched, acts>>
  BY DEF Fetched
<1>3. PICK list \in Seq(Row) : list = lists[scope]
  BY <1>1 DEF ListsType
<1>4. PICK w \in Seq(Row) : w = WithFetched(list, u)
  BY WithFetchedType
<1>5. PICK new \in Seq(Row) : new = Rendered(w, u)
  BY RenderedType
<1>6. DOMAIN lists = Scopes /\ \A s \in Scopes : lists[s] \in Seq(Row)
  BY <1>1 DEF ListsType
<1>7. /\ lists'[scope] = new /\ DOMAIN lists' = Scopes
      /\ \A s \in Scopes : s # scope => lists'[s] = lists[s]
  BY <1>1, <1>2, <1>3, <1>4, <1>5, <1>6
<1>8. \A i \in DOMAIN new : IsUserinfo(new[i].key) => new[i].params # NoParams /\ Shown \subseteq DOMAIN new[i].params
  BY <1>5, RenderedType
<1>9. ListsType(lists', scope')
  BY <1>2, <1>6, <1>7, <1>8 DEF ListsType
<1>10. TypeOK'
  BY <1>1, <1>2, <1>9 DEF TypeOK, ListsType, List
<1>11. Carries(list, new, Keys)
  BY <1>4, <1>5, FetchedCarries
<1>12. ASSUME NEW s \in Scopes, NEW keys \in SUBSET Keys
       PROVE  Carries(lists[s], lists'[s], keys)
  <2>1. CASE s = scope
    <3>1. Carries(list, new, keys)
      BY <1>11, CarriesFewer
    <3> QED
      BY <1>3, <1>7, <2>1, <3>1
  <2>2. CASE s # scope
    BY <1>7, <2>2, CarriesSame
  <2> QED
    BY <2>1, <2>2
<1>13. \A s \in Scopes :
         Carries(lists[s], lists'[s], {k \in Keys : <<s, k>> \notin touched' \/ (post.at # "none" /\ ~post'.late)})
  BY <1>12
<1> QED
  BY <1>2, <1>10, <1>13, Carried

\* What the page saves shows what the server had but for the keys that were touched.
LEMMA SaveKeeps ==
  ASSUME IndInv, Save
  PROVE  IndInv'
<1> DEFINE body == [s \in Scopes |-> OverridesOf(lists[s])]
<1>1. TypeOK /\ ListsType(lists, scope)
  BY TypeOKIs DEF IndInv
<1>2. /\ post = NoPost /\ post' = [at |-> "sent", body |-> body, touched |-> touched, late |-> FALSE]
      /\ acts < MaxActs /\ acts' = acts + 1
      /\ UNCHANGED <<saved, lists, scope, actual, fetching, touched>>
  BY DEF Save, Acts
<1>3. ASSUME NEW s \in Scopes
      PROVE  /\ lists[s] \in Seq(Row) /\ DOMAIN body[s] = Listed(lists[s]) /\ Listed(lists[s]) \subseteq Keys
             /\ \A k \in Listed(lists[s]) :
                  /\ body[s][k] = OverrideOf(lists[s][Ruling(lists[s], k)])
                  /\ body[s][k] \in Override
                  /\ Shows(lists[s][Ruling(lists[s], k)], body[s][k])
  <2>1. lists[s] \in Seq(Row)
    BY <1>1 DEF ListsType
  <2>2. PICK list \in Seq(Row) : list = lists[s]
    BY <2>1
  <2>3. body[s] = [k \in Listed(list) |-> OverrideOf(list[Ruling(list, k)])]
    BY <2>2 DEF OverridesOf
  <2> HIDE DEF body
  <2>4. \A k \in Listed(list) : list[Ruling(list, k)] \in Row
    BY RulingRules
  <2>5. \A k \in Listed(list) : /\ OverrideOf(list[Ruling(list, k)]) \in Override
                                /\ Shows(list[Ruling(list, k)], OverrideOf(list[Ruling(list, k)]))
    BY <2>4, OverrideOfType
  <2>6. Listed(list) \subseteq Keys
    <3>1. \A i \in DOMAIN list : list[i].key \in Keys \union {NoKey}
      <4>1. \A row \in Row : row.key \in Keys \union {NoKey}
        BY DEF Row
      <4>2. \A i \in DOMAIN list : list[i] \in Row
        OBVIOUS
      <4> QED
        BY <4>1, <4>2
    <3> QED
      BY <3>1 DEF Listed
  <2> QED
    BY <2>2, <2>3, <2>5, <2>6
<1>4. ASSUME NEW s \in Scopes
      PROVE  IsFiniteSet(DOMAIN body[s])
  <2>1. PICK list \in Seq(Row) : list = lists[s]
    BY <1>3
  <2> DEFINE f == [i \in 1..Len(list) |-> list[i].key]
  <2>2. \A x \in Listed(list) : \E i \in 1..Len(list) : f[i] = x
    BY DEF Listed
  <2>3. Len(list) \in Nat /\ DOMAIN f = 1..Len(list)
    OBVIOUS
  <2> HIDE DEF f, body
  <2>4. IsFiniteSet(Listed(list))
    BY <2>2, <2>3, ElementsAreFinite
  <2> QED
    BY <1>3, <2>1, <2>4
<1>5. IsSaved(body)
  <2>1. DOMAIN body = Scopes
    OBVIOUS
  <2> HIDE DEF body
  <2> QED
    BY <1>3, <1>4, <2>1 DEF IsSaved
<1>6. PICK x : x = body
  OBVIOUS
<1> HIDE DEF body
<1>7. Mirrored(x, TRUE, lists, touched)
  <2> SUFFICES ASSUME NEW s \in Scopes, NEW k \in Keys
               PROVE  Displays(lists[s], k, Own(x, s, k), k \in DOMAIN x[s])
    BY DEF Mirrored
  <2>1. PICK list \in Seq(Row) : list = lists[s]
    BY <1>3
  <2>2. DOMAIN x[s] = Listed(list)
    BY <1>3, <1>6, <2>1
  <2>3. ASSUME NEW i \in DOMAIN list, Rules(list, k, i)
        PROVE  Shows(list[i], Own(x, s, k))
    <3>1. k \in Listed(list)
      BY <2>3, EditorAssumption DEF Rules, Listed
    <3>2. /\ Ruling(list, k) \in 1..Len(list) /\ Rules(list, k, Ruling(list, k))
          /\ i \in 1..Len(list) /\ Len(list) \in Nat
      BY <3>1, RulingRules
    <3>3. i = Ruling(list, k)
      <4>1. PICK r : r = Ruling(list, k)
        OBVIOUS
      <4>2. r \in 1..Len(list) /\ Rules(list, k, r)
        BY <3>2, <4>1
      <4>3. ~(i < r) /\ ~(r < i)
        BY <2>3, <3>2, <4>2 DEF Rules
      <4> QED
        BY <3>2, <4>1, <4>2, <4>3
    <3>4. Shows(list[Ruling(list, k)], x[s][k])
      BY <1>3, <1>6, <2>1, <3>1
    <3> QED
      BY <2>2, <3>1, <3>3, <3>4 DEF Own
  <2> QED
    BY <2>1, <2>2, <2>3 DEF Displays
<1>8. ASSUME NEW s \in Scopes, NEW k \in Keys, <<s, k>> \notin touched
      PROVE  /\ Unaltered(k, Own(saved, s, k), Own(x, s, k))
             /\ k \in DOMAIN saved[s] => k \in DOMAIN x[s]
  <2>1. PICK list \in Seq(Row) : list = lists[s]
    BY <1>3
  <2>2. PICK old \in Override : old = Own(saved, s, k)
    BY <1>1, RowsOfDisplays DEF TypeOK
  <2>3. Displays(list, k, old, k \in DOMAIN saved[s])
    <3>1. Mirrored(saved, post.at = "saved" /\ ~post.late, lists, touched)
      BY MirrorsIs DEF IndInv
    <3> QED
      BY <1>8, <2>1, <2>2, <3>1 DEF Mirrored
  <2>4. CASE k \notin Listed(list)
    <3>1. k \notin DOMAIN saved[s]
      BY <2>3, <2>4 DEF Displays
    <3>2. k \notin DOMAIN x[s]
      BY <1>3, <1>6, <2>1, <2>4
    <3> QED
      BY <3>1, <3>2 DEF Own, Unaltered
  <2>5. CASE k \in Listed(list)
    <3>1. PICK row \in Row : row = list[Ruling(list, k)] /\ row.key = k
      BY <2>5, RulingRules
    <3>2. Shows(row, old)
      BY <2>3, <2>5, <3>1, RulingRules DEF Displays
    <3>3. Own(x, s, k) = OverrideOf(row)
      BY <1>3, <1>6, <2>1, <2>5, <3>1 DEF Own
    <3>4. ASSUME Settled(k, old)
          PROVE  \A v \in Sent(k, old, OverrideOf(row)) : Result(k, old, v) = Result(k, OverrideOf(row), v)
      <4>1. Settled(row.key, old)
        BY <3>1, <3>4
      <4>2. \A v \in Sent(row.key, old, OverrideOf(row)) :
              Result(row.key, old, v) = Result(row.key, OverrideOf(row), v)
        BY <3>2, <4>1, NothingAltered
      <4> QED
        BY <3>1, <4>2
    <3>5. Own(saved, s, k) = old
      BY <2>2
    <3>6. k \in DOMAIN x[s]
      BY <1>3, <1>6, <2>1, <2>5
    <3> HIDE DEF Own, Settled, Sent, Result, OverrideOf
    <3> QED
      BY <3>3, <3>4, <3>5, <3>6 DEF Unaltered
  <2> QED
    BY <2>4, <2>5
<1>9. TypeOK'
  <2>1. acts' \in 0..MaxActs
    BY <1>1, <1>2, EditorAssumption DEF TypeOK
  <2>2. DOMAIN post' = DOMAIN NoPost /\ post'.at = "sent" /\ post'.late = FALSE /\ IsSaved(post'.body)
    BY <1>2, <1>5, NoPostFields
  <2>3. post'.at \in {"none", "sent", "saved"} /\ post'.late \in BOOLEAN
    BY <2>2
  <2> QED
    BY <1>1, <1>2, <2>1, <2>2, <2>3 DEF TypeOK, List
<1>10. post'.at = "sent" /\ post'.body = x /\ post'.touched = touched /\ post'.late = FALSE
  BY <1>2, <1>6
<1>11. Mirrors(saved, post.at = "saved" /\ ~post.late)'
  <2>1. Mirrored(saved, FALSE, lists, touched)
    <3>1. Mirrored(saved, post.at = "saved" /\ ~post.late, lists, touched)
      BY MirrorsIs DEF IndInv
    <3> QED
      BY <3>1 DEF Mirrored
  <2>2. ~(post'.at = "saved" /\ ~post'.late)
    BY <1>10
  <2> QED
    BY <1>2, <2>1, <2>2 DEF Mirrors, Mirrored
<1>12. Mirrors(post.body, ~post.late)'
  BY <1>2, <1>7, <1>10 DEF Mirrors, Mirrored
<1> QED
  BY <1>2, <1>8, <1>9, <1>10, <1>11, <1>12 DEF IndInv

LEMMA SavedKeeps ==
  ASSUME IndInv, Saved
  PROVE  IndInv'
<1>1. /\ post.at = "sent" /\ saved' = post.body /\ post' = [NoPost EXCEPT !.at = "saved", !.late = post.late]
      /\ UNCHANGED <<lists, scope, actual, fetching, touched, acts>>
  BY DEF Saved
<1>2. DOMAIN post' = DOMAIN NoPost /\ post'.at = "saved" /\ post'.late = post.late
  BY <1>1 DEF NoPost
<1>3. TypeOK'
  <2>1. TypeOK
    BY DEF IndInv
  <2>2. post'.at \in {"none", "sent", "saved"} /\ post'.at # "sent"
    BY <1>2
  <2> QED
    BY <1>1, <1>2, <2>1, <2>2 DEF TypeOK, List
<1>4. Mirrors(saved, post.at = "saved" /\ ~post.late)'
  <2>1. Mirrors(post.body, ~post.late)
    BY <1>1 DEF IndInv
  <2> QED
    BY <1>1, <1>2, <2>1 DEF Mirrors
<1> QED
  BY <1>2, <1>3, <1>4 DEF IndInv

LEMMA SaveFailsKeeps ==
  ASSUME IndInv, SaveFails
  PROVE  IndInv'
<1>1. post' = NoPost /\ UNCHANGED <<saved, lists, scope, actual, fetching, touched, acts>>
  BY DEF SaveFails
<1>2. DOMAIN post' = DOMAIN NoPost /\ post'.at = "none" /\ post'.late = FALSE
  BY <1>1, NoPostFields
<1>3. TypeOK'
  <2>1. TypeOK
    BY DEF IndInv
  <2>2. post'.at \in {"none", "sent", "saved"} /\ post'.at # "sent" /\ post'.late \in BOOLEAN
    BY <1>2
  <2> QED
    BY <1>1, <1>2, <2>1, <2>2 DEF TypeOK, List
<1>4. Mirrors(saved, post.at = "saved" /\ ~post.late)'
  <2>1. Mirrors(saved, post.at = "saved" /\ ~post.late)
    BY DEF IndInv
  <2> QED
    BY <1>1, <1>2, <2>1 DEF Mirrors
<1> QED
  BY <1>2, <1>3, <1>4 DEF IndInv

LEMMA ReloadKeeps ==
  ASSUME IndInv, Reload
  PROVE  IndInv'
<1>1. /\ post' = NoPost /\ touched' = {}
      /\ lists' = [s \in Scopes |-> IF s = scope THEN Rendered(RowsOf(saved[s]), actual) ELSE RowsOf(saved[s])]
      /\ UNCHANGED <<saved, scope, actual, fetching, acts>>
  BY DEF Reload
<1>2. DOMAIN post' = DOMAIN NoPost /\ post'.at = "none" /\ post'.late = FALSE
  BY <1>1, NoPostFields
<1>3. TypeOK /\ IsSaved(saved) /\ scope \in Scopes
  BY DEF IndInv, TypeOK
<1>4. PICK x, l, t, h : x = saved /\ l = lists' /\ t = scope /\ h = actual
  OBVIOUS
<1>5. l = [s \in Scopes |-> IF s = t THEN Rendered(RowsOf(x[s]), h) ELSE RowsOf(x[s])]
  BY <1>1, <1>4
<1>6. ListsType(l, t) /\ Mirrored(x, FALSE, l, {})
  BY <1>3, <1>4, <1>5, LoadedLists
<1>7. TypeOK'
  <2>1. post'.at \in {"none", "sent", "saved"} /\ post'.at # "sent" /\ post'.late \in BOOLEAN
    BY <1>2
  <2>2. ListsType(lists', scope')
    BY <1>1, <1>4, <1>6
  <2>3. touched' \subseteq Scopes \X Keys
    BY <1>1
  <2> QED
    BY <1>1, <1>2, <1>3, <2>1, <2>2, <2>3 DEF TypeOK, List, ListsType
<1>8. Mirrors(saved, post.at = "saved" /\ ~post.late)'
  <2>1. ~(post'.at = "saved" /\ ~post'.late)
    BY <1>2
  <2>2. saved' = x /\ lists' = l /\ touched' = {}
    BY <1>1, <1>4
  <2> QED
    BY <1>6, <2>1, <2>2 DEF Mirrors, Mirrored
<1> QED
  BY <1>2, <1>7, <1>8 DEF IndInv

\* A fetch that begins, or fails, changes no list and nothing that is saved.
LEMMA QuietKeeps ==
  ASSUME IndInv, UNCHANGED <<saved, lists, scope, actual, post, touched>>,
         fetching' \in BOOLEAN, acts' \in 0..MaxActs
  PROVE  IndInv'
<1>1. TypeOK'
  BY DEF IndInv, TypeOK, List
<1>2. Mirrors(saved, post.at = "saved" /\ ~post.late)'
  <2>1. Mirrors(saved, post.at = "saved" /\ ~post.late)
    BY DEF IndInv
  <2> QED
    BY <2>1 DEF Mirrors
<1>3. ASSUME post.at = "sent"
      PROVE  Mirrors(post.body, ~post.late)'
  <2>1. Mirrors(post.body, ~post.late)
    BY <1>3 DEF IndInv
  <2> QED
    BY <2>1 DEF Mirrors
<1>4. ASSUME post.at = "sent", NEW s \in Scopes, NEW k \in Keys, <<s, k>> \notin post'.touched
      PROVE  /\ Unaltered(k, Own(saved', s, k), Own(post'.body, s, k))
             /\ k \in DOMAIN saved'[s] => k \in DOMAIN post'.body[s]
  BY <1>4 DEF IndInv
<1> QED
  BY <1>1, <1>2, <1>3, <1>4 DEF IndInv

LEMMA NextKeeps ==
  ASSUME IndInv, [Next]_vars
  PROVE  IndInv'
<1>1. ASSUME NEW s \in Scopes, Show(s)
      PROVE  IndInv'
  BY <1>1, ShowKeeps
<1>2. CASE AddRow
  BY <1>2, AddRowKeeps
<1>3. ASSUME NEW i \in DOMAIN List,
             RemoveRow(i) \/ TypeKey(i) \/ TypeValue(i) \/ SwitchMode(i) \/ TypeParam(i) \/ SwitchParam(i)
      PROVE  IndInv'
  BY <1>3, RemoveRowKeeps, TypeKeyKeeps, TypeValueKeeps, SwitchModeKeeps, TypeParamKeeps, SwitchParamKeeps
<1>4. CASE Fetch
  <2>1. acts \in 0..MaxActs
    BY DEF IndInv, TypeOK
  <2>2. fetching' \in BOOLEAN /\ acts' \in 0..MaxActs
    BY <1>4, <2>1, EditorAssumption DEF Fetch, Acts
  <2> QED
    BY <1>4, <2>2, QuietKeeps DEF Fetch
<1>5. ASSUME NEW u \in Users, Fetched(u)
      PROVE  IndInv'
  BY <1>5, FetchedKeeps
<1>6. CASE FetchFails
  <2>1. acts \in 0..MaxActs
    BY DEF IndInv, TypeOK
  <2>2. fetching' \in BOOLEAN /\ acts' \in 0..MaxActs
    BY <1>6, <2>1 DEF FetchFails
  <2> QED
    BY <1>6, <2>2, QuietKeeps DEF FetchFails
<1>7. CASE Save
  BY <1>7, SaveKeeps
<1>8. CASE Saved
  BY <1>8, SavedKeeps
<1>9. CASE SaveFails
  BY <1>9, SaveFailsKeeps
<1>10. CASE Reload
  BY <1>10, ReloadKeeps
<1>11. CASE UNCHANGED vars
  <2>1. fetching \in BOOLEAN /\ acts \in 0..MaxActs
    BY DEF IndInv, TypeOK
  <2>2. fetching' \in BOOLEAN /\ acts' \in 0..MaxActs
    BY <1>11, <2>1 DEF vars
  <2>3. UNCHANGED <<saved, lists, scope, actual, post, touched>>
    BY <1>11 DEF vars
  <2> QED
    BY <2>2, <2>3, QuietKeeps
<1> QED
  BY <1>1, <1>2, <1>3, <1>4, <1>5, <1>6, <1>7, <1>8, <1>9, <1>10, <1>11 DEF Next

\* The page's rows mirror what the server has and what it was sent, but for touched keys,
\* through every order of edits, fetches, saves and their late or lost answers.
THEOREM Invariance == Spec => []IndInv
<1>1. Init => IndInv
  BY InitInvariant
<1>2. IndInv /\ [Next]_vars => IndInv'
  BY NextKeeps
<1> QED
  BY <1>1, <1>2, PTL DEF Spec

\* Every variable keeps its type, and rows on show a control for each parameter.
THEOREM TypeCorrect == Spec => []TypeOK
<1>1. IndInv => TypeOK
  BY DEF IndInv
<1> QED
  BY <1>1, Invariance, PTL

-----------------------------------------------------------------------------
(* What a row combines. *)

LEMMA CleanedBlank == Cleaned(Blank) = Blank
BY DEF Cleaned

\* A userinfo that is put together is sent as it is, or not at all.
LEMMA CleanedText ==
  ASSUME NEW D \in SUBSET Params, NEW f \in [D -> Numbers]
  PROVE  /\ D = {} => Text(f) = Blank
         /\ D # {} => Text(f) = f /\ f \in Infos
         /\ (\A p \in D : f[p] \notin Illegal) => Cleaned(Text(f)) = Text(f)
         /\ (\E p \in D : f[p] \in Illegal) => Cleaned(Text(f)) = Blank
<1>1. f = [p \in D |-> f[p]] /\ DOMAIN f = D
  OBVIOUS
<1>2. CASE D = {}
  <2>1. f = Empty
    BY <1>1, <1>2 DEF Empty
  <2> QED
    BY <1>2, <2>1, CleanedBlank DEF Text
<1>3. CASE D # {}
  <2>1. f # Empty
    BY <1>1, <1>3 DEF Empty
  <2>2. f \in Infos
    BY <2>1 DEF Infos
  <2> QED
    BY <1>1, <1>3, <2>1, <2>2 DEF Text, Cleaned, Legal
<1> QED
  BY <1>2, <1>3

\* What a row combines is what the server makes of its parameters, as far as the page
\* shows that.
LEMMA CombinedIsApplied ==
  ASSUME NEW o \in Override, o # NoOverride, NEW k, IsUserinfo(k), Settled(k, o),
         NEW row, row.key = k, Shows(row, o), NEW v \in Infos, Legal(v)
  PROVE  Cleaned(Combined(row.params, v)) = OnShow(k, Cleaned(Text(WithParams(v, o.params))))
<1>1. DOMAIN o.params = Shown /\ \A p \in Shown : o.params[p].mode = "remove" => o.params[p].value = Blank
  BY DEF Settled
<1>2. PICK params : params = row.params
  OBVIOUS
<1>3. Shown \subseteq DOMAIN params /\ \A p \in Shown : params[p] = [o.params[p] EXCEPT !.mode = NormalizeMode(@)]
  BY <1>1, <1>2 DEF Shows
<1>4. \A p \in Shown : o.params[p] \in Param(Modes) /\ o.params[p].value \in Numbers \union {Blank}
  BY <1>1, ParamSetsType DEF Override
<1>5. \A p \in Shown : params[p].mode = NormalizeMode(o.params[p].mode) /\ params[p].value = o.params[p].value
  BY <1>3, <1>4 DEF Param
<1>6. /\ Shown \subseteq Params /\ DOMAIN v \subseteq Params /\ v \in [DOMAIN v -> Numbers]
      /\ \A p \in DOMAIN v : v[p] \notin Illegal
  BY InfosType, EditorAssumption DEF Legal
<1>7. \A p \in Shown : (params[p].mode = "actual") = (o.params[p].mode = "actual")
  BY <1>5 DEF NormalizeMode
<1> DEFINE A == {p \in DOMAIN params \intersect Shown :
                   IF params[p].mode = "actual" THEN p \in DOMAIN v ELSE params[p].value # Blank}
           Set(p) == p \in DOMAIN o.params /\ o.params[p].mode # "actual"
           Gone(p) == o.params[p].mode = "remove" \/ o.params[p].value = Blank
           B == {p \in DOMAIN v \union DOMAIN o.params : IF Set(p) THEN ~Gone(p) ELSE p \in DOMAIN v}
           f == [p \in A |-> IF params[p].mode = "actual" THEN v[p] ELSE params[p].value]
           g == [p \in B |-> IF Set(p) THEN o.params[p].value ELSE v[p]]
<1>8. A = B \intersect Shown /\ B \in SUBSET Params
  <2>1. ASSUME NEW p \in Shown
        PROVE  p \in A <=> p \in B
    BY <1>1, <1>3, <1>5, <1>6, <1>7
  <2>2. A \subseteq Shown /\ B \subseteq Params
    BY <1>1, <1>6
  <2> HIDE DEF A, B
  <2> QED
    BY <2>1, <2>2
<1>9. ASSUME NEW p \in A
      PROVE  f[p] = g[p]
  <2>1. p \in B
    BY <1>8
  <2>2. (IF params[p].mode = "actual" THEN v[p] ELSE params[p].value) = (IF Set(p) THEN o.params[p].value ELSE v[p])
    BY <1>1, <1>5, <1>6, <1>7
  <2> HIDE DEF A, B, Set
  <2> QED
    BY <2>1, <2>2
<1>10. ASSUME NEW p \in B
      PROVE  g[p] \in Numbers /\ (p \notin Shown => g[p] \notin Illegal)
  <2>1. CASE Set(p)
    BY <1>1, <1>4, <2>1
  <2>2. CASE ~Set(p)
    BY <1>1, <1>6, <2>2
  <2> QED
    BY <2>1, <2>2
<1>11. Combined(row.params, v) = Text(f) /\ WithParams(v, o.params) = g
  BY <1>2 DEF Combined, WithParams
<1>12. DOMAIN f = A /\ DOMAIN g = B /\ f = [p \in A |-> f[p]] /\ g = [p \in B |-> g[p]]
  OBVIOUS
<1> HIDE DEF A, B, f, g
<1>13. f \in [A -> Numbers] /\ g \in [B -> Numbers] /\ A \in SUBSET Params /\ f = [p \in B \intersect Shown |-> g[p]]
  BY <1>8, <1>9, <1>10, <1>12
<1>14. CASE \E p \in A : f[p] \in Illegal
  <2>1. \E p \in B : g[p] \in Illegal
    BY <1>8, <1>9, <1>14
  <2>2. Cleaned(Text(f)) = Blank /\ Cleaned(Text(g)) = Blank
    BY <1>8, <1>13, <1>14, <2>1, CleanedText
  <2>3. OnShow(k, Blank) = Blank
    BY EditorAssumption DEF OnShow
  <2> QED
    BY <1>11, <2>2, <2>3
<1>15. CASE \A p \in A : f[p] \notin Illegal
  <2>1. \A p \in B : g[p] \notin Illegal
    BY <1>8, <1>9, <1>10, <1>15
  <2>2. Cleaned(Text(f)) = Text(f) /\ Cleaned(Text(g)) = Text(g)
    BY <1>8, <1>13, <1>15, <2>1, CleanedText
  <2>3. CASE B = {}
    <3>1. A = {}
      BY <1>8, <2>3
    <3>2. Text(f) = Blank /\ Text(g) = Blank
      BY <1>8, <1>13, <2>3, <3>1, CleanedText
    <3>3. OnShow(k, Blank) = Blank
      BY EditorAssumption DEF OnShow
    <3> QED
      BY <1>11, <2>2, <3>2, <3>3
  <2>4. CASE B # {}
    <3>1. Text(g) = g /\ g \in Infos
      BY <1>8, <1>13, <2>4, CleanedText
    <3>2. OnShow(k, g) = Text(f)
      BY <1>12, <1>13, <3>1 DEF OnShow
    <3> QED
      BY <1>11, <2>2, <3>1, <3>2
  <2> QED
    BY <2>3, <2>4
<1> QED
  BY <1>14, <1>15

-----------------------------------------------------------------------------
(* Layers. *)

LEMMA LayerIsScope ==
  ASSUME NEW m \in Members, NEW i \in Places(m)
  PROVE  Layer(m, i) \in Scopes /\ Len(m.squads) \in Nat
<1>1. m.core \in Cores /\ m.squads \in Seq(Squads)
  BY EditorAssumption DEF Members
<1>2. Len(m.squads) \in Nat /\ i \in 0..Len(m.squads)
  BY <1>1 DEF Places
<1>3. i # 0 => m.squads[i] \in Squads
  BY <1>1, <1>2
<1> QED
  BY <1>1, <1>2, <1>3 DEF Layer, Scopes

\* Of the layers that have a key there is a last one.
LEMMA LastLayerIs ==
  ASSUME NEW x, NEW m \in Members, NEW k, Having(x, m, k) # {}
  PROVE  \E i \in Having(x, m, k) :
           /\ i \in Places(m) /\ LastLayer(x, m, k) = Layer(m, i)
           /\ \A j \in Having(x, m, k) : j <= i
<1> DEFINE n == Len(m.squads)
           S == Having(x, m, k)
           T == {i + 1 : i \in S}
<1>1. S \subseteq 0..n /\ n \in Nat /\ Places(m) = 0..n
  <2>1. m.squads \in Seq(Squads)
    BY EditorAssumption DEF Members
  <2> QED
    BY <2>1 DEF Having, Places
<1> HIDE DEF S, n
<1>2. T \in SUBSET (1..(n + 1)) /\ T # {} /\ n + 1 \in Nat
  BY <1>1 DEF S
<1>3. PICK t \in T : \A j \in T : j <= t
  <2> HIDE DEF T
  <2> QED
    BY <1>2, LastIsIn
<1>4. PICK i \in S : t = i + 1
  BY <1>3
<1>5. ASSUME NEW j \in S
      PROVE  i >= j
  <2>1. j + 1 <= i + 1
    BY <1>3, <1>4
  <2>2. i \in 0..n /\ j \in 0..n
    BY <1>1
  <2> QED
    BY <1>1, <2>1, <2>2
<1>6. PICK i2 : i2 = Max(S)
  OBVIOUS
<1>7. i2 \in S /\ \A j \in S : i2 >= j
  BY <1>5, <1>6 DEF Max
<1>8. \A j \in S : j <= i2
  BY <1>1, <1>7
<1> QED
  BY <1>1, <1>6, <1>7, <1>8 DEF LastLayer, S

\* What a user gets is altered only where a layer that applies to him is, if layers lose
\* no key.
LEMMA UnalteredLayers ==
  ASSUME NEW x, NEW y, NEW m \in Members, NEW k,
         \A i \in Places(m) :
           /\ Unaltered(k, Own(x, Layer(m, i), k), Own(y, Layer(m, i), k))
           /\ k \in DOMAIN x[Layer(m, i)] => k \in DOMAIN y[Layer(m, i)]
  PROVE  Unaltered(k, IF Covered(x, y, m, k) THEN NoOverride ELSE OverrideFor(x, m, k), OverrideFor(y, m, k))
<1>1. Having(x, m, k) \subseteq Having(y, m, k)
  BY DEF Having
<1>2. CASE Having(y, m, k) = {}
  <2>1. ~Covered(x, y, m, k) /\ OverrideFor(x, m, k) = NoOverride /\ OverrideFor(y, m, k) = NoOverride
    BY <1>1, <1>2 DEF Covered, OverrideFor
  <2> QED
    BY <2>1 DEF Unaltered
<1>3. CASE Having(y, m, k) # {}
  <2>1. PICK i \in Having(y, m, k) :
          /\ i \in Places(m) /\ LastLayer(y, m, k) = Layer(m, i)
          /\ \A j \in Having(y, m, k) : j <= i
    BY <1>3, LastLayerIs
  <2>2. PICK s : s = Layer(m, i)
    OBVIOUS
  <2>3. k \in DOMAIN y[s] /\ OverrideFor(y, m, k) = y[s][k] /\ Own(y, s, k) = y[s][k]
    BY <1>3, <2>1, <2>2 DEF OverrideFor, Own, Having
  <2>4. Unaltered(k, Own(x, s, k), Own(y, s, k))
    BY <2>1, <2>2
  <2>5. CASE k \notin DOMAIN x[s]
    <3>1. Covered(x, y, m, k) /\ Own(x, s, k) = NoOverride
      BY <1>3, <2>1, <2>2, <2>5 DEF Covered, Own
    <3> QED
      BY <2>3, <2>4, <3>1
  <2>6. CASE k \in DOMAIN x[s]
    <3>1. i \in Having(x, m, k)
      BY <2>1, <2>2, <2>6 DEF Having
    <3>2. PICK j \in Having(x, m, k) :
            /\ j \in Places(m) /\ LastLayer(x, m, k) = Layer(m, j)
            /\ \A l \in Having(x, m, k) : l <= j
      BY <3>1, LastLayerIs
    <3>3. i <= j /\ j <= i
      BY <1>1, <2>1, <3>1, <3>2
    <3>4. i = j
      <4>1. Len(m.squads) \in Nat
        BY <2>1, LayerIsScope
      <4> QED
        BY <2>1, <3>2, <3>3, <4>1 DEF Places
    <3>5. ~Covered(x, y, m, k) /\ OverrideFor(x, m, k) = x[s][k] /\ Own(x, s, k) = x[s][k]
      BY <2>1, <2>2, <2>6, <3>1, <3>2, <3>4 DEF Covered, OverrideFor, Own
    <3> QED
      BY <2>3, <2>4, <3>5
  <2> QED
    BY <2>5, <2>6
<1> QED
  BY <1>2, <1>3

-----------------------------------------------------------------------------
(* The properties. *)

LEMMA MirroredPreviews == IndInv => PreviewIsAnswer
<1> SUFFICES ASSUME IndInv, NEW m \in Members, NEW k \in Listed(List), NEW o, o = OverrideFor(saved, m, k),
                    NEW v, v = ActualValue(actual, k),
                    <<scope, k>> \notin touched \/ (post.at = "saved" /\ ~post.late),
                    Name(k) \notin Refused, Decides(m, k), Settled(k, o),
                    IsUserinfo(k) => v \in Infos /\ o # NoOverride
             PROVE  Cleaned(Preview(List[Ruling(List, k)])) = OnShow(k, Result(k, o, v))
  BY DEF PreviewIsAnswer
<1>1. k \in DOMAIN saved[scope] /\ o = saved[scope][k]
  <2>1. Having(saved, m, k) # {} /\ LastLayer(saved, m, k) = scope
    BY DEF Decides
  <2>2. k \in DOMAIN saved[scope]
    BY <2>1, LastLayerIs DEF Having
  <2> QED
    BY <2>1, <2>2 DEF OverrideFor
<1>2. scope \in Scopes /\ IsSaved(saved) /\ k \in Keys /\ actual \in Users \union {Empty}
  BY <1>1 DEF IndInv, TypeOK, IsSaved
<1>3. PICK list \in Seq(Row) : list = List /\ list = lists[scope]
  BY ListIs
<1>4. o \in Override /\ o = Own(saved, scope, k)
  BY <1>1, <1>2 DEF IsSaved, Own
<1>5. PICK row \in Row : row = list[Ruling(list, k)] /\ row.key = k
  BY <1>3, RulingRules
<1>6. Shows(row, o)
  <2>1. Mirrored(saved, post.at = "saved" /\ ~post.late, lists, touched)
    BY MirrorsIs DEF IndInv
  <2>2. Displays(list, k, o, k \in DOMAIN saved[scope])
    BY <1>1, <1>2, <1>3, <1>4, <2>1 DEF Mirrored
  <2> QED
    BY <1>3, <1>5, <2>2, RulingRules DEF Displays
<1>7. v = Blank \/ Legal(v)
  <2>1. CASE actual \in Users
    BY <2>1, ActualValueOf
  <2>2. CASE actual = Empty
    <3>1. {j \in DOMAIN Empty : Name(j) = Name(k)} = {}
      BY DEF Empty
    <3> QED
      BY <2>2, <3>1 DEF ActualValue
  <2> QED
    BY <1>2, <2>1, <2>2
<1>8. CASE ~IsUserinfo(k)
  <2>1. Preview(row) = IF row.mode = "actual" THEN v ELSE row.value
    BY <1>5, <1>8 DEF Preview
  <2>2. row.mode = NormalizeMode(o.mode) /\ (row.mode = "custom" => row.value = o.value)
    BY <1>5, <1>6, <1>8 DEF Shows
  <2>3. o.mode = "remove" => o.value = Blank
    BY <1>8 DEF Settled
  <2>4. o.mode \in Modes
    BY <1>4 DEF Override
  <2>5. Cleaned(v) = v /\ Cleaned(Blank) = Blank
    BY <1>7, CleanedBlank DEF Cleaned
  <2>6. Cleaned(Preview(row)) = Result(k, o, v)
    BY <1>8, <2>1, <2>2, <2>3, <2>4, <2>5 DEF Result, NormalizeMode, Modes
  <2>7. OnShow(k, Result(k, o, v)) = Result(k, o, v)
    BY <1>8 DEF OnShow
  <2> QED
    BY <1>3, <1>5, <2>6, <2>7
<1>9. CASE IsUserinfo(k)
  <2>1. v \in Infos /\ o # NoOverride
    BY <1>9
  <2>2. /\ o.mode # "remove" /\ DOMAIN o.params = Shown
        /\ \A p \in Shown : o.params[p].mode = "remove" => o.params[p].value = Blank
    BY <1>9, <2>1 DEF Settled
  <2>3. Parsed(v) = v /\ v # Empty /\ v # Blank
    BY <2>1, InfosType DEF Parsed
  <2>4. Preview(row) = Combined(row.params, v)
    BY <1>5, <1>9, <2>3 DEF Preview, ActualParams
  <2>5. o.params # Empty
    BY <2>2, EditorAssumption DEF Empty
  <2>6. Result(k, o, v) = Cleaned(Text(WithParams(v, o.params)))
    BY <1>9, <2>2, <2>3, <2>5 DEF Result
  <2>7. Legal(v)
    BY <1>7, <2>3
  <2>8. Cleaned(Combined(row.params, v)) = OnShow(k, Cleaned(Text(WithParams(v, o.params))))
    BY <1>4, <1>5, <1>6, <1>9, <2>1, <2>7, CombinedIsApplied
  <2> QED
    BY <1>3, <1>5, <2>4, <2>6, <2>8
<1> QED
  BY <1>8, <1>9

\* What a row shows is what the user gets whose headers were fetched, if the scope on
\* show decides for him: while it was not edited, and as soon as the server has saved it.
THEOREM PreviewIsAnswerHolds == Spec => []PreviewIsAnswer
BY Invariance, MirroredPreviews, PTL

\* No save alters a header the administrator did not touch, in any layer that applies to
\* a user, but that a layer that had no override covers the others.
THEOREM UntouchedStaysHolds == Spec => UntouchedStays
<1> DEFINE Stays ==
      saved' # saved => \A m \in Members, k \in Keys :
        (\A i \in Places(m) : <<Layer(m, i), k>> \notin post.touched) =>
          Unaltered(k, IF Covered(saved, saved', m, k) THEN NoOverride ELSE OverrideFor(saved, m, k),
                    OverrideFor(saved', m, k))
<1>1. IndInv /\ [Next]_vars => Stays
  <2> SUFFICES ASSUME IndInv, [Next]_vars, saved' # saved, NEW m \in Members, NEW k \in Keys,
                      \A i \in Places(m) : <<Layer(m, i), k>> \notin post.touched
               PROVE  Unaltered(k, IF Covered(saved, saved', m, k) THEN NoOverride ELSE OverrideFor(saved, m, k),
                                OverrideFor(saved', m, k))
    BY Zenon
  <2>1. Saved
    BY DEF Next, vars, Show, AddRow, RemoveRow, TypeKey, TypeValue, SwitchMode, TypeParam, SwitchParam, Edits,
           Fetch, Fetched, FetchFails, Save, SaveFails, Reload
  <2>2. post.at = "sent" /\ saved' = post.body
    BY <2>1 DEF Saved
  <2>3. PICK y : y = saved'
    OBVIOUS
  <2>4. ASSUME NEW i \in Places(m)
        PROVE  /\ Unaltered(k, Own(saved, Layer(m, i), k), Own(y, Layer(m, i), k))
               /\ k \in DOMAIN saved[Layer(m, i)] => k \in DOMAIN y[Layer(m, i)]
    <3>1. PICK s \in Scopes : s = Layer(m, i)
      BY LayerIsScope
    <3>2. <<s, k>> \notin post.touched
      BY <3>1
    <3> QED
      BY <2>2, <2>3, <3>1, <3>2 DEF IndInv
  <2>5. Unaltered(k, IF Covered(saved, y, m, k) THEN NoOverride ELSE OverrideFor(saved, m, k), OverrideFor(y, m, k))
    BY <2>4, UnalteredLayers
  <2> QED
    BY <2>3, <2>5
<1>2. IndInv /\ [Next]_vars => [Stays]_vars
  BY <1>1
<1>3. [][Stays]_vars => UntouchedStays
  BY PTL DEF UntouchedStays
<1> QED
  BY <1>2, <1>3, Invariance, PTL DEF Spec
=============================================================================
