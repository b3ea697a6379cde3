---------------------------- MODULE HeadersProofs ----------------------------
(***************************************************************************)
(* Proofs about Headers, for every set of names, values, overrides and     *)
(* squads: the server's own headers are protected, and the answer does not *)
(* depend on the order in which the maps are gone through.                 *)
(***************************************************************************)
EXTENDS Headers, WellFoundedInduction, TLAPS

-----------------------------------------------------------------------------
(* Maps from keys to values. *)

\* A nonempty set of small naturals has a maximum.
LEMMA MaxIsIn ==
  ASSUME NEW n \in Nat, NEW S \in SUBSET (0..n), S # {}
  PROVE  Max(S) \in S
<1> DEFINE T == {n - i : i \in S}
<1>1. T \subseteq Nat /\ T # {}
  <2>1. \A i \in S : n - i \in Nat
    <3>1. \A i \in 0..n : n - i \in Nat
      OBVIOUS
    <3> QED
      BY <3>1
  <2>2. PICK i \in S : TRUE
    OBVIOUS
  <2>3. n - i \in T
    OBVIOUS
  <2> QED
    BY <2>1, <2>3
<1>2. PICK m \in T : \A y \in T : <<y, m>> \notin OpToRel(<, Nat)
  BY <1>1, WFMin, NatLessThanWellFounded
<1>3. \A y \in T : ~(y < m)
  BY <1>1, <1>2 DEF OpToRel
<1>4. \E x \in S : \A y \in S : x >= y
  <2>1. PICK i \in S : m = n - i
    OBVIOUS
  <2>2. \A y \in S : i >= y
    <3> TAKE y \in S
    <3>1. ~(n - y < n - i)
      BY <1>3, <2>1
    <3>2. i \in Int /\ y \in Int
      <4>1. \A j \in 0..n : j \in Int
        OBVIOUS
      <4> QED
        BY <4>1
    <3> QED
      BY <3>1, <3>2
  <2> QED
    BY <2>2
<1> QED
  BY <1>4 DEF Max

\* Another name is not touched by what is put under a key.
LEMMA PutOther ==
  ASSUME NEW h, NEW k, NEW v, NEW name, k.name # name
  PROVE  /\ Values(Put(h, k, v), name) = Values(h, name)
         /\ InOneWay(DOMAIN h, name) <=> InOneWay(DOMAIN Put(h, k, v), name)
  BY DEF Put, Values, InOneWay

\* A name that a map does not have yet.
LEMMA PutNew ==
  ASSUME NEW h, NEW k, NEW v, \A x \in DOMAIN h : x.name # k.name
  PROVE  Holds(Put(h, k, v), k.name, {v})
<1>1. DOMAIN Put(h, k, v) = DOMAIN h \union {k} /\ Put(h, k, v)[k] = v
  BY DEF Put
<1> QED
  BY <1>1 DEF Values, InOneWay, Holds

\* A name no key of a map has.
LEMMA NoKey ==
  ASSUME NEW h, NEW name, \A x \in DOMAIN h : x.name # name
  PROVE  Holds(h, name, {})
  BY DEF Values, InOneWay, Holds

\* What deleteHeader leaves.
LEMMA Deleted ==
  ASSUME NEW h, NEW name, NEW d \in Deletions(h, name)
  PROVE  /\ DOMAIN d \subseteq DOMAIN h
         /\ \A k \in DOMAIN d : d[k] = h[k]
         /\ \A k \in DOMAIN h : k.name # name => k \in DOMAIN d
         /\ InOneWay(DOMAIN h, name) => \A k \in DOMAIN d : k.name # name
<1>1. CASE {k \in DOMAIN h : k.name = name} = {}
  BY <1>1 DEF Deletions
<1>2. CASE {k \in DOMAIN h : k.name = name} # {}
  <2>1. PICK x \in {k \in DOMAIN h : k.name = name} : d = Without(h, x)
    BY <1>2 DEF Deletions
  <2>2. DOMAIN d = DOMAIN h \ {x} /\ \A k \in DOMAIN d : d[k] = h[k]
    BY <2>1 DEF Without
  <2> QED
    BY <2>1, <2>2 DEF InOneWay
<1> QED
  BY <1>1, <1>2

\* A part of a map that has all keys of a name has its values.
LEMMA SamePart ==
  ASSUME NEW h, NEW d, NEW name,
         DOMAIN d \subseteq DOMAIN h, \A k \in DOMAIN d : d[k] = h[k],
         \A k \in DOMAIN h : k.name = name => k \in DOMAIN d
  PROVE  \A vs : Holds(h, name, vs) <=> Holds(d, name, vs)
<1>1. Values(d, name) = Values(h, name)
  BY DEF Values
<1>2. InOneWay(DOMAIN d, name) <=> InOneWay(DOMAIN h, name)
  BY DEF InOneWay
<1> QED
  BY <1>1, <1>2 DEF Holds

-----------------------------------------------------------------------------
(* What the inputs say about a name. *)

\* An empty value and a set of them are not legal.
LEMMA BlankIsNotLegal ==
  ~Legal(Blank)
  BY HeadersAssumption DEF Legal

\* The panel's answer has at most one value for a name that is plain.
LEMMA ActualIsOne ==
  ASSUME NEW in, NEW name, Plain(in, name)
  PROVE  \A v, w \in Actual(in, name) : v = w
<1>1. \A v, w \in Values(in.raw, name) : v = w
  BY DEF Plain, InOneWay, Values
<1> QED
  BY <1>1 DEF Actual

LEMMA ActualIsLegal ==
  ASSUME NEW in, NEW name
  PROVE  \A v \in Actual(in, name) : Legal(v)
  BY DEF Actual

\* The keys of selected overrides are those of the layers.
LEMMA NamedByLayer ==
  ASSUME NEW in, NEW name
  PROVE  Named(in, name) = {} <=> \A k \in DOMAIN OverridesFor(in) : k.name # name
<1>1. DOMAIN OverridesFor(in) = UNION {DOMAIN Layer(in, i) : i \in Layers(in)}
  BY DEF OverridesFor
<1>2. \A i : Values(Layer(in, i), name) # {} <=> \E k \in DOMAIN Layer(in, i) : k.name = name
  BY DEF Values
<1> QED
  BY <1>1, <1>2 DEF Named

\* The override selected under the one key of a name is that of its last layer.
LEMMA SelectedRules ==
  ASSUME NEW in, in.squads \in Seq(Squads),
         NEW k \in DOMAIN OverridesFor(in), Plain(in, k.name)
  PROVE  OverridesFor(in)[k] = Ruling(in, k.name) /\ Named(in, k.name) # {}
<1> DEFINE S == {i \in Layers(in) : k \in DOMAIN Layer(in, i)}
<1>1. k \in UNION {DOMAIN Layer(in, i) : i \in Layers(in)}
  BY DEF OverridesFor
<1>2. OverridesFor(in)[k] = Layer(in, Max(S))[k]
  BY <1>1 DEF OverridesFor
<1>3. \A i \in Layers(in) : \A j \in DOMAIN Layer(in, i) : j.name = k.name => j = k
  BY <1>1 DEF Plain, InOneWay
<1>4. \A i \in Layers(in) :
        Values(Layer(in, i), k.name) = IF k \in DOMAIN Layer(in, i) THEN {Layer(in, i)[k]} ELSE {}
  BY <1>3 DEF Values
<1>5. Named(in, k.name) = S
  BY <1>4 DEF Named
<1>6. Max(S) \in S
  <2>1. Len(in.squads) \in Nat /\ S \in SUBSET (0..Len(in.squads))
    BY DEF Layers
  <2> QED
    BY <2>1, <1>1, MaxIsIn
<1>7. Values(Layer(in, Max(S)), k.name) = {Layer(in, Max(S))[k]}
  BY <1>4, <1>6
<1>8. Ruling(in, k.name) = Layer(in, Max(S))[k]
  BY <1>5, <1>7 DEF Ruling
<1> QED
  BY <1>2, <1>5, <1>6, <1>8

\* The values an override may give to a header are those that rule it.
LEMMA NewValuesRule ==
  ASSUME NEW k, NEW o, NEW h, NEW v \in NewValues(k, o, h),
         \A x, y \in Values(h, k.name) : x = y,
         o.mode = "actual" => k.name = Userinfo /\ DOMAIN o.params # {}
  PROVE  {x \in Ruled(k.name, o, Values(h, k.name)) : Legal(x)} = IF Legal(v) THEN {v} ELSE {}
<1>1. CASE o.mode = "remove"
  BY <1>1, BlankIsNotLegal DEF NewValues, Ruled
<1>2. CASE o.mode # "remove" /\ k.name = Userinfo /\ DOMAIN o.params # {}
  <2>1. NewValues(k, o, h) = Ruled(k.name, o, Values(h, k.name))
    BY <1>2 DEF NewValues, Ruled
  <2>2. \A x, y \in NewValues(k, o, h) : x = y
    <3> DEFINE From == IF Values(h, k.name) = {} THEN {o.value} ELSE Values(h, k.name)
               F(x) == WithParams(Parsed(x), o.params)
    <3>1. \A x, y \in From : x = y
      OBVIOUS
    <3>2. NewValues(k, o, h) = {F(x) : x \in From}
      BY <1>2 DEF NewValues
    <3> HIDE DEF F, From
    <3> QED
      BY <3>1, <3>2
  <2> QED
    BY <2>1, <2>2
<1>3. CASE o.mode # "remove" /\ ~(k.name = Userinfo /\ DOMAIN o.params # {})
  <2>1. NewValues(k, o, h) = {o.value} /\ Ruled(k.name, o, Values(h, k.name)) = {o.value}
    BY <1>3 DEF NewValues, Ruled
  <2> QED
    BY <2>1
<1> QED
  BY <1>1, <1>2, <1>3

-----------------------------------------------------------------------------
(* The inductive invariant. *)

LEMMA InitIsGood == Init => IndInv
<1> SUFFICES ASSUME Init PROVE IndInv
  OBVIOUS
<1>1. PrepareInv
  BY DEF Init, PrepareInv, Empty
<1> QED
  BY <1>1 DEF Init, IndInv, OverrideInv, WriteInv

LEMMA PrepareKeepsInv ==
  ASSUME IndInv, NEW k \in todo, Prepare(k)
  PROVE  IndInv'
<1> DEFINE raw == given.raw
<1>1. /\ at = "prepare" /\ at' = at /\ given' = given /\ todo' = todo \ {k}
      /\ found' = IF Passes(raw, k) /\ k.name = Userinfo THEN raw[k] ELSE found
      /\ headers' = IF Passes(raw, k) /\ k.name # Userinfo THEN Put(headers, k, raw[k]) ELSE headers
  BY DEF Prepare, Take
<1> DEFINE Seen == {x \in DOMAIN raw \ todo : Passes(raw, x)}
           SeenNow == {x \in DOMAIN raw \ todo' : Passes(raw, x)}
<1>2. /\ todo \subseteq DOMAIN raw
      /\ DOMAIN headers = {x \in Seen : x.name # Userinfo}
      /\ \A x \in DOMAIN headers : headers[x] = raw[x]
      /\ IF found = Blank THEN \A x \in Seen : x.name # Userinfo
         ELSE \E x \in Seen : x.name = Userinfo /\ found = raw[x]
  BY <1>1 DEF IndInv, PrepareInv
<1>3. SeenNow = IF Passes(raw, k) THEN Seen \union {k} ELSE Seen
  BY <1>1, <1>2
<1>4. /\ DOMAIN headers' = {x \in SeenNow : x.name # Userinfo}
      /\ \A x \in DOMAIN headers' : headers'[x] = raw[x]
  <2>1. CASE Passes(raw, k) /\ k.name # Userinfo
    <3>1. /\ DOMAIN headers' = DOMAIN headers \union {k}
          /\ \A x \in DOMAIN headers' : headers'[x] = IF x = k THEN raw[k] ELSE headers[x]
      BY <1>1, <2>1 DEF Put
    <3> QED
      BY <1>2, <1>3, <2>1, <3>1
  <2>2. CASE ~(Passes(raw, k) /\ k.name # Userinfo)
    <3>1. headers' = headers
      BY <1>1, <2>2
    <3>2. {x \in SeenNow : x.name # Userinfo} = {x \in Seen : x.name # Userinfo}
      BY <1>3, <2>2
    <3> QED
      BY <1>2, <3>1, <3>2
  <2> QED
    BY <2>1, <2>2
<1>5. IF found' = Blank THEN \A x \in SeenNow : x.name # Userinfo
      ELSE \E x \in SeenNow : x.name = Userinfo /\ found' = raw[x]
  <2>1. CASE Passes(raw, k) /\ k.name = Userinfo
    <3>1. found' = raw[k] /\ k \in SeenNow
      BY <1>1, <1>3, <2>1
    <3>2. raw[k] # Blank
      BY <2>1, BlankIsNotLegal DEF Passes
    <3> QED
      BY <2>1, <3>1, <3>2
  <2>2. CASE ~(Passes(raw, k) /\ k.name = Userinfo)
    <3>1. found' = found
      BY <1>1, <2>2
    <3> QED
      BY <1>2, <1>3, <2>2, <3>1
  <2> QED
    BY <2>1, <2>2
<1>6. PrepareInv'
  BY <1>1, <1>2, <1>4, <1>5 DEF PrepareInv
<1> QED
  BY <1>1, <1>6 DEF IndInv, OverrideInv, WriteInv

\* After the first loop the map has what the panel's answer gives.
LEMMA PreparedIsActual ==
  ASSUME IndInv, PrepareUserinfo,
         NEW n \in Names \ Unsafe, Plain(given, n)
  PROVE  Holds(headers', n, Actual(given, n))
<1> DEFINE raw == given.raw
           value == IF found = Blank THEN Fallback(given.raw, given.user) ELSE found
           key == [name |-> Userinfo, spelling |-> Lower]
<1>1. /\ at = "prepare" /\ todo = {}
      /\ headers' = IF Legal(value) THEN Put(headers, key, value) ELSE headers
  BY DEF PrepareUserinfo
<1>2. /\ DOMAIN headers = {x \in DOMAIN raw : Passes(raw, x) /\ x.name # Userinfo}
      /\ \A x \in DOMAIN headers : headers[x] = raw[x]
      /\ found = Blank => \A x \in DOMAIN raw : Passes(raw, x) => x.name # Userinfo
      /\ found # Blank => \E x \in DOMAIN raw : Passes(raw, x) /\ x.name = Userinfo /\ found = raw[x]
  BY <1>1 DEF IndInv, PrepareInv
<1>3. \A x : x.name = n => (Passes(raw, x) <=> Legal(raw[x]))
  BY DEF Passes, Refused
<1>4. InOneWay(DOMAIN raw, n)
  BY DEF Plain
<1>5. CASE n # Userinfo
  <2>1. Values(headers, n) = {v \in Values(raw, n) : Legal(v)}
    BY <1>2, <1>3, <1>5 DEF Values
  <2>2. InOneWay(DOMAIN headers, n)
    BY <1>2, <1>4 DEF InOneWay
  <2>3. Holds(headers, n, Actual(given, n))
    BY <1>5, <2>1, <2>2 DEF Holds, Actual
  <2>4. key.name # n
    BY <1>5
  <2> QED
    BY <1>1, <2>3, <2>4, PutOther DEF Holds
<1>6. CASE n = Userinfo
  <2>1. \A x \in DOMAIN headers : x.name # key.name
    BY <1>2
  <2>2. Holds(headers', n, IF Legal(value) THEN {value} ELSE {})
    <3>1. CASE Legal(value)
      <4>1. Holds(Put(headers, key, value), key.name, {value})
        BY <2>1, PutNew
      <4>2. key.name = n
        BY <1>6
      <4> HIDE DEF value, key
      <4> QED
        BY <1>1, <3>1, <4>1, <4>2
    <3>2. CASE ~Legal(value)
      BY <1>1, <1>6, <2>1, <3>2, NoKey
    <3> QED
      BY <3>1, <3>2
  <2>3. CASE found # Blank
    <3>1. PICK x \in DOMAIN raw : Passes(raw, x) /\ x.name = Userinfo /\ found = raw[x]
      BY <1>2, <2>3
    <3>2. Legal(found)
      BY <3>1 DEF Passes
    <3>3. Values(raw, n) = {found}
      BY <1>4, <1>6, <3>1 DEF Values, InOneWay
    <3>4. Actual(given, n) = {found}
      BY <3>2, <3>3 DEF Actual
    <3> QED
      BY <2>2, <2>3, <3>2, <3>4
  <2>4. CASE found = Blank
    <3>1. \A x \in DOMAIN raw : x.name = Userinfo => ~Legal(raw[x]) /\ raw[x] = Blank
      <4>1. \A v \in Values(raw, n) : Legal(v) \/ v = Blank
        BY <1>6 DEF Plain
      <4>2. \A x \in DOMAIN raw : x.name = Userinfo => raw[x] \in Values(raw, n)
        BY <1>6 DEF Values
      <4>3. \A x \in DOMAIN raw : x.name = Userinfo => ~Legal(raw[x])
        BY <1>2, <1>3, <1>6, <2>4
      <4> QED
        BY <4>1, <4>2, <4>3
    <3>2. Fallback(raw, given.user) = Traffic(given.user)
      <4>1. {i \in DOMAIN Known : /\ [name |-> Userinfo, spelling |-> Known[i]] \in DOMAIN raw
                                  /\ raw[[name |-> Userinfo, spelling |-> Known[i]]] # Blank} = {}
        BY <3>1
      <4> QED
        BY <4>1 DEF Fallback
    <3>3. {v \in Values(raw, n) : Legal(v)} = {}
      BY <1>6, <3>1 DEF Values
    <3>4. Actual(given, n) = {v \in {Traffic(given.user)} : Legal(v)}
      BY <1>6, <3>3 DEF Actual
    <3>5. Actual(given, n) = IF Legal(value) THEN {value} ELSE {}
      BY <2>4, <3>2, <3>4
    <3> QED
      BY <2>2, <3>5
  <2> QED
    BY <2>3, <2>4
<1> QED
  BY <1>5, <1>6

LEMMA PrepareUserinfoKeepsInv ==
  ASSUME IndInv, PrepareUserinfo
  PROVE  IndInv'
<1>1. at' = "select" /\ given' = given
  BY DEF PrepareUserinfo
<1>2. \A k \in DOMAIN headers' : k.name \notin Unsafe
  <2> DEFINE key == [name |-> Userinfo, spelling |-> Lower]
  <2>1. \A k \in DOMAIN headers : k.name \notin Unsafe
    BY DEF IndInv, PrepareInv, PrepareUserinfo, Passes, Refused
  <2>2. DOMAIN headers' \subseteq DOMAIN headers \union {key}
    BY DEF PrepareUserinfo, Put
  <2>3. key.name \notin Unsafe
    BY HeadersAssumption
  <2> QED
    BY <2>1, <2>2, <2>3
<1>3. \A n \in Names \ Unsafe : Plain(given', n) => Holds(headers', n, Actual(given', n))
  BY <1>1, PreparedIsActual
<1> QED
  BY <1>1, <1>2, <1>3 DEF IndInv, PrepareInv, OverrideInv, WriteInv

LEMMA SelectKeepsInv ==
  ASSUME IndInv, Select
  PROVE  IndInv'
<1>1. /\ at = "select" /\ at' = "override" /\ given' = given /\ headers' = headers
      /\ overrides' = OverridesFor(given) /\ todo' = DOMAIN OverridesFor(given)
  BY DEF Select
<1>2. /\ \A k \in DOMAIN headers : k.name \notin Unsafe
      /\ \A n \in Names \ Unsafe : Plain(given, n) => Holds(headers, n, Actual(given, n))
  BY <1>1 DEF IndInv, OverrideInv
<1>3. ASSUME NEW n \in Names \ Unsafe, Plain(given, n)
      PROVE  Holds(headers, n, IF \A k \in todo' : k.name # n
                               THEN Expected(given, n) ELSE Actual(given, n))
  <2>1. (\A k \in todo' : k.name # n) => Expected(given, n) = Actual(given, n)
    BY <1>1, NamedByLayer DEF Expected
  <2> QED
    BY <1>2, <1>3, <2>1
<1>4. OverrideInv'
  BY <1>1, <1>2, <1>3 DEF OverrideInv
<1> QED
  BY <1>1, <1>4 DEF IndInv, PrepareInv, WriteInv

LEMMA OverrideKeepsInv ==
  ASSUME IndInv, NEW k \in todo, Override(k)
  PROVE  IndInv'
<1> DEFINE o == overrides[k]
           Skips == Refused(k) \/ (o.mode = "actual" /\ ~(k.name = Userinfo /\ DOMAIN o.params # {}))
<1>1. /\ at = "override" /\ at' = at /\ given' = given /\ todo' = todo \ {k}
      /\ overrides' = overrides
      /\ Skips => headers' = headers
      /\ ~Skips => \E v \in NewValues(k, o, headers) : \E d \in Deletions(headers, k.name) :
                     headers' = IF Legal(v) THEN Put(d, k, v) ELSE d
  BY DEF Override, Take
<1>2. /\ overrides = OverridesFor(given) /\ todo \subseteq DOMAIN overrides
      /\ \A x \in DOMAIN headers : x.name \notin Unsafe
      /\ \A n \in Names \ Unsafe : Plain(given, n) =>
           Holds(headers, n, IF \A x \in todo : x.name # n THEN Expected(given, n)
                             ELSE Actual(given, n))
  BY <1>1 DEF IndInv, OverrideInv
<1> HIDE DEF Skips
<1>3. \A x \in DOMAIN headers' : x.name \notin Unsafe
  <2>1. CASE Skips
    BY <1>1, <1>2, <2>1
  <2>2. CASE ~Skips
    <3>1. PICK v \in NewValues(k, o, headers), d \in Deletions(headers, k.name) :
            headers' = IF Legal(v) THEN Put(d, k, v) ELSE d
      BY <1>1, <2>2
    <3>2. DOMAIN headers' \subseteq DOMAIN headers \union {k}
      BY <3>1, Deleted DEF Put
    <3>3. k.name \notin Unsafe
      BY <2>2 DEF Skips, Refused
    <3> QED
      BY <1>2, <3>2, <3>3
  <2> QED
    BY <2>1, <2>2
<1>4. ASSUME NEW n \in Names \ Unsafe, Plain(given, n), k.name # n
      PROVE  Holds(headers', n, IF \A x \in todo' : x.name # n THEN Expected(given, n)
                                ELSE Actual(given, n))
  <2> DEFINE vs == IF \A x \in todo : x.name # n THEN Expected(given, n) ELSE Actual(given, n)
  <2>1. Holds(headers, n, vs)
    BY <1>2, <1>4
  <2>2. (\A x \in todo' : x.name # n) <=> (\A x \in todo : x.name # n)
    BY <1>1, <1>4
  <2> HIDE DEF vs
  <2>3. Holds(headers', n, vs)
    <3>1. CASE Skips
      BY <1>1, <2>1, <3>1
    <3>2. CASE ~Skips
      <4>1. PICK v \in NewValues(k, o, headers), d \in Deletions(headers, k.name) :
              headers' = IF Legal(v) THEN Put(d, k, v) ELSE d
        BY <1>1, <3>2
      <4>2. Holds(d, n, vs)
        <5>1. /\ DOMAIN d \subseteq DOMAIN headers
              /\ \A x \in DOMAIN d : d[x] = headers[x]
              /\ \A x \in DOMAIN headers : x.name = n => x \in DOMAIN d
          BY <1>4, <4>1, Deleted
        <5> QED
          BY <2>1, <5>1, SamePart
      <4>3. Holds(Put(d, k, v), n, vs)
        BY <1>4, <4>2, PutOther DEF Holds
      <4> QED
        BY <4>1, <4>2, <4>3
    <3> QED
      BY <3>1, <3>2
  <2> QED
    BY <2>2, <2>3 DEF vs
<1>5. ASSUME NEW n \in Names \ Unsafe, Plain(given, n), k.name = n
      PROVE  /\ \A x \in todo' : x.name # n
             /\ Holds(headers', n, Expected(given, n))
  <2>1. \A x \in todo : x.name = n => x = k
    <3>1. DOMAIN overrides = UNION {DOMAIN Layer(given, i) : i \in Layers(given)}
      BY <1>2 DEF OverridesFor
    <3> QED
      BY <1>2, <1>5, <3>1 DEF Plain, InOneWay
  <2>2. Holds(headers, n, Actual(given, n))
    BY <1>2, <1>5
  <2>3. o = Ruling(given, n) /\ Named(given, n) # {}
    <3>1. given.squads \in Seq(Squads)
      BY DEF IndInv, Inputs
    <3> QED
      BY <1>2, <1>5, <3>1, SelectedRules
  <2>4. Expected(given, n) = {v \in Ruled(n, o, Actual(given, n)) : Legal(v)}
    BY <2>3 DEF Expected
  <2>5. CASE Skips
    <3>1. o.mode = "actual" /\ ~(n = Userinfo /\ DOMAIN o.params # {})
      BY <1>5, <2>5 DEF Skips, Refused
    <3>2. Ruled(n, o, Actual(given, n)) = Actual(given, n)
      BY <3>1 DEF Ruled
    <3>3. Expected(given, n) = Actual(given, n)
      BY <2>4, <3>2, ActualIsLegal
    <3> QED
      BY <1>1, <2>1, <2>2, <2>5, <3>3
  <2>6. CASE ~Skips
    <3>1. PICK v \in NewValues(k, o, headers), d \in Deletions(headers, k.name) :
            headers' = IF Legal(v) THEN Put(d, k, v) ELSE d
      BY <1>1, <2>6
    <3>2. Values(headers, n) = Actual(given, n) /\ InOneWay(DOMAIN headers, n)
      BY <2>2 DEF Holds
    <3>3. o.mode = "actual" => k.name = Userinfo /\ DOMAIN o.params # {}
      BY <2>6 DEF Skips
    <3>4. \A x, y \in Values(headers, k.name) : x = y
      BY <1>5, <3>2, ActualIsOne
    <3>5. {x \in Ruled(k.name, o, Values(headers, k.name)) : Legal(x)} = IF Legal(v) THEN {v} ELSE {}
      BY <3>3, <3>4, NewValuesRule
    <3>6. Expected(given, n) = IF Legal(v) THEN {v} ELSE {}
      BY <1>5, <2>4, <3>2, <3>5
    <3>7. \A x \in DOMAIN d : x.name # k.name
      BY <1>5, <3>1, <3>2, Deleted
    <3>8. Holds(Put(d, k, v), k.name, {v}) /\ Holds(d, k.name, {})
      BY <3>7, PutNew, NoKey
    <3> QED
      BY <1>1, <1>5, <2>1, <3>1, <3>6, <3>8
  <2> QED
    BY <2>5, <2>6
<1>6. OverrideInv'
  <2>1. \A n \in Names \ Unsafe : Plain(given, n) =>
          Holds(headers', n, IF \A x \in todo' : x.name # n THEN Expected(given, n)
                             ELSE Actual(given, n))
    BY <1>4, <1>5
  <2> QED
    BY <1>1, <1>2, <1>3, <2>1 DEF OverrideInv
<1> QED
  BY <1>1, <1>6 DEF IndInv, PrepareInv, WriteInv

LEMMA FinishKeepsInv ==
  ASSUME IndInv, Finish
  PROVE  IndInv'
<1>1. /\ at = "override" /\ todo = {} /\ at' = "write" /\ given' = given
      /\ headers' = [k \in DOMAIN headers \union {Canonical(n) : n \in NoCache} |->
                       IF k.name \in NoCache THEN ServersOwn ELSE headers[k]]
      /\ answer' = [n \in Served |-> ServersOwn]
      /\ todo' = DOMAIN headers'
  BY DEF Finish
<1>2. /\ \A k \in DOMAIN headers : k.name \notin Unsafe
      /\ \A n \in Names \ Unsafe : Plain(given, n) => Holds(headers, n, Expected(given, n))
  BY <1>1 DEF IndInv, OverrideInv
<1>3. \A n \in NoCache : Canonical(n).name = n
  BY DEF Canonical
<1>4. /\ DOMAIN headers' = DOMAIN headers \union {Canonical(n) : n \in NoCache}
      /\ \A k \in DOMAIN headers' :
           headers'[k] = IF k.name \in NoCache THEN ServersOwn ELSE headers[k]
  BY <1>1
<1>5. \A k \in DOMAIN headers' : k.name \in Unsafe => k.name \in Served /\ headers'[k] = ServersOwn
  <2>1. NoCache \subseteq Served
    BY HeadersAssumption
  <2> QED
    BY <1>2, <1>3, <1>4, <2>1
<1>6. ASSUME NEW n \in Names \ Unsafe, Plain(given, n)
      PROVE  Holds(headers', n, Expected(given, n))
  <2>1. NoCache \subseteq Unsafe
    BY HeadersAssumption
  <2>2. /\ DOMAIN headers \subseteq DOMAIN headers'
        /\ \A k \in DOMAIN headers : headers[k] = headers'[k]
        /\ \A k \in DOMAIN headers' : k.name = n => k \in DOMAIN headers
    BY <1>2, <1>3, <1>4, <2>1
  <2>3. Holds(headers, n, Expected(given, n))
    BY <1>2, <1>6
  <2> QED
    BY <2>2, <2>3, SamePart
<1>7. ASSUME NEW n \in Names \ Unsafe
      PROVE  Answered(answer', n) = {headers'[k] : k \in {k \in DOMAIN headers' \ todo' : k.name = n}}
  <2>1. n \notin DOMAIN answer'
    BY <1>1, HeadersAssumption
  <2> QED
    BY <1>1, <2>1 DEF Answered
<1>8. \A n \in Unsafe : /\ n \in DOMAIN answer' <=> n \in Served
                        /\ n \in Served => answer'[n] = ServersOwn
  BY <1>1
<1>9. WriteInv'
  BY <1>1, <1>5, <1>6, <1>7, <1>8 DEF WriteInv
<1> QED
  BY <1>1, <1>9 DEF IndInv, PrepareInv, OverrideInv

LEMMA WriteKeepsInv ==
  ASSUME IndInv, NEW k \in todo, Write(k)
  PROVE  IndInv'
<1>1. /\ at = "write" /\ at' = at /\ given' = given /\ todo' = todo \ {k}
      /\ headers' = headers /\ answer' = Put(answer, k.name, headers[k])
  BY DEF Write, Take
<1>2. /\ todo \subseteq DOMAIN headers
      /\ \A x \in DOMAIN headers : x.name \in Unsafe => x.name \in Served /\ headers[x] = ServersOwn
      /\ \A n \in Unsafe : /\ n \in DOMAIN answer <=> n \in Served
                           /\ n \in Served => answer[n] = ServersOwn
      /\ \A n \in Names \ Unsafe : Plain(given, n) =>
           /\ Holds(headers, n, Expected(given, n))
           /\ Answered(answer, n) = {headers[x] : x \in {x \in DOMAIN headers \ todo : x.name = n}}
  BY <1>1 DEF IndInv, WriteInv
<1>3. /\ DOMAIN answer' = DOMAIN answer \union {k.name}
      /\ \A n \in DOMAIN answer' : answer'[n] = IF n = k.name THEN headers[k] ELSE answer[n]
  BY <1>1 DEF Put
<1>4. \A n \in Unsafe : /\ n \in DOMAIN answer' <=> n \in Served
                        /\ n \in Served => answer'[n] = ServersOwn
  BY <1>2, <1>3
<1>5. ASSUME NEW n \in Names \ Unsafe, Plain(given, n)
      PROVE  Answered(answer', n) = {headers[x] : x \in {x \in DOMAIN headers \ todo' : x.name = n}}
  <2>1. CASE n = k.name
    <3>1. Answered(answer', n) = {headers[k]}
      BY <1>3, <2>1 DEF Answered
    <3>2. {x \in DOMAIN headers \ todo' : x.name = n} = {k}
      <4>1. InOneWay(DOMAIN headers, n)
        BY <1>2, <1>5 DEF Holds
      <4> QED
        BY <1>1, <1>2, <2>1, <4>1 DEF InOneWay
    <3> QED
      BY <3>1, <3>2
  <2>2. CASE n # k.name
    <3>1. Answered(answer', n) = Answered(answer, n)
      BY <1>3, <2>2 DEF Answered
    <3>2. {x \in DOMAIN headers \ todo' : x.name = n} = {x \in DOMAIN headers \ todo : x.name = n}
      BY <1>1, <2>2
    <3>3. Answered(answer, n) = {headers[x] : x \in {x \in DOMAIN headers \ todo : x.name = n}}
      BY <1>2, <1>5
    <3> QED
      BY <3>1, <3>2, <3>3
  <2> QED
    BY <2>1, <2>2
<1>6. WriteInv'
  BY <1>1, <1>2, <1>4, <1>5 DEF WriteInv
<1> QED
  BY <1>1, <1>6 DEF IndInv, PrepareInv, OverrideInv

LEMMA DoneKeepsInv ==
  ASSUME IndInv, Done
  PROVE  IndInv'
<1>1. /\ at = "write" /\ at' = "done" /\ todo = {} /\ todo' = todo /\ given' = given
      /\ headers' = headers /\ answer' = answer
  BY DEF Done
<1>2. WriteInv'
  BY <1>1 DEF IndInv, WriteInv
<1> QED
  BY <1>1, <1>2 DEF IndInv, PrepareInv, OverrideInv

\* The invariant holds in every state of every run.
THEOREM Invariance == Spec => []IndInv
<1>1. IndInv /\ [Next]_vars => IndInv'
  <2> SUFFICES ASSUME IndInv, [Next]_vars PROVE IndInv'
    OBVIOUS
  <2>1. ASSUME NEW k \in todo, Prepare(k) \/ Override(k) \/ Write(k)
        PROVE  IndInv'
    BY <2>1, PrepareKeepsInv, OverrideKeepsInv, WriteKeepsInv
  <2>2. CASE PrepareUserinfo \/ Select \/ Finish \/ Done
    BY <2>2, PrepareUserinfoKeepsInv, SelectKeepsInv, FinishKeepsInv, DoneKeepsInv
  <2>3. CASE UNCHANGED vars
    BY <2>3 DEF vars, IndInv, PrepareInv, OverrideInv, WriteInv
  <2> QED
    BY <2>1, <2>2, <2>3 DEF Next
<1> QED
  BY <1>1, InitIsGood, PTL DEF Spec

-----------------------------------------------------------------------------
(* The properties. *)

\* Neither the panel nor an administrator sets, changes or removes a header that
\* is the server's own (isUnsafeResponseHeader, and the handler's own settings).
THEOREM ProtectedHolds == Spec => []Protected
<1>1. IndInv => Protected
  BY DEF IndInv, WriteInv, Protected
<1> QED
  BY <1>1, Invariance, PTL

\* In whichever orders Go goes through its four maps, a header is what the last
\* squad with an override of it says, else what the default overrides say, else
\* what the panel sent.
THEOREM AnswerIsExpectedHolds == Spec => []AnswerIsExpected
<1>1. IndInv => AnswerIsExpected
  <2> SUFFICES ASSUME IndInv, at = "done", NEW n \in Names \ Unsafe, Plain(given, n)
               PROVE  Answered(answer, n) = Expected(given, n)
    BY DEF AnswerIsExpected
  <2>1. /\ todo = {}
        /\ Answered(answer, n) = {headers[x] : x \in {x \in DOMAIN headers \ todo : x.name = n}}
        /\ Values(headers, n) = Expected(given, n)
    BY DEF IndInv, WriteInv, Holds
  <2> QED
    BY <2>1 DEF Values
<1> QED
  BY <1>1, Invariance, PTL

-----------------------------------------------------------------------------
(* The types. *)

\* The part of TypeOK that is about the map of headers.
GoodHeaders(h) ==
  IsMap(h, Keys) /\ \A k \in DOMAIN h : Legal(h[k]) \/ h[k] = ServersOwn

\* What a map becomes when a key is put in or taken out.
LEMMA PutIsMap ==
  ASSUME NEW f, NEW S, IsMap(f, S), NEW x \in S, NEW v
  PROVE  /\ IsMap(Put(f, x, v), S) /\ DOMAIN Put(f, x, v) = DOMAIN f \union {x}
         /\ \A y \in DOMAIN f \union {x} : Put(f, x, v)[y] = IF y = x THEN v ELSE f[y]
BY DEF Put, IsMap

LEMMA PutIsGood ==
  ASSUME NEW h, GoodHeaders(h), NEW k \in Keys, NEW v, Legal(v) \/ v = ServersOwn
  PROVE  GoodHeaders(Put(h, k, v))
<1>1. /\ IsMap(Put(h, k, v), Keys) /\ DOMAIN Put(h, k, v) = DOMAIN h \union {k}
      /\ \A y \in DOMAIN h \union {k} : Put(h, k, v)[y] = IF y = k THEN v ELSE h[y]
  <2>1. IsMap(h, Keys)
    BY DEF GoodHeaders
  <2> QED
    BY <2>1, PutIsMap
<1> QED
  BY <1>1 DEF GoodHeaders

LEMMA DeletionIsGood ==
  ASSUME NEW h, GoodHeaders(h), NEW name, NEW d \in Deletions(h, name)
  PROVE  GoodHeaders(d)
<1>1. CASE d = h
  BY <1>1
<1>2. CASE \E k \in DOMAIN h : d = Without(h, k)
  BY <1>2 DEF Without, GoodHeaders, IsMap
<1> QED
  BY <1>1, <1>2 DEF Deletions

\* A layer of the overrides is one of those that were saved, or has none.
LEMMA LayerType ==
  ASSUME NEW in \in Inputs, NEW i \in Layers(in)
  PROVE  IsOverrides(Layer(in, i))
<1>1. in.library \in Libraries
  BY DEF Inputs
<1>2. /\ IsOverrides(in.library.default)
      /\ \A s \in DOMAIN in.library.squads : IsOverrides(in.library.squads[s])
  BY <1>1, HeadersAssumption
<1>3. IsOverrides(Empty)
  BY DEF IsOverrides, IsMap, Empty
<1> QED
  BY <1>2, <1>3 DEF Layer

\* What is selected from the layers are overrides, each of the last layer that has it.
LEMMA SelectedType ==
  ASSUME NEW in \in Inputs
  PROVE  IsOverrides(OverridesFor(in))
<1>1. in.squads \in Seq(Squads) /\ Len(in.squads) \in Nat
  BY DEF Inputs
<1> DEFINE S(k) == {i \in Layers(in) : k \in DOMAIN Layer(in, i)}
<1>2. /\ OverridesFor(in) = [k \in DOMAIN OverridesFor(in) |-> OverridesFor(in)[k]]
      /\ DOMAIN OverridesFor(in) = UNION {DOMAIN Layer(in, i) : i \in Layers(in)}
      /\ \A k \in DOMAIN OverridesFor(in) : OverridesFor(in)[k] = Layer(in, Max(S(k)))[k]
  BY DEF OverridesFor
<1>3. ASSUME NEW k \in DOMAIN OverridesFor(in)
      PROVE  Max(S(k)) \in S(k)
  <2>1. S(k) \in SUBSET (0..Len(in.squads)) /\ S(k) # {}
    BY <1>2 DEF Layers
  <2> QED
    BY <1>1, <2>1, MaxIsIn
<1>4. ASSUME NEW k \in DOMAIN OverridesFor(in)
      PROVE  k \in Keys /\ OverridesFor(in)[k].mode \in Modes /\ IsMap(OverridesFor(in)[k].params, Params)
  <2>1. PICK i \in Layers(in) : i = Max(S(k)) /\ k \in DOMAIN Layer(in, i)
    BY <1>3
  <2>2. OverridesFor(in)[k] = Layer(in, i)[k]
    BY <1>2, <2>1
  <2>3. IsOverrides(Layer(in, i))
    BY LayerType
  <2> QED
    BY <2>1, <2>2, <2>3 DEF IsOverrides, IsMap
<1> QED
  BY <1>2, <1>4 DEF IsOverrides, IsMap

LEMMA TypesAtFirst == Init => TypeOK
<1> SUFFICES ASSUME Init PROVE TypeOK
  OBVIOUS
<1>1. IsMap(Empty, Keys) /\ IsMap(Empty, Names) /\ IsOverrides(Empty) /\ DOMAIN Empty = {}
  BY DEF Empty, IsMap, IsOverrides
<1> QED
  BY <1>1 DEF Init, TypeOK

\* The loop over the panel's headers takes over legal values only.
LEMMA PrepareTypes ==
  ASSUME TypeOK, NEW k \in todo, Prepare(k)
  PROVE  TypeOK'
<1>1. /\ at = "prepare" /\ at' = at /\ given' = given /\ todo' = todo \ {k}
      /\ overrides' = overrides /\ answer' = answer
      /\ found' = IF Passes(given.raw, k) /\ k.name = Userinfo THEN given.raw[k] ELSE found
      /\ headers' = IF Passes(given.raw, k) /\ k.name # Userinfo THEN Put(headers, k, given.raw[k]) ELSE headers
  BY DEF Prepare, Take
<1>2. todo \subseteq DOMAIN given.raw /\ GoodHeaders(headers)
  BY <1>1 DEF TypeOK, GoodHeaders
<1>3. k \in Keys
  <2>1. given.raw \in Raws
    BY DEF TypeOK, Inputs
  <2> QED
    BY <1>2, <2>1, HeadersAssumption DEF IsMap
<1>4. GoodHeaders(headers') /\ (found' = Blank \/ Legal(found'))
  BY <1>1, <1>2, <1>3, PutIsGood DEF Passes, TypeOK
<1>5. todo' \subseteq DOMAIN given.raw
  BY <1>1, <1>2
<1> QED
  BY <1>1, <1>4, <1>5 DEF TypeOK, GoodHeaders

\* Overrides write legal values only, under the names they are saved for.
LEMMA OverrideTypes ==
  ASSUME TypeOK, NEW k \in todo, Override(k)
  PROVE  TypeOK'
<1> DEFINE o == overrides[k]
           Skips == Refused(k) \/ (o.mode = "actual" /\ ~(k.name = Userinfo /\ DOMAIN o.params # {}))
<1>1. /\ at = "override" /\ at' = at /\ given' = given /\ todo' = todo \ {k}
      /\ overrides' = overrides /\ answer' = answer /\ found' = found
      /\ Skips => headers' = headers
      /\ ~Skips => \E v \in NewValues(k, o, headers) : \E d \in Deletions(headers, k.name) :
                     headers' = IF Legal(v) THEN Put(d, k, v) ELSE d
  BY DEF Override, Take
<1> HIDE DEF Skips
<1>2. todo \subseteq DOMAIN overrides /\ GoodHeaders(headers)
  BY <1>1 DEF TypeOK, GoodHeaders
<1>3. k \in Keys
  BY <1>2 DEF TypeOK, IsOverrides, IsMap
<1>4. GoodHeaders(headers')
  <2>1. CASE Skips
    BY <1>1, <1>2, <2>1
  <2>2. CASE ~Skips
    <3>1. PICK v \in NewValues(k, o, headers), d \in Deletions(headers, k.name) :
            headers' = IF Legal(v) THEN Put(d, k, v) ELSE d
      BY <1>1, <2>2
    <3>2. GoodHeaders(d)
      BY <1>2, <3>1, DeletionIsGood
    <3> QED
      BY <1>3, <3>1, <3>2, PutIsGood
  <2> QED
    BY <2>1, <2>2
<1>5. todo' \subseteq DOMAIN overrides
  BY <1>1, <1>2
<1> QED
  BY <1>1, <1>4, <1>5 DEF TypeOK, GoodHeaders

\* The steps between the loops.
LEMMA StepTypes ==
  ASSUME TypeOK, PrepareUserinfo \/ Select \/ Finish \/ Done
  PROVE  TypeOK'
<1>1. CASE PrepareUserinfo
  <2> DEFINE value == IF found = Blank THEN Fallback(given.raw, given.user) ELSE found
             key == [name |-> Userinfo, spelling |-> Lower]
  <2>1. /\ headers' = IF Legal(value) THEN Put(headers, key, value) ELSE headers
        /\ at' = "select" /\ todo' = {}
        /\ UNCHANGED <<given, found, overrides, answer>>
    BY <1>1 DEF PrepareUserinfo
  <2>2. key \in Keys /\ GoodHeaders(headers)
    BY HeadersAssumption DEF Keys, TypeOK, GoodHeaders
  <2> HIDE DEF value, key
  <2>3. GoodHeaders(headers')
    BY <2>1, <2>2, PutIsGood
  <2> QED
    BY <2>1, <2>3 DEF TypeOK, GoodHeaders
<1>2. CASE Select
  <2>1. /\ overrides' = OverridesFor(given) /\ todo' = DOMAIN overrides' /\ at' = "override"
        /\ UNCHANGED <<given, headers, found, answer>>
    BY <1>2 DEF Select
  <2>2. IsOverrides(overrides')
    BY <2>1, SelectedType DEF TypeOK
  <2> QED
    BY <2>1, <2>2 DEF TypeOK
<1>3. CASE Finish
  <2>1. /\ headers' = [k \in DOMAIN headers \union {Canonical(n) : n \in NoCache} |->
                         IF k.name \in NoCache THEN ServersOwn ELSE headers[k]]
        /\ answer' = [n \in Served |-> ServersOwn]
        /\ todo' = DOMAIN headers' /\ at' = "write"
        /\ UNCHANGED <<given, found, overrides>>
    BY <1>3 DEF Finish
  <2>2. \A n \in NoCache : Canonical(n) \in Keys /\ Canonical(n).name = n
    BY HeadersAssumption DEF Canonical, Keys
  <2>3. IsMap(headers', Keys) /\ \A k \in DOMAIN headers' : Legal(headers'[k]) \/ headers'[k] = ServersOwn
    BY <2>1, <2>2 DEF TypeOK, IsMap
  <2>4. IsMap(answer', Names)
    BY <2>1, HeadersAssumption DEF IsMap
  <2> QED
    BY <2>1, <2>3, <2>4 DEF TypeOK
<1>4. CASE Done
  BY <1>4 DEF Done, TypeOK
<1> QED
  BY <1>1, <1>2, <1>3, <1>4

\* Writing the answer.
LEMMA WriteTypes ==
  ASSUME TypeOK, NEW k \in todo, Write(k)
  PROVE  TypeOK'
<1>1. /\ at = "write" /\ at' = at /\ todo' = todo \ {k} /\ answer' = Put(answer, k.name, headers[k])
      /\ UNCHANGED <<given, headers, found, overrides>>
  BY DEF Write, Take
<1>2. todo \subseteq DOMAIN headers
  BY <1>1 DEF TypeOK
<1>3. k.name \in Names
  BY <1>2 DEF TypeOK, IsMap, Keys
<1>4. IsMap(answer', Names)
  BY <1>1, <1>3, PutIsMap DEF TypeOK
<1>5. todo' \subseteq DOMAIN headers
  BY <1>1, <1>2
<1> QED
  BY <1>1, <1>4, <1>5 DEF TypeOK

\* Whatever the panel sends and the administrator saved, the map of headers on its way
\* has legal values only, next to the server's own (headers.go:43, 60, 94, 108).
THEOREM TypeCorrect == Spec => []TypeOK
<1>1. TypeOK /\ [Next]_vars => TypeOK'
  <2> SUFFICES ASSUME TypeOK, [Next]_vars PROVE TypeOK'
    OBVIOUS
  <2>1. ASSUME NEW k \in todo, Prepare(k) \/ Override(k) \/ Write(k)
        PROVE  TypeOK'
    BY <2>1, PrepareTypes, OverrideTypes, WriteTypes
  <2>2. CASE PrepareUserinfo \/ Select \/ Finish \/ Done
    BY <2>2, StepTypes
  <2>3. CASE UNCHANGED vars
    BY <2>3 DEF vars, TypeOK
  <2> QED
    BY <2>1, <2>2, <2>3 DEF Next
<1> QED
  BY <1>1, TypesAtFirst, PTL DEF Spec
=============================================================================
