------------------------------ MODULE MCHeaders ------------------------------
(* Headers on small instances. *)
EXTENDS Headers, TLC

CONSTANTS title, userinfo, cache, cookie, a, b, s1, s2

K(name, n) == [name |-> name, spelling |-> n]
FourParams == {"upload", "download", "total", "expire"}
FirstTwo == <<1, 2>>

Sent == [download |-> 1, total |-> 0, expire |-> 1]
TitlesSent ==
  {Empty, K(title, 1) :> a, K(title, 2) :> a, K(title, 1) :> Illegal,
   (K(title, 1) :> a) @@ (K(title, 2) :> b)}
InfosSent ==
  {Empty, (K(userinfo, 1) :> Sent) @@ (K(userinfo, 2) :> a)}
    \union {K(userinfo, n) :> Sent : n \in 1..3} \union {K(userinfo, 1) :> v : v \in {Null, Blank, Illegal, a}}
UnsafeSent == (K(cookie, 1) :> a) @@ (K(cache, 2) :> a)

FewRaws ==
  {t @@ UnsafeSent : t \in TitlesSent} \union {i @@ (K(title, 2) :> a) : i \in InfosSent}

User(used, usedTraffic, limit, expireAt, expiresAt) ==
  [used |-> used, usedTraffic |-> usedTraffic, limit |-> limit,
   expireAt |-> expireAt, expiresAt |-> expiresAt]
FewUsers ==
  {User(1, None, 1, 1, None), User(None, 1, 0, 0, 1),
   User(1, None, None, 1, None), User(1, 0, 1, Illegal, 1)}

Plainly(mode, value) == [mode |-> mode, value |-> value, params |-> Empty]
Custom(v) == Plainly("custom", v)
Remove == Plainly("remove", Blank)
Actually == Plainly("actual", a)
WithThree(mode, value) ==
  [mode |-> mode, value |-> value,
   params |-> [upload |-> Custom(1), total |-> Plainly("actual", Blank), expire |-> Remove]]
Bad == [mode |-> "custom", value |-> b, params |-> [download |-> Custom(Illegal)]]

DefaultLists ==
  {Empty, (K(title, 1) :> Custom(b)) @@ (K(cache, 1) :> Remove),
   (K(title, 2) :> Remove) @@ (K(userinfo, 2) :> WithThree("custom", b)),
   (K(title, 1) :> Custom(Illegal)) @@ (K(userinfo, 1) :> Actually),
   (K(userinfo, 1) :> WithThree("actual", Sent)) @@ (K(cookie, 2) :> Custom(a))}
SquadLists ==
  {(K(title, 1) :> Remove) @@ (K(userinfo, 2) :> Custom(b)),
   (K(title, 2) :> Custom(b)) @@ (K(userinfo, 1) :> Remove),
   (K(title, 1) :> Actually) @@ (K(userinfo, 2) :> Bad)}

FewLibraries ==
  {[default |-> d, squads |-> s] :
     d \in DefaultLists, s \in {Empty} \union {s1 :> l : l \in SquadLists}
                                \union {(s1 :> l) @@ (s2 :> m) : l, m \in SquadLists}}
=============================================================================
