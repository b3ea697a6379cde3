------------------------------ MODULE MCBuilder -----------------------------
(* Builder on small instances. *)
EXTENDS Builder

CONSTANTS a, b, c, d, g, h, s1, s2, d1, d2

\* The third outbound is not a vless one.
ListOf(tags) ==
  [i \in DOMAIN tags |-> [tag |-> tags[i], vless |-> i # 3, id |-> "template"]]

Maps(keys, lists) == UNION {[D -> lists] : D \in SUBSET keys}
TemplatesOf(lists, skips, maps) ==
  {[outbounds |-> ListOf(l), skip |-> s, randomize |-> r] : l \in lists, s \in skips, r \in maps}

\* Three outbounds of any tags, the group g under two spellings and a group that
\* has the tag of an outbound.
AnyTags ==
  TemplatesOf([1..3 -> {a, b, g, NoTag}], {{}, {b}, {g}},
              Maps({[tag |-> g, spelling |-> 1], [tag |-> g, spelling |-> 2], [tag |-> a, spelling |-> 1]},
                   {{a}, {a, b}, {a, g}, {b, g}, {a, b, g}}))

\* Five outbounds, two groups with a candidate of their own name and one without.
TwoGroups ==
  TemplatesOf({<<a, b, c, d, g>>}, {{}, {a, g}, {b, h}},
              Maps({[tag |-> g, spelling |-> 1], [tag |-> g, spelling |-> 2], [tag |-> h, spelling |-> 1]},
                   {{a, b}, {c, d}, {d, g}, {a, b, g}, {c, d, g}}))

Default(templates) == {[default |-> t, squads |-> [s \in {} |-> t]] : t \in templates}

Plain(tag) == [outbounds |-> ListOf(<<tag>>), skip |-> {}, randomize |-> [k \in {} |-> {}]]

\* Templates of squads, null in the place of one, and a default.
SquadLibraries ==
  {[default |-> Plain(a), squads |-> f] :
     f \in Maps({s1, s2}, {Plain(b), Plain(c), NoTemplate})}
AnyGroups == Default(AnyTags \union TwoGroups) \union SquadLibraries

\* Names with and without a number, and one that a repeated name would get.
Name(base, numbers) == [base |-> base, numbers |-> numbers]
FewNames == {Name(a, <<>>), Name(a, <<2>>), Name(b, <<>>)}

Profile(list, rs) == [kind |-> "profile", proxies |-> list, rules |-> rs]
NoProfile(kind) == [kind |-> kind, proxies |-> <<>>, rules |-> <<>>]
UpTo(n, S) == UNION {[1..m -> S] : m \in 0..n}

Direct(ds, option) == [match |-> ds, target |-> "DIRECT", option |-> option]
Reject(ds) == [match |-> ds, target |-> "REJECT", option |-> FALSE]
Proxied(ds) == [match |-> ds, target |-> "proxy", option |-> FALSE]
FewRules == {Direct({d1}, FALSE), Direct({d1}, TRUE), Direct({d1, d2}, FALSE),
             Reject({d1}), Reject({d2}), Proxied({d1}), Proxied({d1, d2})}

\* Entries of every kind, with up to three proxies of any names.
OfNames ==
  {NoProfile("broken"), NoProfile("other")} \union
  {Profile(list, <<>>) : list \in UpTo(2, FewNames \union {Unnamed, NoMap}) \union [1..3 -> {Name(a, <<>>)}]}

\* Two profiles with up to two rules of any kind.
OfRules == {Profile(<<Name(a, <<>>)>>, rs) : rs \in UpTo(2, FewRules)}

FewTemplates == UpTo(2, OfNames) \union [1..2 -> OfRules]
=============================================================================
