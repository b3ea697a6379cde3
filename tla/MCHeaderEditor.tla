---------------------------- MODULE MCHeaderEditor ----------------------------
(* HeaderEditor on a small instance. *)
EXTENDS HeaderEditor

CONSTANTS title, Title, cache, userinfo, xray, a, t1, bad

\* Two spellings of one name, a name that is the server's own, and the userinfo.
FewNames(key) == IF key = Title THEN title ELSE key

\* A user without a squad, and one with.
FewSquadLists == {<<>>, <<a>>}

Info(total) == [p \in {"total"} |-> total]
Full(total, expire) == [p \in {"total", "expire"} |-> IF p = "total" THEN total ELSE expire]
Planned(total, plan) == [p \in {"total", "plan"} |-> IF p = "total" THEN total ELSE plan]

\* A user with a title and an expiry, and one with neither, but with a parameter
\* the page does not know.
FewUsers ==
  {[k \in {Title, userinfo} |-> IF k = userinfo THEN Full(1, 2) ELSE t1], [k \in {userinfo} |-> Planned(2, 1)]}

O(mode, value, params) == [mode |-> mode, value |-> value, params |-> params]
P(mode, value) == [mode |-> mode, value |-> value]
Each(total, expire) == [p \in {"total", "expire"} |-> IF p = "total" THEN total ELSE expire]
Only(key, o) == [k \in {key} |-> o]

\* Overrides the page saves, and such as only come from elsewhere.
FewLibraries ==
  LET Library(default, squad) == [s \in Scopes |-> IF s = FirstScope THEN default ELSE squad]
  IN {Library(Only(Title, O("remove", Blank, Empty)),
              Only(userinfo, O("custom", Info(2), [p \in {"total", "plan"} |-> P("custom", 1)]))),
      Library(Only(userinfo, O("custom", Info(2), Each(P("custom", 2), P("actual", Blank)))),
              Only(title, O("custom", bad, Empty))),
      Library(Only(Title, O("custom", t1, Empty)),
              Only(userinfo, O("actual", Blank, Each(P("remove", Blank), P("custom", 1)))))}
=============================================================================
