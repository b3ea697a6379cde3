\* A header in two spellings, one of the server's own and the userinfo with two of
\* the page's parameters and another, one core with one squad, two users; every order
\* of four edits, fetches and saves.
SPECIFICATION Spec
CONSTANTS
  title = title
  Title = Title
  cache = cache
  userinfo = userinfo
  xray = xray
  a = a
  t1 = t1
  bad = bad
  Cores = {xray}
  FirstCore = xray
  Squads = {a}
  Default = Default
  SquadLists <- FewSquadLists
  Keys = {title, Title, cache, userinfo}
  NoKey = NoKey
  Name <- FewNames
  Userinfo = userinfo
  Refused = {cache}
  Texts = {t1, bad}
  Illegal = {bad}
  Blank = Blank
  Params = {"total", "expire", "plan"}
  Shown = {"total", "expire"}
  Numbers = {1, 2}
  NoParams = NoParams
  Users <- FewUsers
  Libraries <- FewLibraries
  MaxActs = 4
  MaxLength = 2
INVARIANTS TypeOK PreviewIsAnswer
PROPERTIES UntouchedStays
