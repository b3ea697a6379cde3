\* All orders of the loops, names in several spellings, values that are not legal.
SPECIFICATION Spec
CONSTANTS
  title = title  userinfo = userinfo  cache = cache  cookie = cookie  a = a  b = b  s1 = s1  s2 = s2
  Names = {title, userinfo, cache, cookie}
  Userinfo = userinfo
  Unsafe = {cache, cookie}
  NoCache = {cache}
  Served = {cache}
  Spellings = {1, 2, 3}
  Lower = 1
  Known <- FirstTwo
  Texts = {a, b}
  NilText = NilText  Null = Null  Blank = Blank  Illegal = Illegal
  ServersOwn = ServersOwn
  Numbers = {0, 1}
  Zero = 0
  None = None
  Params <- FourParams
  Squads = {s1, s2}
  MaxSquads = 2
  Raws <- FewRaws
  Users <- FewUsers
  Libraries <- FewLibraries
CHECK_DEADLOCK FALSE
INVARIANTS TypeOK Protected AnswerIsExpected
