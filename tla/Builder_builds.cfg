\* Every way to randomize a few outbounds and to merge two profiles; the call returns.
SPECIFICATION BuildSpec
CONSTANTS
  a = a  b = b  c = c  d = d  g = g  h = h  s1 = s1  s2 = s2  d1 = d1  d2 = d2
  Tags = {a, b, c, d, g, h}
  NoTag = NoTag
  Spellings = {1, 2}
  Positions = {1, 2, 3, 4, 5}
  Squads = {s1, s2}
  Libraries <- AnyGroups
  MaxSquads = 1
  NoTemplate = NoTemplate
  Names <- FewNames
  Unnamed = Unnamed
  NoMap = NoMap
  Destinations = {d1, d2}
  MihomoTemplates <- FewTemplates
CHECK_DEADLOCK FALSE
INVARIANTS TypeOK GroupsKept TagsStayUnique PersonalIds NamesApart NeverProxiedMore
