\* An administrator who waits for answers; POSTs and answers may fail.
SPECIFICATION Spec
CONSTANTS
  s1 = s1  t1 = t1  t2 = t2
  Xray = Xray  Mihomo = Mihomo
  Squads = {s1}
  Default = Default
  Texts = {t1}
  NoName = NoName  Given = Given
  Libraries <- OneList
  FirstConfigs = 2
  Slots = {1}
  MaxConfigs = 3
  MaxLength = 3
  Patient = TRUE
INVARIANTS TypeOK OpenIsEdited NoTwins AnsweredIsSaved
PROPERTY KeepsTheRest
