\* Two POSTs under way while the administrator goes on.
SPECIFICATION Spec
CONSTANTS
  s1 = s1  t1 = t1  t2 = t2
  Xray = Xray  Mihomo = Mihomo
  Squads = {s1}
  Default = Default
  Texts = {t1}
  NoName = NoName  Given = Given
  Libraries <- OneList
  FirstConfigs = 2
  Slots = {1, 2}
  MaxConfigs = 3
  MaxLength = 3
  Patient = FALSE
INVARIANTS OpenIsEdited
