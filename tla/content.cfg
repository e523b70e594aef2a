SPECIFICATION Spec
CONSTANTS
  None = None
  i1 = i1  i2 = i2  i3 = i3  en = en  ru = ru
  Items = {i1, i2}  Langs = {en, ru}
  Edits <- MCEdits
  Sessions = {s1, s2}  Migrator = m
  MaxChanges = 4  LastTick = 1
INVARIANTS ContentTypeOK ReplacementsBounded MissedIsNewer
SYMMETRY Symmetric
CONSTRAINT OneHalf
CHECK_DEADLOCK FALSE
