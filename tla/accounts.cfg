SPECIFICATION Spec
CONSTANTS
  None = None
  b1 = b1  ph1 = ph1  ph2 = ph2  x1 = x1
  Accounts = {b1, b2}  Phones = {ph1, ph2}  Pinfls = {x1}
  Flows = {f1, f2}  Sessions = {s1, s2}
  MaxCodes = 2  MaxTokens = 4  LastSecond = 1
  Files <- MCFiles
  Countries <- MCCountries
  Regions <- MCRegions
  Districts <- MCDistricts
INVARIANTS AccountsTypeOK RotationBounded ProofsAreSpent ImportClashesAreLate ImportPlacesFit OnlyImportsDeadlock
PROPERTIES RefusalExplained DeletedStaysOut PhoneIsLogin
SYMMETRY Symmetric
CONSTRAINT OneOfThese
CHECK_DEADLOCK FALSE
