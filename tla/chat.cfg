SPECIFICATION Spec
CONSTANTS
  None = None
  u1 = u1  u2 = u2  u3 = u3  r1 = r1  r2 = r2  r3 = r3  k1 = k1  k2 = k2
  Users = {u1, u2, u3}  RoomIds = {r1, r2, r3}  SocketIds = {k1, k2}  Groups = {g1}
  Sessions = {s1, s2}
  Grain = 2  PageSize = 1  NotesPage = 1  MaxMessages = 3  LastTick = 2  MaxKeys = 4
INVARIANTS MessagingTypeOK DmRoomsBounded PushOrder ViewIsComplete BellIsComplete VoiceKeysAgree
PROPERTIES FormerLeftAlone UnreadExplained
SYMMETRY Symmetric
CONSTRAINT OneFifth
CHECK_DEADLOCK FALSE
