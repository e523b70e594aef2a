SPECIFICATION OfficeSpec
CONSTANTS
  a1 = a1  a2 = a2  g1 = g1  g2 = g2  p1 = p1  r1 = r1  q1 = q1  d1 = d1
  c1 = c1  m1 = m1  m2 = m2  x1 = x1  x2 = x2  x3 = x3
  None = None
  Agencies = {a1, a2}  Groups = {g1, g2}  Pilgrims = {p1}
  Rooms = {r1}  RoomRequests = {q1}  DeleteRequests = {d1}
  Tours = {g1}  DayLength = 3  Offset = 1  Validity = 2  LastTime = 11
  Departures = {3}  Returns = {4, 7}  Expiries = {3}
  Entries = {x1, x2, x3}  Times = {1, 2, 3}  PageSize = 2  MaxMoves = 1
  Tasks = {t1}  Users = {c1, m1, m2}  Managers = {m1, m2}
  Sessions = {s1}
  Ops = {"createGroup", "addPilgrimToGroup", "removePilgrimFromGroup",
         "removeGroup", "removeFromAgency", "createRooms", "deleteRoom",
         "addRoomMember", "createRoomRequest", "addRoomRequestMember",
         "setAgency", "removeAgency", "changeStatus", "assignGuide",
         "unassignGuide", "updateGuide", "setAsGuide", "removeAsGuide",
         "invite", "reject", "accept", "createDeleteRequest",
         "cancelDeleteRequest", "approveDeleteRequest"}
  AgencyOfGroup <- MCAgencyOfGroup
  GroupOfRoom <- MCGroupOfRoom
  GroupOfRequest <- MCGroupOfRequest
  Capacity <- MCCapacity
  PilgrimOfDeletion <- MCPilgrimOfDeletion
INVARIANTS LogTellsAgency TaskTypeOK ScreensInSync NumbersAgree LeftOutAtNight
           PagesMissOnlyTheMoved
PROPERTIES GroupsKeepTheBook OnlyRemovalLeavesBeds OnlyAdminSplits
           TasksKeepTheFlow LogFollowsTheTask
SYMMETRY SymmetricManagers
CONSTRAINTS OneHalf OneList NamedByAge
CHECK_DEADLOCK FALSE
