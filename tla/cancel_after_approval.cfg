SPECIFICATION Spec
CONSTANTS
  a1 = a1  a2 = a2  g1 = g1  g2 = g2  p1 = p1  p2 = p2  p3 = p3
  r1 = r1  r2 = r2  q1 = q1  q2 = q2  d1 = d1  d2 = d2
  None = None
  Agencies = {a1}  Groups = {g1}  Pilgrims = {p1}
  Rooms = {}  RoomRequests = {}  DeleteRequests = {d1}
  Sessions = {s1, s2}
  Ops = {"createDeleteRequest", "cancelDeleteRequest",
         "approveDeleteRequest"}
  AgencyOfGroup <- MCAgencyOfGroup
  GroupOfRoom <- MCRoomsOfOneGroup
  GroupOfRequest <- MCRequestsOfOneGroup
  Capacity <- MCCapacity
  PilgrimOfDeletion <- MCPilgrimOfDeletion
PROPERTIES ApprovalStands
CHECK_DEADLOCK FALSE
