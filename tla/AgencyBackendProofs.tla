------------------------ MODULE AgencyBackendProofs ------------------------
(***************************************************************************)
(* Theorems about AgencyBackend, for any sets of agencies, groups,         *)
(* pilgrims, rooms and ids, any capacities and any number of sessions.     *)
(***************************************************************************)
EXTENDS AgencyBackend, FiniteSetTheorems, TLAPS

-----------------------------------------------------------------------------
(* Types *)

LEMMA NoCallType == NoCall \in Calls
  BY DEF NoCall, Call, Calls, NoDrops, Steps

LEMMA NoCallRows == NamesItsRows(NoCall)
  BY DEF NoCall, Call, NamesItsRows

\* Tables that do not change stay well typed.
LEMMA TablesUnchanged == TablesOK /\ UNCHANGED tables => TablesOK'
  BY DEF TablesOK, tables, groupVars, placeVars, roomVars, pilgrimVars

LEMMA BeginType ==
  ASSUME TypeOK, NEW s \in Sessions,
         NEW op, NEW at \in Steps, NEW a \in Agencies \cup {None},
         NEW g \in Groups \cup {None}, NEW p \in Pilgrims \cup {None},
         NEW r \in Rooms \cup {None}, NEW q \in RoomRequests \cup {None},
         NEW d \in DeleteRequests \cup {None},
         NamesItsRows(Call(op, at, a, g, p, r, q, d)),
         Begin(s, Call(op, at, a, g, p, r, q, d))
  PROVE  TypeOK'
  <1> DEFINE call == Call(op, at, a, g, p, r, q, d)
  <1>1. TablesOK' BY TablesUnchanged DEF Begin, TypeOK
  <1>2. op \in Ops BY DEF Begin, Call
  <1>3. call \in Calls BY <1>2 DEF Call, Calls, NoDrops
  <1>4. CallsOK' BY <1>3 DEF Begin, TypeOK, CallsOK
  <1> QED BY <1>1, <1>4 DEF TypeOK

LEMMA GoToType ==
  ASSUME CallsOK, NEW s \in Sessions, NEW at \in Steps, GoTo(s, at)
  PROVE  CallsOK'
  BY DEF CallsOK, GoTo, Calls, NamesItsRows

LEMMA ReplyType ==
  ASSUME CallsOK, NEW s \in Sessions, Reply(s)
  PROVE  CallsOK'
  BY NoCallType, NoCallRows DEF CallsOK, Reply

LEMMA CheckType ==
  ASSUME TypeOK, NEW s \in Sessions, NEW op, NEW at, NEW test, NEW next \in Steps,
         Check(s, op, at, test, next)
  PROVE  TypeOK'
  <1>1. TablesOK' BY TablesUnchanged DEF Check, TypeOK
  <1>2. CallsOK'
    <2>1. CASE GoTo(s, next) BY <2>1, GoToType DEF TypeOK
    <2>2. CASE Reply(s) BY <2>2, ReplyType DEF TypeOK
    <2> QED BY <2>1, <2>2 DEF Check
  <1> QED BY <1>1, <1>2 DEF TypeOK

LEMMA DropType ==
  ASSUME TypeOK, NEW s \in Sessions, NEW table \in {"group", "room", "request"},
         NEW victims \in SUBSET Pilgrims, NEW next \in Steps,
         Drop(s, table, victims, next)
  PROVE  TypeOK'
  <1>1. TablesOK' BY TablesUnchanged DEF Drop, TypeOK
  <1> DEFINE after == [req[s].drops EXCEPT ![table] = victims]
  <1>2. req[s] \in Calls BY DEF TypeOK, CallsOK
  <1>3. after \in [group : SUBSET Pilgrims, room : SUBSET Pilgrims,
                   request : SUBSET Pilgrims]
    BY <1>2 DEF Calls
  <1>4. Deleted(req[s], table, victims, next) = [req[s] EXCEPT !.at = next, !.drops = after]
    BY Zenon DEF Deleted
  <1>5. Deleted(req[s], table, victims, next) \in Calls
    <2> HIDE DEF after
    <2> QED BY <1>2, <1>3, <1>4 DEF Calls
  <1>6. NamesItsRows(Deleted(req[s], table, victims, next))
    <2> HIDE DEF after
    <2> QED BY <1>2, <1>4 DEF NamesItsRows, Calls, TypeOK, CallsOK
  <1>7. CallsOK' BY <1>5, <1>6 DEF TypeOK, CallsOK, Drop
  <1> QED BY <1>1, <1>7 DEF TypeOK

LEMMA CommitType ==
  ASSUME TypeOK, NEW s \in Sessions, CommitDrops(s)
  PROVE  /\ groupOf' \in [Pilgrims -> Groups \cup {None}]
         /\ roomOf' \in [Pilgrims -> Rooms \cup {None}]
         /\ requestOf' \in [Pilgrims -> RoomRequests \cup {None}]
  BY DEF TypeOK, TablesOK, CommitDrops, Without

-----------------------------------------------------------------------------
(* The writes keep the types *)

LEMMA GroupWritesType ==
  ASSUME TypeOK, NEW s \in Sessions,
         \/ WriteStatus(s) \/ InsertMember(s) \/ DeleteMember(s) \/ CommitRemoveGroup(s)
         \/ \E op : WriteGuide(s, op, None) \/ WriteGuide(s, op, req[s].pilgrim)
  PROVE  TypeOK'
  <1>1. Reply(s)
    BY Zenon DEF WriteStatus, InsertMember, DeleteMember, CommitRemoveGroup, WriteGuide
  <1>2. CallsOK' BY <1>1, ReplyType DEF TypeOK
  <1>3. TablesOK /\ req[s] \in Calls /\ NamesItsRows(req[s]) BY DEF TypeOK, CallsOK
  <1>4. CASE WriteStatus(s)
    BY <1>2, <1>3, <1>4 DEF TypeOK, WriteStatus, TablesOK, NamesItsRows, Running,
       placeVars, roomVars, pilgrimVars
  <1>5. CASE InsertMember(s)
    BY <1>2, <1>3, <1>5 DEF TypeOK, InsertMember, TablesOK, Calls,
       groupVars, roomVars, pilgrimVars
  <1>6. CASE DeleteMember(s)
    BY <1>2, <1>3, <1>6 DEF TypeOK, DeleteMember, Without, TablesOK,
       groupVars, roomVars, pilgrimVars
  <1>7. CASE CommitRemoveGroup(s)
    BY <1>2, <1>3, <1>7, CommitType DEF TypeOK, CommitRemoveGroup, TablesOK,
       roomVars, pilgrimVars
  <1>8. ASSUME NEW op, NEW p \in Pilgrims \cup {None}, WriteGuide(s, op, p)
        PROVE  TypeOK'
    BY <1>2, <1>3, <1>8 DEF TypeOK, WriteGuide, TablesOK, placeVars, roomVars, pilgrimVars
  <1> QED BY <1>3, <1>4, <1>5, <1>6, <1>7, <1>8 DEF Calls

LEMMA RoomWritesType ==
  ASSUME TypeOK, NEW s \in Sessions,
         InsertRooms(s) \/ DeleteRoomRow(s) \/ InsertRoomMember(s) \/ DeleteRoomMember(s)
  PROVE  TypeOK'
  <1>1. Reply(s)
    BY Zenon DEF InsertRooms, DeleteRoomRow, InsertRoomMember, DeleteRoomMember
  <1>2. CallsOK' BY <1>1, ReplyType DEF TypeOK
  <1>3. TablesOK /\ req[s] \in Calls /\ NamesItsRows(req[s]) BY DEF TypeOK, CallsOK
  <1>4. CASE InsertRooms(s)
    BY <1>2, <1>3, <1>4 DEF TypeOK, InsertRooms, TablesOK, groupVars, placeVars, pilgrimVars
  <1>5. CASE DeleteRoomRow(s)
    BY <1>2, <1>3, <1>5 DEF TypeOK, DeleteRoomRow, CascadeRoom, Without, TablesOK,
       groupVars, pilgrimVars
  <1>6. CASE InsertRoomMember(s)
    BY <1>2, <1>3, <1>6 DEF TypeOK, InsertRoomMember, TakeBed, TablesOK,
       groupVars, roomVars, pilgrimVars
  <1>7. CASE DeleteRoomMember(s)
    BY <1>2, <1>3, <1>7 DEF TypeOK, DeleteRoomMember, Without, TablesOK,
       groupVars, roomVars, pilgrimVars
  <1> QED BY <1>4, <1>5, <1>6, <1>7

LEMMA RequestWritesType ==
  ASSUME TypeOK, NEW s \in Sessions,
         InsertRequest(s) \/ DeleteRequestRow(s) \/ InsertRequestMember(s)
           \/ DeleteRequestMember(s)
  PROVE  TypeOK'
  <1>1. Reply(s)
    BY Zenon DEF InsertRequest, DeleteRequestRow, InsertRequestMember, DeleteRequestMember
  <1>2. CallsOK' BY <1>1, ReplyType DEF TypeOK
  <1>3. TablesOK /\ req[s] \in Calls /\ NamesItsRows(req[s]) BY DEF TypeOK, CallsOK
  <1>4. CASE InsertRequest(s)
    BY <1>2, <1>3, <1>4 DEF TypeOK, InsertRequest, TablesOK, groupVars, placeVars, pilgrimVars
  <1>5. CASE DeleteRequestRow(s)
    BY <1>2, <1>3, <1>5 DEF TypeOK, DeleteRequestRow, Without, TablesOK,
       groupVars, pilgrimVars
  <1>6. CASE InsertRequestMember(s)
    BY <1>2, <1>3, <1>6 DEF TypeOK, InsertRequestMember, TakeRequest, TablesOK,
       groupVars, roomVars, pilgrimVars
  <1>7. CASE DeleteRequestMember(s)
    BY <1>2, <1>3, <1>7 DEF TypeOK, DeleteRequestMember, Without, TablesOK,
       groupVars, roomVars, pilgrimVars
  <1> QED BY <1>4, <1>5, <1>6, <1>7

LEMMA AgencyWritesType ==
  ASSUME TypeOK, NEW s \in Sessions,
         \/ CommitRemoval(s) \/ RaiseGuideFlag(s) \/ ClearGuideFlag(s)
         \/ WriteLog(s, "setAgency", "SET") \/ WriteLog(s, "removeAgency", "REMOVE")
  PROVE  TypeOK'
  <1>1. Reply(s)
    BY Zenon DEF CommitRemoval, RaiseGuideFlag, ClearGuideFlag, WriteLog
  <1>2. CallsOK' BY <1>1, ReplyType DEF TypeOK
  <1>3. TablesOK /\ req[s] \in Calls /\ NamesItsRows(req[s]) BY DEF TypeOK, CallsOK
  <1>4. CASE CommitRemoval(s)
    <2>1. LogRow("REMOVE", req[s].agency) \in LogRows
      BY <1>3 DEF LogRow, LogRows, HistoryActions, Calls
    <2> QED BY <1>2, <1>3, <1>4, <2>1, CommitType
        DEF TypeOK, CommitRemoval, TablesOK, groupVars, roomVars
  <1>5. CASE RaiseGuideFlag(s)
    BY <1>2, <1>3, <1>5 DEF TypeOK, RaiseGuideFlag, TablesOK, NamesItsRows, Running,
       groupVars, placeVars, roomVars
  <1>6. CASE ClearGuideFlag(s)
    BY <1>2, <1>3, <1>6 DEF TypeOK, ClearGuideFlag, TablesOK, groupVars, placeVars, roomVars
  <1>7. ASSUME NEW op, NEW action \in HistoryActions, WriteLog(s, op, action)
        PROVE  TypeOK'
    <2>1. LogRow(action, req[s].agency) \in LogRows
      BY <1>3 DEF LogRow, LogRows, Calls
    <2> QED BY <1>2, <1>3, <1>7, <2>1
        DEF TypeOK, WriteLog, TablesOK, groupVars, placeVars, roomVars
  <1> QED BY <1>4, <1>5, <1>6, <1>7 DEF HistoryActions

LEMMA WriteAgencyType ==
  ASSUME TypeOK, NEW s \in Sessions, NEW op, NEW at, NEW a \in Agencies \cup {None},
         WriteAgency(s, op, at, a)
  PROVE  TypeOK'
  <1>1. CallsOK' BY GoToType DEF WriteAgency, TypeOK, Steps
  <1>2. TablesOK'
    BY DEF TypeOK, WriteAgency, TablesOK, groupVars, placeVars, roomVars
  <1> QED BY <1>1, <1>2 DEF TypeOK

LEMMA InvitationWritesType ==
  ASSUME TypeOK, NEW s \in Sessions,
         InsertInvitation(s) \/ WriteRejected(s) \/ CommitAccept(s)
  PROVE  TypeOK'
  <1>1. Reply(s) BY Zenon DEF InsertInvitation, WriteRejected, CommitAccept
  <1>2. CallsOK' BY <1>1, ReplyType DEF TypeOK
  <1>3. TablesOK /\ req[s] \in Calls BY DEF TypeOK, CallsOK
  <1>4. CASE InsertInvitation(s)
    BY <1>2, <1>3, <1>4 DEF TypeOK, InsertInvitation, TablesOK,
       groupVars, placeVars, roomVars, pilgrimVars
  <1>5. CASE WriteRejected(s)
    BY <1>2, <1>3, <1>5 DEF TypeOK, WriteRejected, TablesOK,
       groupVars, placeVars, roomVars, pilgrimVars
  <1>6. CASE CommitAccept(s)
    BY <1>2, <1>3, <1>6 DEF TypeOK, CommitAccept, HistoryActions, TablesOK,
       groupVars, placeVars, roomVars
  <1> QED BY <1>4, <1>5, <1>6

LEMMA DeletionWritesType ==
  ASSUME TypeOK, NEW s \in Sessions,
         InsertDeletion(s) \/ WriteCancelled(s) \/ CommitApproval(s)
  PROVE  TypeOK'
  <1>1. Reply(s) BY Zenon DEF InsertDeletion, WriteCancelled, CommitApproval
  <1>2. CallsOK' BY <1>1, ReplyType DEF TypeOK
  <1>3. TablesOK /\ req[s] \in Calls /\ NamesItsRows(req[s]) BY DEF TypeOK, CallsOK
  <1>4. CASE InsertDeletion(s)
    BY <1>2, <1>3, <1>4 DEF TypeOK, InsertDeletion, TablesOK,
       groupVars, placeVars, roomVars, pilgrimVars
  <1>5. CASE WriteCancelled(s)
    BY <1>2, <1>3, <1>5 DEF TypeOK, WriteCancelled, TablesOK,
       groupVars, placeVars, roomVars, pilgrimVars
  <1>6. CASE CommitApproval(s)
    BY <1>2, <1>3, <1>6 DEF TypeOK, CommitApproval, SoftDeleted, NamesItsRows, Running,
       TablesOK, groupVars, placeVars, roomVars
  <1> QED BY <1>4, <1>5, <1>6

-----------------------------------------------------------------------------
(* Every handler keeps the types *)

LEMMA BeginOnGroupType ==
  ASSUME TypeOK, NEW s \in Sessions,
         NEW op \in {"changeStatus", "assignGuide", "unassignGuide", "updateGuide",
                     "addPilgrimToGroup", "removePilgrimFromGroup", "removeGroup"},
         NEW at \in Steps, NEW a \in Agencies \cup {None}, NEW g \in Groups,
         NEW p \in Pilgrims \cup {None}, op \in {"addPilgrimToGroup"} => p \in Pilgrims,
         Begin(s, CallOnGroup(op, at, a, g, p))
  PROVE  TypeOK'
  BY BeginType DEF CallOnGroup, Call, NamesItsRows

LEMMA ReadPilgrimType ==
  ASSUME TypeOK, NEW s \in Sessions, ReadPilgrim(s)
  PROVE  TypeOK'
  <1>1. TablesOK' BY TablesUnchanged DEF ReadPilgrim, TypeOK
  <1>2. CASE Reply(s) BY <1>1, <1>2, ReplyType DEF TypeOK
  <1>3. CASE req' = [req EXCEPT ![s].at = "member", ![s].agency = agencyOf[req[s].pilgrim]]
    <2>1. req[s] \in Calls /\ NamesItsRows(req[s]) BY DEF TypeOK, CallsOK
    <2>2. agencyOf[req[s].pilgrim] \in Agencies \cup {None}
      BY <2>1 DEF ReadPilgrim, Running, NamesItsRows, TypeOK, TablesOK
    <2>3. req' = [req EXCEPT ![s] = [req[s] EXCEPT !.at = "member",
                                     !.agency = agencyOf[req[s].pilgrim]]]
      BY <1>3 DEF TypeOK, CallsOK
    <2> DEFINE next == [req[s] EXCEPT !.at = "member", !.agency = agencyOf[req[s].pilgrim]]
    <2>4. next \in Calls BY <2>1, <2>2 DEF Calls, Steps
    <2>5. NamesItsRows(next) BY <2>1 DEF NamesItsRows, Calls
    <2>6. CallsOK' BY <2>3, <2>4, <2>5 DEF TypeOK, CallsOK
    <2> QED BY <1>1, <2>6 DEF TypeOK
  <1> QED BY <1>2, <1>3 DEF ReadPilgrim

LEMMA GroupHandlersType ==
  ASSUME TypeOK, NEW s \in Sessions,
         \/ ChangeStatus(s) \/ AssignGuide(s) \/ UnassignGuide(s) \/ UpdateGuide(s)
         \/ AddPilgrimToGroup(s) \/ RemovePilgrimFromGroup(s) \/ RemoveGroup(s)
  PROVE  TypeOK'
  <1>g. groups \subseteq Groups BY DEF TypeOK, TablesOK
  <1>1. CASE ChangeStatus(s)
    BY <1>g, <1>1, BeginOnGroupType, GroupWritesType DEF ChangeStatus, Steps
  <1>2. CASE AssignGuide(s)
    BY <1>2, BeginOnGroupType, CheckType, GroupWritesType DEF AssignGuide, Steps
  <1>3. CASE UnassignGuide(s)
    BY <1>3, BeginOnGroupType, GroupWritesType DEF UnassignGuide, Steps
  <1>4. CASE UpdateGuide(s)
    BY <1>4, BeginOnGroupType, GroupWritesType DEF UpdateGuide, Steps
  <1>5. CASE AddPilgrimToGroup(s)
    BY <1>5, BeginOnGroupType, ReadPilgrimType, CheckType, GroupWritesType
    DEF AddPilgrimToGroup, Steps
  <1>6. CASE RemovePilgrimFromGroup(s)
    BY <1>6, BeginOnGroupType, CheckType, GroupWritesType DEF RemovePilgrimFromGroup, Steps
  <1>7. CASE RemoveGroup(s)
    <2>1. ASSUME NEW at, NEW table \in {"group", "room", "request"},
                 NEW victims \in SUBSET Pilgrims, NEW next \in Steps,
                 DropIn(s, at, table, victims, next)
          PROVE  TypeOK'
      BY <2>1, DropType DEF DropIn
    <2>2. /\ Occupants(req[s].group) \in SUBSET Pilgrims
          /\ Requesters(req[s].group) \in SUBSET Pilgrims
          /\ Members(req[s].group) \in SUBSET Pilgrims
      BY DEF Occupants, Requesters, Members
    <2> QED BY <1>7, <2>1, <2>2, BeginOnGroupType, GroupWritesType
        DEF RemoveGroup, BeginRemoveGroup, Steps
  <1> QED BY <1>1, <1>2, <1>3, <1>4, <1>5, <1>6, <1>7

LEMMA BeginInRoomsType ==
  ASSUME TypeOK, NEW s \in Sessions,
         NEW op \in {"createRooms", "deleteRoom", "addRoomMember", "removeRoomMember",
                     "createRoomRequest", "deleteRoomRequest", "addRoomRequestMember",
                     "removeRoomRequestMember"},
         NEW at \in Steps, NEW g \in OwnGroups,
         NEW r \in Rooms \cup {None}, NEW q \in RoomRequests \cup {None},
         NEW p \in Pilgrims \cup {None},
         op \in {"addRoomMember", "addRoomRequestMember"} => p \in Pilgrims,
         Begin(s, CallOnRoom(op, at, g, r, p)) \/ Begin(s, CallOnRequest(op, at, g, q, p))
  PROVE  TypeOK'
  BY BeginType DEF CallOnRoom, CallOnRequest, Call, NamesItsRows, OwnGroups

LEMMA RoomHandlersType ==
  ASSUME TypeOK, NEW s \in Sessions,
         CreateRooms(s) \/ DeleteRoom(s) \/ AddRoomMember(s) \/ RemoveRoomMember(s)
  PROVE  TypeOK'
  <1>1. CASE CreateRooms(s)
    BY <1>1, BeginInRoomsType, RoomWritesType DEF CreateRooms, Steps
  <1>2. CASE DeleteRoom(s)
    BY <1>2, BeginInRoomsType, CheckType, RoomWritesType DEF DeleteRoom, Steps
  <1>3. CASE AddRoomMember(s)
    BY <1>3, BeginInRoomsType, CheckType, RoomWritesType DEF AddRoomMember, Steps
  <1>4. CASE RemoveRoomMember(s)
    BY <1>4, BeginInRoomsType, CheckType, RoomWritesType DEF RemoveRoomMember, Steps
  <1> QED BY <1>1, <1>2, <1>3, <1>4

LEMMA RequestHandlersType ==
  ASSUME TypeOK, NEW s \in Sessions,
         \/ CreateRoomRequest(s) \/ DeleteRoomRequest(s)
         \/ AddRoomRequestMember(s) \/ RemoveRoomRequestMember(s)
  PROVE  TypeOK'
  <1>1. CASE CreateRoomRequest(s)
    BY <1>1, BeginInRoomsType, RequestWritesType DEF CreateRoomRequest, Steps
  <1>2. CASE DeleteRoomRequest(s)
    BY <1>2, BeginInRoomsType, CheckType, RequestWritesType DEF DeleteRoomRequest, Steps
  <1>3. CASE AddRoomRequestMember(s)
    BY <1>3, BeginInRoomsType, CheckType, RequestWritesType DEF AddRoomRequestMember, Steps
  <1>4. CASE RemoveRoomRequestMember(s)
    BY <1>4, BeginInRoomsType, CheckType, RequestWritesType
    DEF RemoveRoomRequestMember, Steps
  <1> QED BY <1>1, <1>2, <1>3, <1>4

LEMMA BeginOnPilgrimType ==
  ASSUME TypeOK, NEW s \in Sessions,
         NEW op \in {"removeFromAgency", "setAsGuide", "removeAsGuide", "setAgency",
                     "removeAgency", "invite", "reject", "accept"},
         NEW at \in Steps, NEW a \in Agencies \cup {None}, NEW p \in Pilgrims,
         Begin(s, CallOnPilgrim(op, at, a, p))
  PROVE  TypeOK'
  BY BeginType DEF CallOnPilgrim, Call, NamesItsRows

LEMMA AgencyHandlersType ==
  ASSUME TypeOK, NEW s \in Sessions,
         \/ RemoveFromAgency(s) \/ SetAsGuide(s) \/ RemoveAsGuide(s)
         \/ SetAgency(s) \/ RemoveAgency(s)
  PROVE  TypeOK'
  <1>1. CASE RemoveFromAgency(s)
    <2>1. ASSUME NEW at, NEW table \in {"group", "room", "request"}, NEW place,
                 NEW next \in Steps, DropOwn(s, at, table, place, next)
          PROVE  TypeOK'
      <3>1. req[s] \in Calls /\ NamesItsRows(req[s]) BY DEF TypeOK, CallsOK
      <3>2. RowsOf(place, req[s].pilgrim) \in SUBSET Pilgrims
        BY <2>1, <3>1 DEF RowsOf, DropOwn, Running, NamesItsRows
      <3> QED BY <2>1, <3>2, DropType DEF DropOwn
    <2> QED BY <1>1, <2>1, BeginOnPilgrimType, CheckType, AgencyWritesType
        DEF RemoveFromAgency, Steps
  <1>2. CASE SetAsGuide(s)
    BY <1>2, BeginOnPilgrimType, AgencyWritesType DEF SetAsGuide, Steps
  <1>3. CASE RemoveAsGuide(s)
    BY <1>3, BeginOnPilgrimType, AgencyWritesType DEF RemoveAsGuide, Steps
  <1>a. req[s].agency \in Agencies \cup {None} BY DEF TypeOK, CallsOK, Calls
  <1>4. CASE SetAgency(s)
    BY <1>4, <1>a, BeginOnPilgrimType, AgencyWritesType, WriteAgencyType DEF SetAgency, Steps
  <1>5. CASE RemoveAgency(s)
    <2>1. \A p \in Pilgrims : AgencySeen(p) \in Agencies \cup {None}
      BY DEF AgencySeen, TypeOK, TablesOK
    <2> QED BY <1>5, <2>1, BeginOnPilgrimType, AgencyWritesType, WriteAgencyType
        DEF RemoveAgency, Steps
  <1> QED BY <1>1, <1>2, <1>3, <1>4, <1>5

LEMMA PilgrimHandlersType ==
  ASSUME TypeOK, NEW s \in Sessions,
         \/ CreateInvitation(s) \/ RejectInvitation(s) \/ AcceptInvitation(s)
         \/ CreateDeleteRequest(s) \/ CancelDeleteRequest(s) \/ ApproveDeleteRequest(s)
  PROVE  TypeOK'
  <1>1. CASE CreateInvitation(s)
    BY <1>1, BeginOnPilgrimType, CheckType, InvitationWritesType DEF CreateInvitation, Steps
  <1>2. CASE RejectInvitation(s)
    BY <1>2, BeginOnPilgrimType, InvitationWritesType DEF RejectInvitation, Steps
  <1>3. CASE AcceptInvitation(s)
    BY <1>3, BeginOnPilgrimType, CheckType, InvitationWritesType DEF AcceptInvitation, Steps
  <1>b. ASSUME NEW op \in {"createDeleteRequest", "cancelDeleteRequest",
                           "approveDeleteRequest"},
               NEW at \in Steps, NEW p \in Pilgrims, NEW d \in DeleteRequests \cup {None},
               Begin(s, CallOnDeletion(op, at, p, d))
        PROVE  TypeOK'
    BY <1>b, BeginType DEF CallOnDeletion, Call, NamesItsRows
  <1>4. CASE CreateDeleteRequest(s)
    BY <1>4, <1>b, DeletionWritesType DEF CreateDeleteRequest, Steps
  <1>5. CASE CancelDeleteRequest(s)
    BY <1>5, <1>b, DeletionWritesType DEF CancelDeleteRequest, Active, Steps
  <1>6. CASE ApproveDeleteRequest(s)
    BY <1>6, <1>b, DeletionWritesType, TablesAssumption DEF ApproveDeleteRequest, Steps
  <1> QED BY <1>1, <1>2, <1>3, <1>4, <1>5, <1>6

LEMMA NextType == TypeOK /\ [Next]_vars => TypeOK'
  <1> SUFFICES ASSUME TypeOK, [Next]_vars PROVE TypeOK'
    OBVIOUS
  <1>1. CASE CreateGroup
    BY <1>1 DEF CreateGroup, TypeOK, TablesOK, CallsOK, placeVars, roomVars, pilgrimVars
  <1>2. CASE ReturnDatePasses
    BY <1>2 DEF ReturnDatePasses, TypeOK, TablesOK, CallsOK, placeVars, roomVars, pilgrimVars
  <1>3. CASE Restart
    BY <1>3, TablesUnchanged, NoCallType, NoCallRows DEF Restart, TypeOK, CallsOK
  <1>4. ASSUME NEW s \in Sessions, Serve(s) PROVE TypeOK'
    BY <1>4, GroupHandlersType, RoomHandlersType, RequestHandlersType, AgencyHandlersType,
       PilgrimHandlersType DEF Serve, GroupRoutes, RoomRoutes, RoomRequestRoutes, PilgrimRoutes,
           AdminRoutes, InvitationRoutes, ProfileRoutes
  <1>5. CASE UNCHANGED vars
    <2>1. UNCHANGED tables BY <1>5 DEF vars
    <2> QED BY <1>5, <2>1, TablesUnchanged DEF vars, TypeOK, CallsOK
  <1> QED BY <1>1, <1>2, <1>3, <1>4, <1>5 DEF Next

LEMMA InitType == Init => TypeOK
  BY NoCallType, NoCallRows
  DEF Init, TypeOK, TablesOK, CallsOK, NoRow, LogRow, LogRows, HistoryActions

\* The tables and the requests in flight keep their types: no handler writes a
\* row that a column or a foreign key would not take.
THEOREM TypeCorrect == Spec => []TypeOK
  BY InitType, NextType, PTL DEF Spec

-----------------------------------------------------------------------------
(* Rooms and room requests keep the place book *)

\* What every handler but addRoomMember's INSERT may do to the rooms.
RoomsOpenOrEmpty ==
  \/ UNCHANGED <<rooms, roomOf>>
  \/ \E X \in SUBSET Rooms : RoomBook!OpenPlaces(X)
  \/ \E P \in SUBSET Pilgrims : RoomBook!Leave(P)
  \/ \E x \in Rooms, P \in SUBSET Pilgrims : RoomBook!Close(x, P)

\* The same of room requests.
RequestsOpenOrEmpty ==
  \/ UNCHANGED <<requests, requestOf>>
  \/ \E X \in SUBSET RoomRequests : RequestBook!OpenPlaces(X)
  \/ \E P \in SUBSET Pilgrims : RequestBook!Leave(P)
  \/ \E x \in RoomRequests, P \in SUBSET Pilgrims : RequestBook!Close(x, P)

LEMMA ReadsLeaveBooks ==
  ASSUME UNCHANGED tables
  PROVE  RoomsOpenOrEmpty /\ RequestsOpenOrEmpty
  BY DEF tables, roomVars, placeVars, RoomsOpenOrEmpty, RequestsOpenOrEmpty

LEMMA CommitLeaves ==
  ASSUME TypeOK, NEW s \in Sessions, CommitDrops(s), UNCHANGED roomVars
  PROVE  RoomsOpenOrEmpty /\ RequestsOpenOrEmpty
  <1>1. req[s].drops.room \in SUBSET Pilgrims /\ req[s].drops.request \in SUBSET Pilgrims
    BY DEF TypeOK, CallsOK, Calls
  <1>2. RoomBook!Leave(req[s].drops.room)
    BY DEF CommitDrops, Without, RoomBook!Leave, RoomBook!Freed, roomVars
  <1>3. RequestBook!Leave(req[s].drops.request)
    BY DEF CommitDrops, Without, RequestBook!Leave, RequestBook!Freed, roomVars
  <1> QED BY <1>1, <1>2, <1>3 DEF RoomsOpenOrEmpty, RequestsOpenOrEmpty

LEMMA GroupHandlersBooks ==
  ASSUME TypeOK, NEW s \in Sessions,
         \/ ChangeStatus(s) \/ AssignGuide(s) \/ UnassignGuide(s) \/ UpdateGuide(s)
         \/ AddPilgrimToGroup(s) \/ RemovePilgrimFromGroup(s) \/ RemoveGroup(s)
  PROVE  RoomsOpenOrEmpty /\ RequestsOpenOrEmpty
  <1>1. CASE CommitRemoveGroup(s)
    BY <1>1, CommitLeaves DEF CommitRemoveGroup
  <1>2. CASE UNCHANGED tables
    BY <1>2, ReadsLeaveBooks
  <1>3. CASE \/ WriteStatus(s) \/ InsertMember(s) \/ DeleteMember(s)
             \/ \E op : WriteGuide(s, op, None) \/ WriteGuide(s, op, req[s].pilgrim)
    BY <1>3 DEF WriteStatus, InsertMember, DeleteMember, WriteGuide, RoomsOpenOrEmpty,
       RequestsOpenOrEmpty, placeVars, roomVars
  <1> QED
    BY <1>1, <1>2, <1>3
    DEF ChangeStatus, AssignGuide, UnassignGuide, UpdateGuide, AddPilgrimToGroup,
        RemovePilgrimFromGroup, RemoveGroup, BeginRemoveGroup, DropIn, Begin, Check, Drop,
        ReadPilgrim

LEMMA RoomHandlersBooks ==
  ASSUME TypeOK, NEW s \in Sessions,
         CreateRooms(s) \/ DeleteRoom(s) \/ AddRoomMember(s) \/ RemoveRoomMember(s)
  PROVE  (InsertRoomMember(s) \/ RoomsOpenOrEmpty) /\ RequestsOpenOrEmpty
  <1>1. CASE UNCHANGED tables
    BY <1>1, ReadsLeaveBooks
  <1>2. CASE InsertRooms(s)
    <2>1. \E X \in SUBSET Rooms : RoomBook!OpenPlaces(X)
      BY <1>2 DEF InsertRooms, RoomBook!OpenPlaces, placeVars
    <2> QED BY <1>2, <2>1 DEF InsertRooms, RoomsOpenOrEmpty, RequestsOpenOrEmpty, placeVars
  <1>3. CASE DeleteRoomRow(s)
    <2>1. CASE req[s].room \in Rooms
      <3>1. RoomBook!Close(req[s].room, RoomMembers(req[s].room))
        BY <1>3 DEF DeleteRoomRow, CascadeRoom, Without, RoomMembers,
           RoomBook!Close, RoomBook!Freed
      <3>2. RoomMembers(req[s].room) \in SUBSET Pilgrims
        BY DEF RoomMembers
      <3> QED BY <1>3, <2>1, <3>1, <3>2
          DEF DeleteRoomRow, RoomsOpenOrEmpty, RequestsOpenOrEmpty
    <2>2. CASE req[s].room \notin Rooms
      <3>1. rooms' = rooms BY <1>3, <2>2 DEF DeleteRoomRow, TypeOK, TablesOK
      <3>2. RoomBook!Leave(RoomMembers(req[s].room))
        BY <1>3, <3>1 DEF DeleteRoomRow, CascadeRoom, Without, RoomBook!Leave, RoomBook!Freed
      <3> QED BY <1>3, <3>2
          DEF DeleteRoomRow, RoomMembers, RoomsOpenOrEmpty, RequestsOpenOrEmpty
    <2> QED BY <2>1, <2>2
  <1>4. CASE InsertRoomMember(s)
    BY <1>4 DEF InsertRoomMember, RequestsOpenOrEmpty, roomVars
  <1>5. CASE DeleteRoomMember(s)
    <2>1. RoomBook!Leave({req[s].pilgrim} \cap Pilgrims)
      BY <1>5 DEF DeleteRoomMember, Without, RoomBook!Leave, RoomBook!Freed, roomVars
    <2> QED BY <1>5, <2>1 DEF DeleteRoomMember, RoomsOpenOrEmpty, RequestsOpenOrEmpty, roomVars
  <1> QED
    BY <1>1, <1>2, <1>3, <1>4, <1>5
    DEF CreateRooms, DeleteRoom, AddRoomMember, RemoveRoomMember, Begin, Check

LEMMA RequestHandlersBooks ==
  ASSUME TypeOK, NEW s \in Sessions,
         \/ CreateRoomRequest(s) \/ DeleteRoomRequest(s)
         \/ AddRoomRequestMember(s) \/ RemoveRoomRequestMember(s)
  PROVE  RoomsOpenOrEmpty /\ (InsertRequestMember(s) \/ RequestsOpenOrEmpty)
  <1>1. CASE UNCHANGED tables
    BY <1>1, ReadsLeaveBooks
  <1>2. CASE InsertRequest(s)
    <2>1. \E X \in SUBSET RoomRequests : RequestBook!OpenPlaces(X)
      BY <1>2 DEF InsertRequest, RequestBook!OpenPlaces, placeVars
    <2> QED BY <1>2, <2>1 DEF InsertRequest, RoomsOpenOrEmpty, RequestsOpenOrEmpty, placeVars
  <1>3. CASE DeleteRequestRow(s)
    <2> DEFINE P == {p \in Pilgrims : requestOf[p] = req[s].request}
    <2>1. CASE req[s].request \in RoomRequests
      <3>1. RequestBook!Close(req[s].request, P)
        BY <1>3 DEF DeleteRequestRow, Without, RequestBook!Close, RequestBook!Freed
      <3> QED BY <1>3, <2>1, <3>1 DEF DeleteRequestRow, RoomsOpenOrEmpty, RequestsOpenOrEmpty
    <2>2. CASE req[s].request \notin RoomRequests
      <3>1. requests' = requests BY <1>3, <2>2 DEF DeleteRequestRow, TypeOK, TablesOK
      <3>2. RequestBook!Leave(P)
        BY <1>3, <3>1 DEF DeleteRequestRow, Without, RequestBook!Leave, RequestBook!Freed
      <3> QED BY <1>3, <3>2 DEF DeleteRequestRow, RoomsOpenOrEmpty, RequestsOpenOrEmpty
    <2> QED BY <2>1, <2>2
  <1>4. CASE InsertRequestMember(s)
    BY <1>4 DEF InsertRequestMember, RoomsOpenOrEmpty, roomVars
  <1>5. CASE DeleteRequestMember(s)
    <2>1. RequestBook!Leave({req[s].pilgrim} \cap Pilgrims)
      BY <1>5 DEF DeleteRequestMember, Without, RequestBook!Leave, RequestBook!Freed, roomVars
    <2> QED BY <1>5, <2>1
        DEF DeleteRequestMember, RoomsOpenOrEmpty, RequestsOpenOrEmpty, roomVars
  <1> QED
    BY <1>1, <1>2, <1>3, <1>4, <1>5
    DEF CreateRoomRequest, DeleteRoomRequest, AddRoomRequestMember, RemoveRoomRequestMember,
        Begin, Check

LEMMA OtherHandlersBooks ==
  ASSUME TypeOK, NEW s \in Sessions,
         \/ RemoveFromAgency(s) \/ SetAsGuide(s) \/ RemoveAsGuide(s)
         \/ SetAgency(s) \/ RemoveAgency(s)
         \/ CreateInvitation(s) \/ RejectInvitation(s) \/ AcceptInvitation(s)
         \/ CreateDeleteRequest(s) \/ CancelDeleteRequest(s) \/ ApproveDeleteRequest(s)
  PROVE  RoomsOpenOrEmpty /\ RequestsOpenOrEmpty
  <1>1. CASE UNCHANGED <<placeVars, roomVars>>
    BY <1>1 DEF placeVars, roomVars, RoomsOpenOrEmpty, RequestsOpenOrEmpty
  <1>2. CASE UNCHANGED tables
    BY <1>2, ReadsLeaveBooks
  <1>3. CASE CommitRemoval(s)
    BY <1>3, CommitLeaves DEF CommitRemoval
  <1>4. ASSUME RemoveFromAgency(s) PROVE UNCHANGED tables \/ CommitRemoval(s)
    BY <1>4 DEF RemoveFromAgency, DropOwn, Begin, Check, Drop
  <1>5. ASSUME SetAsGuide(s) \/ RemoveAsGuide(s) \/ SetAgency(s) \/ RemoveAgency(s)
        PROVE  UNCHANGED tables \/ UNCHANGED <<placeVars, roomVars>>
    BY <1>5 DEF SetAsGuide, RemoveAsGuide, SetAgency, RemoveAgency, RaiseGuideFlag,
       ClearGuideFlag, WriteAgency, WriteLog, Begin
  <1>6. ASSUME CreateInvitation(s) \/ RejectInvitation(s) \/ AcceptInvitation(s)
        PROVE  UNCHANGED tables \/ UNCHANGED <<placeVars, roomVars>>
    BY <1>6 DEF CreateInvitation, RejectInvitation, AcceptInvitation, InsertInvitation,
       WriteRejected, CommitAccept, Begin, Check
  <1>7. ASSUME CreateDeleteRequest(s) \/ CancelDeleteRequest(s) \/ ApproveDeleteRequest(s)
        PROVE  UNCHANGED tables \/ UNCHANGED <<placeVars, roomVars>>
    BY <1>7 DEF CreateDeleteRequest, CancelDeleteRequest, ApproveDeleteRequest,
       InsertDeletion, WriteCancelled, CommitApproval, Begin
  <1> QED BY <1>1, <1>2, <1>3, <1>4, <1>5, <1>6, <1>7

\* Only the two INSERTs put anybody anywhere.
LEMMA BookStep ==
  ASSUME TypeOK, [Next]_vars
  PROVE  /\ RoomsOpenOrEmpty \/ \E s \in Sessions : InsertRoomMember(s)
         /\ RequestsOpenOrEmpty \/ \E s \in Sessions : InsertRequestMember(s)
  <1>1. CASE CreateGroup \/ ReturnDatePasses \/ Restart \/ UNCHANGED vars
    BY <1>1, ReadsLeaveBooks
    DEF CreateGroup, ReturnDatePasses, Restart, vars, RoomsOpenOrEmpty,
        RequestsOpenOrEmpty, roomVars, placeVars
  <1>2. ASSUME NEW s \in Sessions, Serve(s)
        PROVE  /\ RoomsOpenOrEmpty \/ InsertRoomMember(s)
               /\ RequestsOpenOrEmpty \/ InsertRequestMember(s)
    BY <1>2, GroupHandlersBooks, RoomHandlersBooks, RequestHandlersBooks,
       OtherHandlersBooks DEF Serve, GroupRoutes, RoomRoutes, RoomRequestRoutes, PilgrimRoutes,
           AdminRoutes, InvitationRoutes, ProfileRoutes
  <1> QED BY <1>1, <1>2 DEF Next

LEMMA InsertTakes ==
  ASSUME TypeOK, NEW s \in Sessions
  PROVE  /\ InsertRoomMember(s) =>
              \/ UNCHANGED <<rooms, roomOf>>
              \/ /\ req[s].pilgrim \in Pilgrims /\ req[s].room \in Rooms
                 /\ RoomBook!Take(req[s].pilgrim, req[s].room)
         /\ InsertRequestMember(s) =>
              \/ UNCHANGED <<requests, requestOf>>
              \/ /\ req[s].pilgrim \in Pilgrims /\ req[s].request \in RoomRequests
                 /\ RequestBook!Take(req[s].pilgrim, req[s].request)
  <1>1. TablesOK /\ NamesItsRows(req[s]) BY DEF TypeOK, CallsOK
  <1>2. ASSUME InsertRoomMember(s) PROVE req[s].pilgrim \in Pilgrims
    BY <1>1, <1>2 DEF InsertRoomMember, NamesItsRows, Running
  <1>3. ASSUME InsertRequestMember(s) PROVE req[s].pilgrim \in Pilgrims
    BY <1>1, <1>3 DEF InsertRequestMember, NamesItsRows, Running
  <1> QED BY <1>1, <1>2, <1>3
      DEF InsertRoomMember, InsertRequestMember, TakeBed, TakeRequest, TablesOK, roomVars,
          RoomBook!Take, RequestBook!Take

\* Rooms implement the place book however requests overlap: every step maps to a
\* step of the book or to a stutter (the unique key and the cascade of migration
\* 036, and releaseGroup's and removeFromAgency's deletes).
THEOREM RoomsImplementTheBook == Spec => RoomsKeepTheBook
  <1>1. Init => RoomBook!Init BY DEF Init, RoomBook!Init
  <1>2. TypeOK /\ [Next]_vars => [RoomBook!Next]_<<rooms, roomOf>>
    BY BookStep, InsertTakes DEF RoomsOpenOrEmpty, RoomBook!Next
  <1> QED BY <1>1, <1>2, TypeCorrect, PTL DEF Spec, RoomsKeepTheBook, RoomBook!Spec

\* Room requests implement it too (migration 031).
THEOREM RequestsImplementTheBook == Spec => RequestsKeepTheBook
  <1>1. Init => RequestBook!Init BY DEF Init, RequestBook!Init
  <1>2. TypeOK /\ [Next]_vars => [RequestBook!Next]_<<requests, requestOf>>
    BY BookStep, InsertTakes DEF RequestsOpenOrEmpty, RequestBook!Next
  <1> QED BY <1>1, <1>2, TypeCorrect, PTL DEF Spec, RequestsKeepTheBook, RequestBook!Spec

\* So nobody is ever in a room whose row is gone.
THEOREM NobodyInADeletedRoom == Spec => []RoomBook!NobodyOutside
  <1>1. Init => RoomBook!NobodyOutside
    BY DEF Init, RoomBook!NobodyOutside
  <1>2. TypeOK /\ RoomBook!NobodyOutside /\ [Next]_vars => RoomBook!NobodyOutside'
    <2> SUFFICES ASSUME TypeOK, RoomBook!NobodyOutside, [Next]_vars
                 PROVE  RoomBook!NobodyOutside'
      OBVIOUS
    <2>1. CASE UNCHANGED <<rooms, roomOf>>
      BY <2>1 DEF RoomBook!NobodyOutside
    <2>2. CASE \E X \in SUBSET Rooms : RoomBook!OpenPlaces(X)
      BY <2>2 DEF RoomBook!NobodyOutside, RoomBook!OpenPlaces
    <2>3. CASE \E P \in SUBSET Pilgrims : RoomBook!Leave(P)
      BY <2>3 DEF RoomBook!NobodyOutside, RoomBook!Leave, RoomBook!Freed
    <2>4. CASE \E x \in Rooms, P \in SUBSET Pilgrims : RoomBook!Close(x, P)
      BY <2>4 DEF RoomBook!NobodyOutside, RoomBook!Close, RoomBook!Freed
    <2>5. ASSUME NEW p \in Pilgrims, NEW x \in Rooms, RoomBook!Take(p, x)
          PROVE  RoomBook!NobodyOutside'
      BY <2>5 DEF RoomBook!NobodyOutside, RoomBook!Take, TypeOK, TablesOK
    <2> QED BY <2>1, <2>2, <2>3, <2>4, <2>5, BookStep, InsertTakes DEF RoomsOpenOrEmpty
  <1> QED BY <1>1, <1>2, TypeCorrect, PTL DEF Spec

-----------------------------------------------------------------------------
(* Overbooking *)

\* No request gets past the count of members.
NobodyPasses == \A r \in Rooms : PastCount(r)' \subseteq PastCount(r)

\* Every operation but addRoomMember.
OtherOps == {"changeStatus", "assignGuide", "unassignGuide", "updateGuide",
             "addPilgrimToGroup", "removePilgrimFromGroup", "removeGroup", "createRooms",
             "deleteRoom", "removeRoomMember", "createRoomRequest", "deleteRoomRequest",
             "addRoomRequestMember", "removeRoomRequestMember", "removeFromAgency",
             "setAsGuide", "removeAsGuide", "setAgency", "removeAgency", "invite", "reject",
             "accept", "createDeleteRequest", "cancelDeleteRequest", "approveDeleteRequest"}

LEMMA ReplyPasses ==
  ASSUME TypeOK, NEW s \in Sessions, Reply(s)
  PROVE  NobodyPasses
  BY DEF TypeOK, CallsOK, Reply, NoCall, Call, NobodyPasses, PastCount

LEMMA BeginPasses ==
  ASSUME TypeOK, NEW s \in Sessions, NEW op \in OtherOps,
         NEW at, NEW a, NEW g, NEW p, NEW r, NEW q, NEW d,
         Begin(s, Call(op, at, a, g, p, r, q, d))
  PROVE  NobodyPasses
  BY DEF TypeOK, CallsOK, Begin, Call, NobodyPasses, PastCount, OtherOps

LEMMA GoToPasses ==
  ASSUME TypeOK, NEW s \in Sessions, NEW op \in OtherOps, NEW at, NEW next,
         Running(s, op, at), GoTo(s, next)
  PROVE  NobodyPasses
  BY DEF TypeOK, CallsOK, Calls, GoTo, Running, NobodyPasses, PastCount, OtherOps

LEMMA CheckPasses ==
  ASSUME TypeOK, NEW s \in Sessions, NEW op \in OtherOps, NEW at, NEW test, NEW next,
         Check(s, op, at, test, next)
  PROVE  NobodyPasses
  BY ReplyPasses, GoToPasses DEF Check

LEMMA DropPasses ==
  ASSUME TypeOK, NEW s \in Sessions, NEW op \in OtherOps, NEW at, Running(s, op, at),
         NEW table \in {"group", "room", "request"}, NEW victims, NEW next,
         Drop(s, table, victims, next)
  PROVE  NobodyPasses
  <1> DEFINE after == [req[s].drops EXCEPT ![table] = victims]
  <1>1. Deleted(req[s], table, victims, next) = [req[s] EXCEPT !.at = next, !.drops = after]
    BY Zenon DEF Deleted
  <1>2. Deleted(req[s], table, victims, next).op = op
    <2> HIDE DEF after
    <2> QED BY <1>1 DEF Running, TypeOK, CallsOK, Calls
  <1> QED BY <1>2 DEF TypeOK, CallsOK, Drop, NobodyPasses, PastCount, OtherOps

LEMMA GroupHandlersPass ==
  ASSUME TypeOK, NEW s \in Sessions,
         \/ ChangeStatus(s) \/ AssignGuide(s) \/ UnassignGuide(s) \/ UpdateGuide(s)
         \/ AddPilgrimToGroup(s) \/ RemovePilgrimFromGroup(s) \/ RemoveGroup(s)
  PROVE  NobodyPasses
  <1>1. CASE Reply(s) BY <1>1, ReplyPasses
  <1>2. CASE ReadPilgrim(s)
    BY <1>2, ReplyPasses
    DEF ReadPilgrim, Running, TypeOK, CallsOK, Calls, NobodyPasses, PastCount
  <1>3. CASE RemoveGroup(s)
    BY <1>1, <1>3, BeginPasses, DropPasses
    DEF RemoveGroup, BeginRemoveGroup, CommitRemoveGroup, DropIn, CallOnGroup, OtherOps
  <1>4. ASSUME AddPilgrimToGroup(s) \/ RemovePilgrimFromGroup(s) PROVE NobodyPasses
    BY <1>1, <1>2, <1>4, BeginPasses, CheckPasses
    DEF AddPilgrimToGroup, RemovePilgrimFromGroup, InsertMember, DeleteMember, CallOnGroup,
        OtherOps
  <1>5. ASSUME ChangeStatus(s) \/ AssignGuide(s) \/ UnassignGuide(s) \/ UpdateGuide(s)
        PROVE  NobodyPasses
    BY <1>1, <1>5, BeginPasses, CheckPasses
    DEF ChangeStatus, AssignGuide, UnassignGuide, UpdateGuide, WriteStatus, WriteGuide,
        CallOnGroup, OtherOps
  <1> QED BY <1>3, <1>4, <1>5

LEMMA RoomHandlersPass ==
  ASSUME TypeOK, NEW s \in Sessions,
         CreateRooms(s) \/ DeleteRoom(s) \/ RemoveRoomMember(s)
  PROVE  NobodyPasses
  <1>1. CASE Reply(s) BY <1>1, ReplyPasses
  <1>2. CASE CreateRooms(s)
    BY <1>1, <1>2, BeginPasses DEF CreateRooms, InsertRooms, CallOnRoom, OtherOps
  <1>3. CASE DeleteRoom(s)
    BY <1>1, <1>3, BeginPasses, CheckPasses DEF DeleteRoom, DeleteRoomRow, CallOnRoom, OtherOps
  <1>4. CASE RemoveRoomMember(s)
    BY <1>1, <1>4, BeginPasses, CheckPasses
    DEF RemoveRoomMember, DeleteRoomMember, CallOnRoom, OtherOps
  <1> QED BY <1>2, <1>3, <1>4

LEMMA RequestHandlersPass ==
  ASSUME TypeOK, NEW s \in Sessions,
         \/ CreateRoomRequest(s) \/ DeleteRoomRequest(s)
         \/ AddRoomRequestMember(s) \/ RemoveRoomRequestMember(s)
  PROVE  NobodyPasses
  <1>1. CASE Reply(s) BY <1>1, ReplyPasses
  <1>2. CASE CreateRoomRequest(s)
    BY <1>1, <1>2, BeginPasses DEF CreateRoomRequest, InsertRequest, CallOnRequest, OtherOps
  <1>3. CASE DeleteRoomRequest(s)
    BY <1>1, <1>3, BeginPasses, CheckPasses
    DEF DeleteRoomRequest, DeleteRequestRow, CallOnRequest, OtherOps
  <1>4. CASE AddRoomRequestMember(s)
    BY <1>1, <1>4, BeginPasses, CheckPasses
    DEF AddRoomRequestMember, InsertRequestMember, CallOnRequest, OtherOps
  <1>5. CASE RemoveRoomRequestMember(s)
    BY <1>1, <1>5, BeginPasses, CheckPasses
    DEF RemoveRoomRequestMember, DeleteRequestMember, CallOnRequest, OtherOps
  <1> QED BY <1>2, <1>3, <1>4, <1>5

LEMMA OtherHandlersPass ==
  ASSUME TypeOK, NEW s \in Sessions,
         \/ RemoveFromAgency(s) \/ SetAsGuide(s) \/ RemoveAsGuide(s)
         \/ SetAgency(s) \/ RemoveAgency(s)
         \/ CreateInvitation(s) \/ RejectInvitation(s) \/ AcceptInvitation(s)
         \/ CreateDeleteRequest(s) \/ CancelDeleteRequest(s) \/ ApproveDeleteRequest(s)
  PROVE  NobodyPasses
  <1>1. CASE Reply(s) BY <1>1, ReplyPasses
  <1>2. CASE RemoveFromAgency(s)
    BY <1>1, <1>2, BeginPasses, CheckPasses, DropPasses
    DEF RemoveFromAgency, DropOwn, CommitRemoval, CallOnPilgrim, OtherOps
  <1>3. ASSUME SetAsGuide(s) \/ RemoveAsGuide(s) PROVE NobodyPasses
    BY <1>1, <1>3, BeginPasses
    DEF SetAsGuide, RemoveAsGuide, RaiseGuideFlag, ClearGuideFlag, CallOnPilgrim, OtherOps
  <1>4. ASSUME SetAgency(s) \/ RemoveAgency(s) PROVE NobodyPasses
    BY <1>1, <1>4, BeginPasses, GoToPasses
    DEF SetAgency, RemoveAgency, WriteAgency, WriteLog, CallOnPilgrim, OtherOps
  <1>5. ASSUME CreateInvitation(s) \/ RejectInvitation(s) \/ AcceptInvitation(s)
        PROVE  NobodyPasses
    BY <1>1, <1>5, BeginPasses, CheckPasses
    DEF CreateInvitation, RejectInvitation, AcceptInvitation, InsertInvitation,
        WriteRejected, CommitAccept, CallOnPilgrim, OtherOps
  <1>6. ASSUME CreateDeleteRequest(s) \/ CancelDeleteRequest(s) \/ ApproveDeleteRequest(s)
        PROVE  NobodyPasses
    BY <1>1, <1>6, BeginPasses
    DEF CreateDeleteRequest, CancelDeleteRequest, ApproveDeleteRequest, InsertDeletion,
        WriteCancelled, CommitApproval, CallOnDeletion, OtherOps
  <1> QED BY <1>2, <1>3, <1>4, <1>5, <1>6

\* addRoomMember after the count, and before it.
LEMMA AddRoomMemberPasses ==
  ASSUME TypeOK, NEW s \in Sessions, AddRoomMember(s)
  PROVE  \/ NobodyPasses
         \/ Check(s, "addRoomMember", "count", HasSpace(req[s].room), "existing")
  <1>1. ASSUME Reply(s) PROVE NobodyPasses BY <1>1, ReplyPasses
  <1>2. ASSUME NEW g \in OwnGroups, NEW r \in Rooms, NEW p \in Pilgrims,
               Begin(s, CallOnRoom("addRoomMember", "room", g, r, p))
        PROVE  NobodyPasses
    BY <1>2 DEF TypeOK, CallsOK, Begin, CallOnRoom, Call, NobodyPasses, PastCount
  <1>3. ASSUME NEW at, NEW next \in {"member", "count"}, NEW test,
               Check(s, "addRoomMember", at, test, next)
        PROVE  NobodyPasses
    <2>1. CASE GoTo(s, next)
      <3>1. req'[s].at = next
        BY <2>1 DEF GoTo, TypeOK, CallsOK, Calls
      <3>2. \A t \in Sessions \ {s} : req'[t] = req[t]
        BY <2>1 DEF GoTo, TypeOK, CallsOK
      <3> QED BY <3>1, <3>2 DEF NobodyPasses, PastCount
    <2>2. GoTo(s, next) \/ Reply(s) BY <1>3, Zenon DEF Check
    <2> QED BY <1>1, <2>1, <2>2
  <1>4. ASSUME NEW test, Check(s, "addRoomMember", "existing", test, "insert")
        PROVE  NobodyPasses
    BY <1>1, <1>4 DEF Check, Running, GoTo, TypeOK, CallsOK, Calls, NobodyPasses, PastCount
  <1> QED BY <1>1, <1>2, <1>3, <1>4 DEF AddRoomMember, InsertRoomMember

LEMMA BedSets ==
  ASSUME TypeOK, NEW r \in Rooms
  PROVE  /\ IsFiniteSet(RoomMembers(r)) /\ Cardinality(RoomMembers(r)) \in Nat
         /\ IsFiniteSet(PastCount(r)) /\ Cardinality(PastCount(r)) \in Nat
         /\ Cardinality(PastCount(r)) <= Cardinality(Sessions)
         /\ Cardinality(Sessions) \in Nat /\ Capacity[r] \in Nat
  <1>1. RoomMembers(r) \subseteq Pilgrims BY DEF RoomMembers
  <1>2. PastCount(r) \subseteq Sessions BY DEF PastCount
  <1> QED BY <1>1, <1>2, FS_Subset, FS_CardinalityType, SessionsAssumption, TablesAssumption

\* Neither members nor promises grow.
LEMMA BedsShrink ==
  ASSUME TypeOK, BedsPromised, NobodyPasses, RoomsOpenOrEmpty
  PROVE  BedsPromised'
  <1> SUFFICES ASSUME NEW r \in Rooms
               PROVE  Cardinality(RoomMembers(r)') + Cardinality(PastCount(r)')
                        <= Capacity[r] + Cardinality(Sessions) - 1
    BY DEF BedsPromised
  <1>1. RoomMembers(r)' \subseteq RoomMembers(r)
    <2>1. None \notin Rooms BY TablesAssumption
    <2> QED BY <2>1 DEF RoomsOpenOrEmpty, RoomMembers, TypeOK, TablesOK,
            RoomBook!OpenPlaces, RoomBook!Leave, RoomBook!Close, RoomBook!Freed
  <1>2. Cardinality(RoomMembers(r)') <= Cardinality(RoomMembers(r))
    BY <1>1, BedSets, FS_Subset
  <1>3. Cardinality(PastCount(r)') <= Cardinality(PastCount(r))
    BY BedSets, FS_Subset DEF NobodyPasses
  <1>4. /\ Cardinality(RoomMembers(r)') \in Nat /\ Cardinality(PastCount(r)') \in Nat
    BY <1>1, BedSets, FS_Subset, FS_CardinalityType DEF NobodyPasses
  <1> QED BY <1>2, <1>3, <1>4, BedSets DEF BedsPromised

\* Passing the count takes one of the beds it found free.
LEMMA CountKeepsPromises ==
  ASSUME TypeOK, BedsPromised, NEW s \in Sessions,
         Check(s, "addRoomMember", "count", HasSpace(req[s].room), "existing")
  PROVE  BedsPromised'
  <1>1. roomOf' = roomOf BY DEF Check, tables, placeVars
  <1> SUFFICES ASSUME NEW r \in Rooms
               PROVE  Cardinality(RoomMembers(r)) + Cardinality(PastCount(r)')
                        <= Capacity[r] + Cardinality(Sessions) - 1
    BY <1>1 DEF BedsPromised, RoomMembers
  <1>2. CASE HasSpace(r)
    <2>1. PastCount(r)' \subseteq Sessions BY DEF PastCount
    <2>2. /\ Cardinality(PastCount(r)') <= Cardinality(Sessions)
          /\ Cardinality(PastCount(r)') \in Nat
      BY <2>1, FS_Subset, FS_CardinalityType, SessionsAssumption
    <2> QED BY <1>2, <2>2, BedSets DEF HasSpace
  <1>3. CASE ~HasSpace(r)
    <2>1. PastCount(r)' \subseteq PastCount(r)
      <3>1. CASE Reply(s) BY <3>1, ReplyPasses DEF NobodyPasses
      <3>2. CASE GoTo(s, "existing") /\ req[s].room # r
        BY <3>2 DEF GoTo, PastCount, TypeOK, CallsOK, Calls
      <3> QED BY <1>3, <3>1, <3>2 DEF Check
    <2>2. /\ Cardinality(PastCount(r)') <= Cardinality(PastCount(r))
          /\ Cardinality(PastCount(r)') \in Nat
      BY <2>1, BedSets, FS_Subset, FS_CardinalityType
    <2> QED BY <2>2, BedSets DEF BedsPromised
  <1> QED BY <1>2, <1>3

\* The INSERT turns a promise into a member.
LEMMA InsertKeepsPromises ==
  ASSUME TypeOK, BedsPromised, NEW s \in Sessions, InsertRoomMember(s)
  PROVE  BedsPromised'
  <1>1. NobodyPasses BY ReplyPasses DEF InsertRoomMember
  <1>2. CASE UNCHANGED <<rooms, roomOf>>
    BY <1>1, <1>2, BedsShrink DEF RoomsOpenOrEmpty
  <1>3. CASE /\ req[s].pilgrim \in Pilgrims /\ req[s].room \in Rooms
             /\ RoomBook!Take(req[s].pilgrim, req[s].room)
    <2> SUFFICES ASSUME NEW r \in Rooms
                 PROVE  Cardinality(RoomMembers(r)') + Cardinality(PastCount(r)')
                          <= Capacity[r] + Cardinality(Sessions) - 1
      BY DEF BedsPromised
    <2>1. PastCount(r)' \subseteq PastCount(r) BY <1>1 DEF NobodyPasses
    <2>2. /\ Cardinality(PastCount(r)') <= Cardinality(PastCount(r))
          /\ Cardinality(PastCount(r)') \in Nat
      BY <2>1, BedSets, FS_Subset, FS_CardinalityType
    <2>3. CASE r # req[s].room
      <3>1. RoomMembers(r)' = RoomMembers(r)
        BY <1>3, <2>3, TablesAssumption DEF RoomBook!Take, RoomMembers, TypeOK, TablesOK
      <3> QED BY <2>2, <3>1, BedSets DEF BedsPromised
    <2>4. CASE r = req[s].room
      <3>1. RoomMembers(r)' = RoomMembers(r) \cup {req[s].pilgrim}
        BY <1>3, <2>4 DEF RoomBook!Take, RoomMembers, TypeOK, TablesOK
      <3>2. /\ Cardinality(RoomMembers(r)') <= Cardinality(RoomMembers(r)) + 1
            /\ Cardinality(RoomMembers(r)') \in Nat
        <4>1. Cardinality(RoomMembers(r) \cup {req[s].pilgrim})
                = IF req[s].pilgrim \in RoomMembers(r) THEN Cardinality(RoomMembers(r))
                  ELSE Cardinality(RoomMembers(r)) + 1
          BY BedSets, FS_AddElement
        <4> QED BY <3>1, <4>1, BedSets
      <3>3. s \in PastCount(r)
        BY <2>4 DEF InsertRoomMember, Running, PastCount
      <3>4. PastCount(r)' \subseteq PastCount(r) \ {s}
        <4>1. req'[s] = NoCall BY DEF InsertRoomMember, Reply, TypeOK, CallsOK
        <4> QED BY <2>1, <4>1 DEF NoCall, Call, PastCount
      <3>5. Cardinality(PastCount(r)') <= Cardinality(PastCount(r)) - 1
        <4>1. /\ IsFiniteSet(PastCount(r) \ {s})
              /\ Cardinality(PastCount(r) \ {s}) = Cardinality(PastCount(r)) - 1
          BY <3>3, BedSets, FS_RemoveElement
        <4>2. Cardinality(PastCount(r)') <= Cardinality(PastCount(r) \ {s})
          BY <3>4, <4>1, FS_Subset
        <4> QED BY <4>1, <4>2
      <3> QED BY <2>2, <3>2, <3>5, BedSets DEF BedsPromised
    <2> QED BY <2>3, <2>4
  <1> QED BY <1>2, <1>3, InsertTakes

LEMMA RestartPasses ==
  ASSUME TypeOK, Restart
  PROVE  NobodyPasses
  BY DEF Restart, NoCall, Call, NobodyPasses, PastCount

LEMMA BedsPromisedStep == TypeOK /\ BedsPromised /\ [Next]_vars => BedsPromised'
  <1> SUFFICES ASSUME TypeOK, BedsPromised, [Next]_vars PROVE BedsPromised'
    OBVIOUS
  <1>1. CASE CreateGroup \/ ReturnDatePasses \/ UNCHANGED vars
    <2>1. NobodyPasses
      BY <1>1 DEF CreateGroup, ReturnDatePasses, vars, NobodyPasses, PastCount
    <2>2. RoomsOpenOrEmpty
      BY <1>1, ReadsLeaveBooks
      DEF CreateGroup, ReturnDatePasses, vars, RoomsOpenOrEmpty, roomVars, placeVars
    <2> QED BY <2>1, <2>2, BedsShrink
  <1>2. CASE Restart
    BY <1>2, RestartPasses, ReadsLeaveBooks, BedsShrink DEF Restart
  <1>3. ASSUME NEW s \in Sessions, Serve(s) PROVE BedsPromised'
    <2>1. CASE AddRoomMember(s)
      <3>1. CASE InsertRoomMember(s) BY <3>1, InsertKeepsPromises
      <3>2. CASE Check(s, "addRoomMember", "count", HasSpace(req[s].room), "existing")
        BY <3>2, CountKeepsPromises
      <3>3. CASE NobodyPasses /\ ~InsertRoomMember(s)
        BY <2>1, <3>3, RoomHandlersBooks, BedsShrink
      <3> QED BY <2>1, <3>1, <3>2, <3>3, AddRoomMemberPasses
    <2>2. CASE ~AddRoomMember(s)
      <3>1. NobodyPasses
        BY <1>3, <2>2, GroupHandlersPass, RoomHandlersPass, RequestHandlersPass,
           OtherHandlersPass DEF Serve, GroupRoutes, RoomRoutes, RoomRequestRoutes, PilgrimRoutes,
           AdminRoutes, InvitationRoutes, ProfileRoutes
      <3>2. ~InsertRoomMember(s) BY <2>2 DEF AddRoomMember
      <3>3. RoomsOpenOrEmpty
        BY <1>3, <3>2, GroupHandlersBooks, RoomHandlersBooks, RequestHandlersBooks,
           OtherHandlersBooks DEF Serve, GroupRoutes, RoomRoutes, RoomRequestRoutes, PilgrimRoutes,
           AdminRoutes, InvitationRoutes, ProfileRoutes
      <3> QED BY <3>1, <3>3, BedsShrink
    <2> QED BY <2>1, <2>2
  <1> QED BY <1>1, <1>2, <1>3 DEF Next

LEMMA BedsPromisedInit == Init => BedsPromised
  <1> SUFFICES ASSUME Init, NEW r \in Rooms
               PROVE  Cardinality(RoomMembers(r)) + Cardinality(PastCount(r))
                        <= Capacity[r] + Cardinality(Sessions) - 1
    BY DEF BedsPromised
  <1>1. RoomMembers(r) = {} BY TablesAssumption DEF Init, RoomMembers
  <1>2. PastCount(r) = {} BY DEF Init, NoCall, Call, PastCount
  <1>3. Cardinality(Sessions) \in Nat \ {0}
    BY SessionsAssumption, FS_EmptySet, FS_CardinalityType
  <1>4. Capacity[r] \in Nat BY TablesAssumption
  <1> QED BY <1>1, <1>2, <1>3, <1>4, FS_EmptySet

\* A room holds at most its capacity and one pilgrim for each other request
\* served at the time: with one request at a time addRoomMember's count is
\* exact, and each concurrent request can let in one pilgrim too many.
THEOREM OverbookingIsBounded == Spec => []OverbookingBounded
  <1>1. TypeOK /\ BedsPromised => OverbookingBounded
    BY BedSets DEF BedsPromised, OverbookingBounded
  <1> QED BY <1>1, BedsPromisedInit, BedsPromisedStep, TypeCorrect, PTL DEF Spec

-----------------------------------------------------------------------------
(* Requests served one by one: what a request has tested is still so when  *)
(* it writes                                                               *)

GuideKnows(r) ==
  /\ r.op \in {"assignGuide", "unassignGuide", "updateGuide"} => r.group \in groups
  /\ r.op = "assignGuide" =>
       /\ AgencyOfGroup[r.group] = r.agency
       /\ r.at = "update" => agencyOf[r.pilgrim] = r.agency

JoinKnows(r) ==
  r.op = "addPilgrimToGroup" =>
    /\ r.group \in groups
    /\ r.at \in {"member", "insert"} => agencyOf[r.pilgrim] = r.agency
    /\ r.at = "insert" => groupOf[r.pilgrim] = None /\ r.agency = AgencyOfGroup[r.group]

RoomKnows(r) ==
  /\ r.op \in {"addRoomMember", "addRoomRequestMember"} /\ r.at \in {"count", "existing", "insert"}
       => groupOf[r.pilgrim] = r.group
  /\ r.op = "addRoomMember" /\ r.at # "room" => RoomOfGroup(r.room, r.group)
  /\ r.op = "addRoomRequestMember" /\ r.at # "request" => RequestOfGroup(r.request, r.group)

\* The deletes a transaction has run so far.
Dropped(r, ofRooms, ofRequests, ofGroups) ==
  r.drops = [room |-> IF r.at \in {"leads", "room_members"} THEN {} ELSE ofRooms,
             request |-> IF r.at \in {"group_members", "commit"} THEN ofRequests ELSE {},
             group |-> IF r.at = "commit" THEN ofGroups ELSE {}]

DropKnows(r) ==
  /\ r.op = "removeGroup" =>
       /\ r.group \in groups
       /\ Dropped(r, Occupants(r.group), Requesters(r.group), Members(r.group))
  /\ r.op = "removeFromAgency" =>
       /\ r.at # "leads" => ~LeadsLiveGroup(r.pilgrim)
       /\ Dropped(r, RowsOf(roomOf, r.pilgrim), RowsOf(requestOf, r.pilgrim),
                  RowsOf(groupOf, r.pilgrim))

AdminKnows(r) ==
  /\ r.op \in {"setAgency", "removeAgency"} => r.pilgrim \in Pilgrims /\ r.at \in {"update", "log"}
  /\ r.at = "log" => r.op \in {"setAgency", "removeAgency"}
  /\ r.op = "setAgency" => /\ r.agency \in Agencies
                           /\ r.at = "update" => AgencySeen(r.pilgrim) = None
                           /\ r.at = "log" => agencyOf[r.pilgrim] = r.agency
  /\ r.op = "removeAgency" /\ r.at = "log" => agencyOf[r.pilgrim] = None

Knows(r) == GuideKnows(r) /\ JoinKnows(r) /\ RoomKnows(r) /\ DropKnows(r) /\ AdminKnows(r)

\* A group that is not there yet has no guide.
FreshHaveNoGuide == \A g \in Groups \cap fresh : g \notin groups /\ guideOf[g] = None

\* What LogTellsAgency says of one pilgrim.
HistoryTells(p) ==
  history[p] # NoRow
    => agencyOf[p] = IF history[p].action = "REMOVE" THEN None ELSE history[p].agency

\* Only a pilgrim whose log row is still to be written is not told of.
HistoryFollows(s) ==
  \A p \in Pilgrims : (req[s].at = "log" /\ req[s].pilgrim = p) \/ HistoryTells(p)

LEMMA KnowsKept ==
  ASSUME UNCHANGED tables, NEW c, Knows(c)
  PROVE  Knows(c)'
  <1>1. UNCHANGED <<groups, over, guideOf, groupOf, roomOf, requestOf, rooms, requests,
                    agencyOf, gone>>
    BY DEF tables, groupVars, placeVars, roomVars, pilgrimVars
  <1>2. GuideKnows(c)' BY <1>1 DEF Knows, GuideKnows
  <1>3. JoinKnows(c)' BY <1>1 DEF Knows, JoinKnows
  <1>4. RoomKnows(c)' BY <1>1 DEF Knows, RoomKnows, RoomOfGroup, RequestOfGroup
  <1>5. DropKnows(c)'
    <2>1. /\ Occupants(c.group)' = Occupants(c.group)
          /\ Requesters(c.group)' = Requesters(c.group)
          /\ Members(c.group)' = Members(c.group)
      BY <1>1 DEF Occupants, Requesters, Members
    <2>2. LeadsLiveGroup(c.pilgrim)' = LeadsLiveGroup(c.pilgrim)
      BY <1>1 DEF LeadsLiveGroup
    <2> QED BY <1>1, <2>1, <2>2 DEF Knows, DropKnows, Dropped, RowsOf
  <1>6. AdminKnows(c)' BY <1>1 DEF Knows, AdminKnows, AgencySeen
  <1> QED BY <1>2, <1>3, <1>4, <1>5, <1>6 DEF Knows

LEMMA ReadKnows ==
  ASSUME NEW s \in Sessions, UNCHANGED tables, Knows(req'[s])
  PROVE  Knows(req[s])'
  <1>1. PICK c : c = req'[s] OBVIOUS
  <1>2. Knows(c)' BY <1>1, KnowsKept
  <1> QED BY <1>1, <1>2 DEF Knows, GuideKnows, JoinKnows, RoomKnows, DropKnows, AdminKnows

LEMMA NoCallKnows == Knows(NoCall)
  BY DEF NoCall, Call, Knows, GuideKnows, JoinKnows, RoomKnows, DropKnows, AdminKnows

LEMMA ReplyKnows ==
  ASSUME NEW s \in Sessions, TypeOK, Reply(s)
  PROVE  Knows(req[s])'
  <1>1. req'[s] = NoCall BY DEF Reply, TypeOK, CallsOK
  <1> QED BY <1>1 DEF NoCall, Call, Knows, GuideKnows, JoinKnows, RoomKnows, DropKnows,
                      AdminKnows

LEMMA BeginKnows ==
  ASSUME NEW s \in Sessions, TypeOK, NEW call, Knows(call), Begin(s, call)
  PROVE  Knows(req[s])'
  <1>1. req'[s] = call BY DEF Begin, TypeOK, CallsOK
  <1>2. UNCHANGED tables BY DEF Begin
  <1> QED BY <1>1, <1>2, ReadKnows

LEMMA CheckKnows ==
  ASSUME NEW s \in Sessions, TypeOK, NEW op, NEW at, NEW test, NEW next,
         Check(s, op, at, test, next),
         test => Knows([req[s] EXCEPT !.at = next])
  PROVE  Knows(req[s])'
  <1>1. CASE Reply(s) BY <1>1, ReplyKnows
  <1>2. CASE test /\ GoTo(s, next)
    <2>1. req'[s] = [req[s] EXCEPT !.at = next] BY <1>2 DEF GoTo, TypeOK, CallsOK
    <2>2. UNCHANGED tables BY DEF Check
    <2> QED BY <1>2, <2>1, <2>2, ReadKnows
  <1> QED BY <1>1, <1>2 DEF Check

\* Calls of which nothing has to be known.
LEMMA OtherCallsKnow ==
  ASSUME NEW c,
         c.op \notin {"assignGuide", "unassignGuide", "updateGuide", "addPilgrimToGroup",
                      "addRoomMember", "addRoomRequestMember", "removeGroup",
                      "removeFromAgency", "setAgency", "removeAgency"},
         c.at # "log"
  PROVE  Knows(c)
  BY DEF Knows, GuideKnows, JoinKnows, RoomKnows, DropKnows, AdminKnows

LEMMA GroupHandlersKnow ==
  ASSUME NEW s \in Sessions, TypeOK, Knows(req[s]),
         ChangeStatus(s) \/ AssignGuide(s) \/ UnassignGuide(s) \/ UpdateGuide(s)
  PROVE  Knows(req[s])'
  <1>1. req[s] \in Calls BY DEF TypeOK, CallsOK
  <1>2. CASE Reply(s) BY <1>2, ReplyKnows
  <1>3. ASSUME NEW a, NEW g \in groups, NEW p, AgencyOfGroup[g] = a
        PROVE  /\ Knows(CallOnGroup("changeStatus", "update", None, g, None))
               /\ Knows(CallOnGroup("assignGuide", "guide", a, g, p))
               /\ Knows(CallOnGroup("unassignGuide", "update", None, g, None))
               /\ Knows(CallOnGroup("updateGuide", "update", None, g, p))
    BY <1>3 DEF CallOnGroup, Call, Knows, GuideKnows, JoinKnows, RoomKnows, DropKnows,
                AdminKnows
  <1>4. CASE ChangeStatus(s)
    <2>1. ASSUME NEW g \in groups,
                 Begin(s, CallOnGroup("changeStatus", "update", None, g, None))
          PROVE  Knows(req[s])'
      BY <1>3, <2>1, BeginKnows
    <2> QED BY <1>2, <1>4, <2>1 DEF ChangeStatus, WriteStatus
  <1>5. CASE AssignGuide(s)
    <2>1. CASE Check(s, "assignGuide", "guide", MayGuide(req[s].pilgrim, req[s].agency), "update")
      <3>1. MayGuide(req[s].pilgrim, req[s].agency) => Knows([req[s] EXCEPT !.at = "update"])
        BY <1>1, <2>1 DEF Check, Running, MayGuide, Calls, Knows, GuideKnows, JoinKnows,
                          RoomKnows, DropKnows, AdminKnows
      <3> QED BY <2>1, <3>1, CheckKnows
    <2>2. ASSUME NEW a \in Agencies, NEW g \in Groups, NEW p \in Pilgrims, OwnGroup(g, a),
                 Begin(s, CallOnGroup("assignGuide", "guide", a, g, p))
          PROVE  Knows(req[s])'
      BY <1>3, <2>2, BeginKnows DEF OwnGroup
    <2> QED BY <1>2, <1>5, <2>1, <2>2 DEF AssignGuide, WriteGuide
  <1>6. CASE UnassignGuide(s)
    <2>1. ASSUME NEW a \in Agencies, NEW g \in Groups, OwnGroup(g, a),
                 Begin(s, CallOnGroup("unassignGuide", "update", None, g, None))
          PROVE  Knows(req[s])'
      BY <1>3, <2>1, BeginKnows DEF OwnGroup
    <2> QED BY <1>2, <1>6, <2>1 DEF UnassignGuide, WriteGuide
  <1>7. CASE UpdateGuide(s)
    <2>1. ASSUME NEW a \in Agencies, NEW g \in Groups, NEW p \in Pilgrims, OwnGroup(g, a),
                 Begin(s, CallOnGroup("updateGuide", "update", None, g, p))
          PROVE  Knows(req[s])'
      BY <1>3, <2>1, BeginKnows DEF OwnGroup
    <2> QED BY <1>2, <1>7, <2>1 DEF UpdateGuide, WriteGuide
  <1> QED BY <1>4, <1>5, <1>6, <1>7

LEMMA MemberHandlersKnow ==
  ASSUME NEW s \in Sessions, TypeOK, Knows(req[s]),
         AddPilgrimToGroup(s) \/ RemovePilgrimFromGroup(s)
  PROVE  Knows(req[s])'
  <1>1. req[s] \in Calls BY DEF TypeOK, CallsOK
  <1>2. CASE Reply(s) BY <1>2, ReplyKnows
  <1>3. CASE AddPilgrimToGroup(s)
    <2>1. ASSUME NEW a \in Agencies, NEW g \in Groups, NEW p \in Pilgrims, OwnGroup(g, a),
                 Begin(s, CallOnGroup("addPilgrimToGroup", "pilgrim", None, g, p))
          PROVE  Knows(req[s])'
      <3>1. Knows(CallOnGroup("addPilgrimToGroup", "pilgrim", None, g, p))
        BY <2>1 DEF OwnGroup, CallOnGroup, Call, Knows, GuideKnows, JoinKnows, RoomKnows,
                    DropKnows, AdminKnows
      <3> QED BY <2>1, <3>1, BeginKnows
    <2>2. CASE ReadPilgrim(s) /\ ~ Reply(s)
      <3>1. req' = [req EXCEPT ![s].at = "member", ![s].agency = agencyOf[req[s].pilgrim]]
        BY <2>2 DEF ReadPilgrim
      <3>2. req'[s] = [req[s] EXCEPT !.at = "member", !.agency = agencyOf[req[s].pilgrim]]
        BY <3>1 DEF TypeOK, CallsOK
      <3>3. Knows([req[s] EXCEPT !.at = "member", !.agency = agencyOf[req[s].pilgrim]])
        BY <1>1, <2>2 DEF ReadPilgrim, Running, Calls, Knows, GuideKnows, JoinKnows,
                          RoomKnows, DropKnows, AdminKnows
      <3>4. UNCHANGED tables BY <2>2 DEF ReadPilgrim
      <3> QED BY <3>2, <3>3, <3>4, ReadKnows
    <2>3. CASE Check(s, "addPilgrimToGroup", "member", MayJoin(s), "insert")
      <3>1. MayJoin(s) => Knows([req[s] EXCEPT !.at = "insert"])
        BY <1>1, <2>3 DEF Check, Running, MayJoin, Calls, Knows, GuideKnows, JoinKnows,
                          RoomKnows, DropKnows, AdminKnows
      <3> QED BY <2>3, <3>1, CheckKnows
    <2> QED BY <1>2, <1>3, <2>1, <2>2, <2>3 DEF AddPilgrimToGroup, InsertMember
  <1>4. CASE RemovePilgrimFromGroup(s)
    <2>1. ASSUME NEW at, NEW g, NEW p, Begin(s, CallOnGroup("removePilgrimFromGroup", "pilgrim", None, g, p))
          PROVE  Knows(req[s])'
      <3>1. Knows(CallOnGroup("removePilgrimFromGroup", "pilgrim", None, g, p))
        BY OtherCallsKnow DEF CallOnGroup, Call
      <3> QED BY <2>1, <3>1, BeginKnows
    <2>2. ASSUME NEW at, NEW test, NEW next \in {"member", "delete"},
                 Check(s, "removePilgrimFromGroup", at, test, next)
          PROVE  Knows(req[s])'
      <3>1. Knows([req[s] EXCEPT !.at = next])
        BY <1>1, <2>2, OtherCallsKnow DEF Check, Running, Calls
      <3> QED BY <2>2, <3>1, CheckKnows
    <2> QED BY <1>2, <1>4, <2>1, <2>2 DEF RemovePilgrimFromGroup, DeleteMember
  <1> QED BY <1>3, <1>4

LEMMA RoomMemberHandlersKnow ==
  ASSUME NEW s \in Sessions, TypeOK, Knows(req[s]),
         AddRoomMember(s) \/ AddRoomRequestMember(s)
  PROVE  Knows(req[s])'
  <1>1. req[s] \in Calls BY DEF TypeOK, CallsOK
  <1>2. CASE Reply(s) BY <1>2, ReplyKnows
  <1>3. ASSUME NEW g, NEW r, NEW p
        PROVE  /\ Knows(CallOnRoom("addRoomMember", "room", g, r, p))
               /\ Knows(CallOnRequest("addRoomRequestMember", "request", g, r, p))
    BY DEF CallOnRoom, CallOnRequest, Call, Knows, GuideKnows, JoinKnows, RoomKnows,
           DropKnows, AdminKnows
  <1> USE DEF Check, Running, Calls, Knows, GuideKnows, JoinKnows, RoomKnows, DropKnows,
              AdminKnows
  <1>4. ASSUME Check(s, "addRoomMember", "room", RoomOfGroup(req[s].room, req[s].group), "member")
        PROVE  Knows(req[s])'
    <2>1. RoomOfGroup(req[s].room, req[s].group) => Knows([req[s] EXCEPT !.at = "member"])
      BY <1>1, <1>4
    <2> QED BY <1>4, <2>1, CheckKnows
  <1>5. ASSUME Check(s, "addRoomMember", "member", groupOf[req[s].pilgrim] = req[s].group, "count")
        PROVE  Knows(req[s])'
    <2>1. groupOf[req[s].pilgrim] = req[s].group => Knows([req[s] EXCEPT !.at = "count"])
      BY <1>1, <1>5
    <2> QED BY <1>5, <2>1, CheckKnows
  <1>6. ASSUME Check(s, "addRoomMember", "count", HasSpace(req[s].room), "existing")
        PROVE  Knows(req[s])'
    <2>1. Knows([req[s] EXCEPT !.at = "existing"]) BY <1>1, <1>6
    <2> QED BY <1>6, <2>1, CheckKnows
  <1>7. ASSUME Check(s, "addRoomMember", "existing", roomOf[req[s].pilgrim] = None, "insert")
        PROVE  Knows(req[s])'
    <2>1. Knows([req[s] EXCEPT !.at = "insert"]) BY <1>1, <1>7
    <2> QED BY <1>7, <2>1, CheckKnows
  <1>8. ASSUME Check(s, "addRoomRequestMember", "request",
                     RequestOfGroup(req[s].request, req[s].group), "member")
        PROVE  Knows(req[s])'
    <2>1. RequestOfGroup(req[s].request, req[s].group) => Knows([req[s] EXCEPT !.at = "member"])
      BY <1>1, <1>8
    <2> QED BY <1>8, <2>1, CheckKnows
  <1>9. ASSUME Check(s, "addRoomRequestMember", "member",
                     groupOf[req[s].pilgrim] = req[s].group, "existing")
        PROVE  Knows(req[s])'
    <2>1. groupOf[req[s].pilgrim] = req[s].group => Knows([req[s] EXCEPT !.at = "existing"])
      BY <1>1, <1>9
    <2> QED BY <1>9, <2>1, CheckKnows
  <1>10. ASSUME Check(s, "addRoomRequestMember", "existing", requestOf[req[s].pilgrim] = None,
                      "insert")
        PROVE  Knows(req[s])'
    <2>1. Knows([req[s] EXCEPT !.at = "insert"]) BY <1>1, <1>10
    <2> QED BY <1>10, <2>1, CheckKnows
  <1>11. CASE AddRoomMember(s)
    <2>1. ASSUME NEW g \in OwnGroups, NEW r \in Rooms, NEW p \in Pilgrims,
                 Begin(s, CallOnRoom("addRoomMember", "room", g, r, p))
          PROVE  Knows(req[s])'
      <3> HIDE DEF Knows
      <3> QED BY <1>3, <2>1, BeginKnows
    <2> HIDE DEF Check, Running, Calls, Knows
    <2> QED BY <1>2, <1>4, <1>5, <1>6, <1>7, <1>11, <2>1 DEF AddRoomMember, InsertRoomMember
  <1>12. CASE AddRoomRequestMember(s)
    <2>1. ASSUME NEW g \in OwnGroups, NEW q \in RoomRequests, NEW p \in Pilgrims,
                 Begin(s, CallOnRequest("addRoomRequestMember", "request", g, q, p))
          PROVE  Knows(req[s])'
      <3> HIDE DEF Knows
      <3> QED BY <1>3, <2>1, BeginKnows
    <2> HIDE DEF Check, Running, Calls, Knows
    <2> QED BY <1>2, <1>8, <1>9, <1>10, <1>12, <2>1
        DEF AddRoomRequestMember, InsertRequestMember
  <1> HIDE DEF Check, Running, Calls, Knows
  <1> QED BY <1>11, <1>12

LEMMA RoomHandlersKnow ==
  ASSUME NEW s \in Sessions, TypeOK, Knows(req[s]),
         \/ CreateRooms(s) \/ DeleteRoom(s) \/ RemoveRoomMember(s)
         \/ CreateRoomRequest(s) \/ DeleteRoomRequest(s) \/ RemoveRoomRequestMember(s)
  PROVE  Knows(req[s])'
  <1> DEFINE Ours == {"createRooms", "deleteRoom", "removeRoomMember", "createRoomRequest",
                      "deleteRoomRequest", "removeRoomRequestMember"}
  <1>1. req[s] \in Calls BY DEF TypeOK, CallsOK
  <1>2. CASE Reply(s) BY <1>2, ReplyKnows
  <1>3. ASSUME NEW op \in Ours, NEW at \in {"room", "request", "insert"}, NEW g, NEW r, NEW p,
               \/ Begin(s, CallOnRoom(op, at, g, r, p))
               \/ Begin(s, CallOnRequest(op, at, g, r, p))
        PROVE  Knows(req[s])'
    <2>1. /\ Knows(CallOnRoom(op, at, g, r, p))
          /\ Knows(CallOnRequest(op, at, g, r, p))
      BY OtherCallsKnow DEF CallOnRoom, CallOnRequest, Call
    <2> QED BY <1>3, <2>1, BeginKnows
  <1>4. ASSUME NEW op \in Ours, NEW at, NEW test, NEW next \in {"existing", "delete"},
               Check(s, op, at, test, next)
        PROVE  Knows(req[s])'
    <2>1. Knows([req[s] EXCEPT !.at = next])
      BY <1>1, <1>4, OtherCallsKnow DEF Check, Running, Calls
    <2> QED BY <1>4, <2>1, CheckKnows
  <1>5. ASSUME CreateRooms(s) \/ CreateRoomRequest(s) PROVE Knows(req[s])'
    BY <1>2, <1>3, <1>5 DEF CreateRooms, CreateRoomRequest, InsertRooms, InsertRequest
  <1>6. ASSUME DeleteRoom(s) \/ DeleteRoomRequest(s) PROVE Knows(req[s])'
    BY <1>2, <1>3, <1>4, <1>6
    DEF DeleteRoom, DeleteRoomRequest, DeleteRoomRow, DeleteRequestRow
  <1>7. ASSUME RemoveRoomMember(s) \/ RemoveRoomRequestMember(s) PROVE Knows(req[s])'
    BY <1>2, <1>3, <1>4, <1>7
    DEF RemoveRoomMember, RemoveRoomRequestMember, DeleteRoomMember, DeleteRequestMember
  <1> QED BY <1>5, <1>6, <1>7

\* A delete inside a transaction changes the request only.
LEMMA DropKnowsMore ==
  ASSUME NEW s \in Sessions, TypeOK, NEW table \in {"group", "room", "request"},
         NEW victims \in SUBSET Pilgrims, NEW next, Drop(s, table, victims, next)
  PROVE  /\ UNCHANGED tables
         /\ req'[s].op = req[s].op /\ req'[s].at = next
         /\ req'[s].group = req[s].group /\ req'[s].pilgrim = req[s].pilgrim
         /\ req'[s].drops = [req[s].drops EXCEPT ![table] = victims]
  <1> DEFINE after == [req[s].drops EXCEPT ![table] = victims]
  <1>1. Deleted(req[s], table, victims, next) = [req[s] EXCEPT !.at = next, !.drops = after]
    BY Zenon DEF Deleted
  <1>2. req'[s] = [req[s] EXCEPT !.at = next, !.drops = after]
    BY <1>1 DEF Drop, TypeOK, CallsOK
  <1>3. req[s] \in Calls BY DEF TypeOK, CallsOK
  <1>4. UNCHANGED tables BY DEF Drop
  <1> HIDE DEF after
  <1>5. /\ req'[s].op = req[s].op /\ req'[s].at = next
        /\ req'[s].group = req[s].group /\ req'[s].pilgrim = req[s].pilgrim
        /\ req'[s].drops = after
    BY <1>2, <1>3 DEF Calls
  <1> QED BY <1>4, <1>5 DEF after

LEMMA RemoveGroupKnows ==
  ASSUME NEW s \in Sessions, TypeOK, Knows(req[s]), RemoveGroup(s)
  PROVE  Knows(req[s])'
  <1>1. req[s] \in Calls BY DEF TypeOK, CallsOK
  <1>2. CASE Reply(s) BY <1>2, ReplyKnows
  <1>3. CASE BeginRemoveGroup(s)
    <2>1. PICK a \in Agencies, g \in Groups :
            /\ OwnGroup(g, a)
            /\ Begin(s, CallOnGroup("removeGroup", "room_members", None, g, None))
      BY <1>3 DEF BeginRemoveGroup
    <2>2. Knows(CallOnGroup("removeGroup", "room_members", None, g, None))
      BY <2>1 DEF OwnGroup, CallOnGroup, Call, NoDrops, Knows, GuideKnows, JoinKnows,
                  RoomKnows, DropKnows, Dropped, AdminKnows
    <2> QED BY <2>1, <2>2, BeginKnows
  <1>4. PICK R \in SUBSET Pilgrims : R = Occupants(req[s].group) BY DEF Occupants
  <1>5. PICK Q \in SUBSET Pilgrims : Q = Requesters(req[s].group) BY DEF Requesters
  <1>6. PICK M \in SUBSET Pilgrims : M = Members(req[s].group) BY DEF Members
  <1>7. req[s].op = "removeGroup" =>
          req[s].group \in groups /\ Dropped(req[s], R, Q, M)
    BY <1>4, <1>5, <1>6 DEF Knows, DropKnows
  <1>8. ASSUME NEW at, NEW table \in {"group", "room", "request"},
               NEW victims \in SUBSET Pilgrims,
               NEW next \in {"room_request_members", "group_members", "commit"},
               DropIn(s, at, table, victims, next),
               \/ /\ at = "room_members" /\ table = "room" /\ victims = R
                  /\ next = "room_request_members"
               \/ /\ at = "room_request_members" /\ table = "request" /\ victims = Q
                  /\ next = "group_members"
               \/ /\ at = "group_members" /\ table = "group" /\ victims = M /\ next = "commit"
        PROVE  Knows(req[s])'
    <2>1. Running(s, "removeGroup", at) /\ Drop(s, table, victims, next) BY <1>8 DEF DropIn
    <2>2. /\ UNCHANGED tables
          /\ req'[s].op = "removeGroup" /\ req'[s].at = next /\ req'[s].group = req[s].group
          /\ req'[s].drops = [req[s].drops EXCEPT ![table] = victims]
      BY <2>1, DropKnowsMore DEF Running
    <2>3. /\ req[s].group \in groups
          /\ req[s].drops =
               [room |-> IF at \in {"leads", "room_members"} THEN {} ELSE R,
                request |-> IF at \in {"group_members", "commit"} THEN Q ELSE {},
                group |-> IF at = "commit" THEN M ELSE {}]
      BY <1>7, <2>1 DEF Running, Dropped
    <2>4. Dropped(req'[s], R, Q, M)
      <3>1. CASE at = "room_members" BY <1>8, <2>2, <2>3, <3>1 DEF Dropped
      <3>2. CASE at = "room_request_members" BY <1>8, <2>2, <2>3, <3>2 DEF Dropped
      <3>3. CASE at = "group_members" BY <1>8, <2>2, <2>3, <3>3 DEF Dropped
      <3> QED BY <1>8, <3>1, <3>2, <3>3
    <2>5. Knows(req'[s])
      BY <1>4, <1>5, <1>6, <1>8, <2>2, <2>3, <2>4
      DEF Knows, GuideKnows, JoinKnows, RoomKnows, DropKnows, AdminKnows
    <2> QED BY <2>2, <2>5, ReadKnows
  <1> QED BY <1>2, <1>3, <1>4, <1>5, <1>6, <1>8 DEF RemoveGroup, CommitRemoveGroup

LEMMA RemoveFromAgencyKnows ==
  ASSUME NEW s \in Sessions, TypeOK, Knows(req[s]), RemoveFromAgency(s)
  PROVE  Knows(req[s])'
  <1>1. req[s] \in Calls /\ NamesItsRows(req[s]) BY DEF TypeOK, CallsOK
  <1>2. CASE Reply(s) BY <1>2, ReplyKnows
  <1>3. ASSUME NEW a \in Agencies, NEW p \in Pilgrims,
               Begin(s, CallOnPilgrim("removeFromAgency", "leads", a, p))
        PROVE  Knows(req[s])'
    <2>1. Knows(CallOnPilgrim("removeFromAgency", "leads", a, p))
      BY DEF CallOnPilgrim, Call, NoDrops, Knows, GuideKnows, JoinKnows, RoomKnows, DropKnows,
             Dropped, AdminKnows
    <2> QED BY <1>3, <2>1, BeginKnows
  <1>4. CASE Check(s, "removeFromAgency", "leads", ~LeadsLiveGroup(req[s].pilgrim),
                   "room_members")
    <2>1. ~LeadsLiveGroup(req[s].pilgrim) => Knows([req[s] EXCEPT !.at = "room_members"])
      BY <1>1, <1>4 DEF Check, Running, Calls, Knows, GuideKnows, JoinKnows, RoomKnows,
                        DropKnows, Dropped, AdminKnows
    <2> QED BY <1>4, <2>1, CheckKnows
  <1>5. PICK R : R = RowsOf(roomOf, req[s].pilgrim) OBVIOUS
  <1>6. PICK Q : Q = RowsOf(requestOf, req[s].pilgrim) OBVIOUS
  <1>7. PICK M : M = RowsOf(groupOf, req[s].pilgrim) OBVIOUS
  <1>8. ASSUME req[s].op = "removeFromAgency"
        PROVE  /\ Dropped(req[s], R, Q, M)
               /\ req[s].at # "leads" => ~LeadsLiveGroup(req[s].pilgrim)
               /\ R \in SUBSET Pilgrims /\ Q \in SUBSET Pilgrims /\ M \in SUBSET Pilgrims
    BY <1>1, <1>5, <1>6, <1>7, <1>8 DEF Knows, DropKnows, RowsOf, NamesItsRows
  <1>9. ASSUME NEW at, NEW table \in {"group", "room", "request"}, NEW victims,
               NEW next \in {"room_request_members", "group_members", "commit"},
               Running(s, "removeFromAgency", at), Drop(s, table, victims, next),
               \/ /\ at = "room_members" /\ table = "room" /\ victims = R
                  /\ next = "room_request_members"
               \/ /\ at = "room_request_members" /\ table = "request" /\ victims = Q
                  /\ next = "group_members"
               \/ /\ at = "group_members" /\ table = "group" /\ victims = M /\ next = "commit"
        PROVE  Knows(req[s])'
    <2>1. req[s].op = "removeFromAgency" /\ req[s].at = at BY <1>9 DEF Running
    <2>2. victims \in SUBSET Pilgrims BY <1>8, <1>9, <2>1
    <2>3. /\ UNCHANGED tables
          /\ req'[s].op = "removeFromAgency" /\ req'[s].at = next
          /\ req'[s].pilgrim = req[s].pilgrim
          /\ req'[s].drops = [req[s].drops EXCEPT ![table] = victims]
      BY <1>9, <2>1, <2>2, DropKnowsMore
    <2>4. /\ ~LeadsLiveGroup(req[s].pilgrim)
          /\ req[s].drops =
               [room |-> IF at \in {"leads", "room_members"} THEN {} ELSE R,
                request |-> IF at \in {"group_members", "commit"} THEN Q ELSE {},
                group |-> IF at = "commit" THEN M ELSE {}]
      BY <1>8, <1>9, <2>1 DEF Dropped
    <2>5. Dropped(req'[s], R, Q, M)
      BY <1>9, <2>3, <2>4 DEF Dropped
    <2>6. Knows(req'[s])
      BY <1>5, <1>6, <1>7, <1>9, <2>3, <2>4, <2>5
      DEF Knows, GuideKnows, JoinKnows, RoomKnows, DropKnows, AdminKnows
    <2> QED BY <2>3, <2>6, ReadKnows
  <1> QED BY <1>2, <1>3, <1>4, <1>5, <1>6, <1>7, <1>9
      DEF RemoveFromAgency, DropOwn, CommitRemoval

LEMMA AgencyHandlersKnow ==
  ASSUME NEW s \in Sessions, TypeOK, Knows(req[s]), SetAgency(s) \/ RemoveAgency(s)
  PROVE  Knows(req[s])'
  <1>1. req[s] \in Calls BY DEF TypeOK, CallsOK
  <1>2. CASE Reply(s) BY <1>2, ReplyKnows
  <1>3. ASSUME NEW a, NEW p \in Pilgrims,
               \/ /\ a \in Agencies /\ AgencySeen(p) = None
                  /\ Begin(s, CallOnPilgrim("setAgency", "update", a, p))
               \/ Begin(s, CallOnPilgrim("removeAgency", "update", a, p))
        PROVE  Knows(req[s])'
    <2>1. a \in Agencies /\ AgencySeen(p) = None
            => Knows(CallOnPilgrim("setAgency", "update", a, p))
      BY DEF CallOnPilgrim, Call, Knows, GuideKnows, JoinKnows, RoomKnows, DropKnows, AdminKnows
    <2>2. Knows(CallOnPilgrim("removeAgency", "update", a, p))
      BY DEF CallOnPilgrim, Call, Knows, GuideKnows, JoinKnows, RoomKnows, DropKnows, AdminKnows
    <2> QED BY <1>3, <2>1, <2>2, BeginKnows
  <1>4. ASSUME NEW op \in {"setAgency", "removeAgency"}, NEW a, WriteAgency(s, op, "update", a),
               a = IF op = "setAgency" THEN req[s].agency ELSE None
        PROVE  Knows(req[s])'
    <2>1. req[s].op = op /\ req[s].pilgrim \in Pilgrims
          /\ (op = "setAgency" => req[s].agency \in Agencies)
      BY <1>4 DEF WriteAgency, Running, Knows, AdminKnows
    <2>2. agencyOf'[req[s].pilgrim] = a
      BY <1>4, <2>1 DEF WriteAgency, TypeOK, TablesOK
    <2>3. /\ req'[s].op = op /\ req'[s].at = "log" /\ req'[s].pilgrim = req[s].pilgrim
          /\ req'[s].agency = req[s].agency
      BY <1>1, <1>4, <2>1 DEF WriteAgency, GoTo, TypeOK, CallsOK, Calls
    <2> QED BY <1>4, <2>1, <2>2, <2>3
        DEF Knows, GuideKnows, JoinKnows, RoomKnows, DropKnows, AdminKnows
  <1>5. CASE SetAgency(s)
    BY <1>2, <1>3, <1>4, <1>5 DEF SetAgency, WriteLog
  <1>6. CASE RemoveAgency(s)
    <2>1. ASSUME NEW p \in Pilgrims,
                 Begin(s, CallOnPilgrim("removeAgency", "update", AgencySeen(p), p))
          PROVE  Knows(req[s])'
      <3>1. PICK a : a = AgencySeen(p) OBVIOUS
      <3> QED BY <1>3, <2>1, <3>1
    <2> QED BY <1>2, <1>4, <1>6, <2>1 DEF RemoveAgency, WriteLog
  <1> QED BY <1>5, <1>6

LEMMA OtherHandlersKnow ==
  ASSUME NEW s \in Sessions, TypeOK, Knows(req[s]),
         \/ SetAsGuide(s) \/ RemoveAsGuide(s)
         \/ CreateInvitation(s) \/ RejectInvitation(s) \/ AcceptInvitation(s)
         \/ CreateDeleteRequest(s) \/ CancelDeleteRequest(s) \/ ApproveDeleteRequest(s)
  PROVE  Knows(req[s])'
  <1> DEFINE Ours == {"setAsGuide", "removeAsGuide", "invite", "reject", "accept",
                      "createDeleteRequest", "cancelDeleteRequest", "approveDeleteRequest"}
  <1>1. req[s] \in Calls BY DEF TypeOK, CallsOK
  <1>2. CASE Reply(s) BY <1>2, ReplyKnows
  <1>3. ASSUME NEW op \in Ours, NEW at \in {"update", "pending", "pilgrim", "insert", "commit"},
               NEW a, NEW p, NEW d,
               Begin(s, CallOnPilgrim(op, at, a, p)) \/ Begin(s, CallOnDeletion(op, at, p, d))
        PROVE  Knows(req[s])'
    <2>1. /\ Knows(CallOnPilgrim(op, at, a, p))
          /\ Knows(CallOnDeletion(op, at, p, d))
      BY OtherCallsKnow DEF CallOnPilgrim, CallOnDeletion, Call
    <2> QED BY <1>3, <2>1, BeginKnows
  <1>4. ASSUME NEW op \in Ours, NEW at, NEW test, NEW next \in {"insert", "commit"},
               Check(s, op, at, test, next)
        PROVE  Knows(req[s])'
    <2>1. Knows([req[s] EXCEPT !.at = next])
      BY <1>1, <1>4, OtherCallsKnow DEF Check, Running, Calls
    <2> QED BY <1>4, <2>1, CheckKnows
  <1>5. ASSUME SetAsGuide(s) \/ RemoveAsGuide(s) PROVE Knows(req[s])'
    BY <1>2, <1>3, <1>5 DEF SetAsGuide, RemoveAsGuide, RaiseGuideFlag, ClearGuideFlag
  <1>6. ASSUME CreateInvitation(s) \/ RejectInvitation(s) \/ AcceptInvitation(s)
        PROVE  Knows(req[s])'
    BY <1>2, <1>3, <1>4, <1>6
    DEF CreateInvitation, RejectInvitation, AcceptInvitation, InsertInvitation, WriteRejected,
        CommitAccept
  <1>7. ASSUME CreateDeleteRequest(s) \/ CancelDeleteRequest(s) \/ ApproveDeleteRequest(s)
        PROVE  Knows(req[s])'
    BY <1>2, <1>3, <1>7
    DEF CreateDeleteRequest, CancelDeleteRequest, ApproveDeleteRequest, InsertDeletion,
        WriteCancelled, CommitApproval
  <1> QED BY <1>5, <1>6, <1>7

\* A group is created, or its return date passes, while a request is served.
LEMMA GroupsComeAndEnd ==
  ASSUME NEW s \in Sessions, TypeOK, Knows(req[s]), FreshHaveNoGuide,
         CreateGroup \/ ReturnDatePasses
  PROVE  Knows(req[s])'
  <1>1. /\ UNCHANGED <<guideOf, groupOf, roomOf, requestOf, rooms, requests, agencyOf, gone, req>>
        /\ groups \subseteq groups'
    BY DEF CreateGroup, ReturnDatePasses, placeVars, roomVars, pilgrimVars
  <1>2. GuideKnows(req[s])' BY <1>1 DEF Knows, GuideKnows
  <1>3. JoinKnows(req[s])' BY <1>1 DEF Knows, JoinKnows
  <1>4. RoomKnows(req[s])' BY <1>1 DEF Knows, RoomKnows, RoomOfGroup, RequestOfGroup
  <1>5. DropKnows(req[s])'
    <2>1. /\ Occupants(req[s].group)' = Occupants(req[s].group)
          /\ Requesters(req[s].group)' = Requesters(req[s].group)
          /\ Members(req[s].group)' = Members(req[s].group)
      BY <1>1 DEF Occupants, Requesters, Members
    <2>2. req[s].op = "removeFromAgency" => req[s].pilgrim \in Pilgrims
      BY DEF TypeOK, CallsOK, NamesItsRows
    <2>3. req[s].op = "removeFromAgency" /\ ~LeadsLiveGroup(req[s].pilgrim)
            => ~LeadsLiveGroup(req[s].pilgrim)'
      <3>1. CASE CreateGroup
        <4>1. PICK g \in Groups \cap fresh : groups' = groups \cup {g}
          BY <3>1 DEF CreateGroup
        <4>2. guideOf[g] = None BY <4>1 DEF FreshHaveNoGuide
        <4>3. UNCHANGED over BY <3>1 DEF CreateGroup
        <4> QED BY <1>1, <2>2, <4>1, <4>2, <4>3, TablesAssumption DEF LeadsLiveGroup
      <3>2. CASE ReturnDatePasses
        BY <1>1, <3>2 DEF ReturnDatePasses, LeadsLiveGroup
      <3> QED BY <3>1, <3>2
    <2> QED BY <1>1, <2>1, <2>3 DEF Knows, DropKnows, Dropped, RowsOf
  <1>6. AdminKnows(req[s])' BY <1>1 DEF Knows, AdminKnows, AgencySeen
  <1> QED BY <1>2, <1>3, <1>4, <1>5, <1>6 DEF Knows

LEMMA RestartKnows ==
  ASSUME NEW s \in Sessions, Restart
  PROVE  Knows(req[s])'
  <1>1. req'[s] = NoCall BY DEF Restart
  <1> QED BY <1>1 DEF NoCall, Call, Knows, GuideKnows, JoinKnows, RoomKnows, DropKnows,
                      AdminKnows

\* Alone, a request that goes on finds what it has tested as it was.
LEMMA AloneKnows ==
  ASSUME NEW s, Sessions = {s}, TypeOK, Knows(req[s]), FreshHaveNoGuide, [Next]_vars
  PROVE  Knows(req[s])'
  <1>1. s \in Sessions OBVIOUS
  <1>2. CASE CreateGroup \/ ReturnDatePasses BY <1>1, <1>2, GroupsComeAndEnd
  <1>3. CASE Restart BY <1>1, <1>3, RestartKnows
  <1>4. CASE UNCHANGED vars BY <1>1, <1>4, ReadKnows DEF vars
  <1>5. CASE Serve(s)
    BY <1>1, <1>5, GroupHandlersKnow, MemberHandlersKnow, RoomMemberHandlersKnow,
       RoomHandlersKnow, RemoveGroupKnows, RemoveFromAgencyKnows, AgencyHandlersKnow,
       OtherHandlersKnow
    DEF Serve, GroupRoutes, RoomRoutes, RoomRequestRoutes, PilgrimRoutes, AdminRoutes,
        InvitationRoutes, ProfileRoutes
  <1> QED BY <1>2, <1>3, <1>4, <1>5 DEF Next

-----------------------------------------------------------------------------
(* What a step writes *)

\* Pilgrims may leave rooms and room requests, nothing else of the groups and agencies moves.
Calm == /\ UNCHANGED <<groups, over, guideOf, groupOf, agencyOf, history>>
        /\ fresh' \subseteq fresh
        /\ \A p \in Pilgrims : /\ roomOf'[p] \in {roomOf[p], None}
                               /\ requestOf'[p] \in {requestOf[p], None}

\* The writes that are not calm.
GroupWrite(s) ==
  \/ WriteStatus(s)
  \/ WriteGuide(s, "assignGuide", req[s].pilgrim)
  \/ WriteGuide(s, "unassignGuide", None)
  \/ WriteGuide(s, "updateGuide", req[s].pilgrim)
  \/ InsertMember(s) \/ DeleteMember(s) \/ CommitRemoveGroup(s)
  \/ InsertRoomMember(s) \/ InsertRequestMember(s)
PilgrimWrite(s) ==
  \/ CommitRemoval(s)
  \/ WriteAgency(s, "setAgency", "update", req[s].agency)
  \/ WriteAgency(s, "removeAgency", "update", None)
  \/ WriteLog(s, "setAgency", "SET") \/ WriteLog(s, "removeAgency", "REMOVE")

LEMMA TablesCalm ==
  ASSUME UNCHANGED tables
  PROVE  Calm
  BY DEF tables, groupVars, placeVars, pilgrimVars, Calm

LEMMA WithoutCalm ==
  ASSUME NEW place, NEW P
  PROVE  \A p \in Pilgrims : Without(place, P)[p] \in {place[p], None}
  BY DEF Without

LEMMA ServeWrites ==
  ASSUME NEW s \in Sessions, TypeOK, Serve(s)
  PROVE  Calm \/ GroupWrite(s) \/ PilgrimWrite(s)
  <1>1. CASE UNCHANGED tables BY <1>1, TablesCalm
  <1>2. CASE GroupRoutes(s)
    BY <1>1, <1>2
    DEF GroupRoutes, AssignGuide, UnassignGuide, UpdateGuide, AddPilgrimToGroup,
        RemovePilgrimFromGroup, RemoveGroup, BeginRemoveGroup, DropIn, Begin, Check, Drop,
        ReadPilgrim, GroupWrite
  <1>3. CASE RoomRoutes(s)
    <2>1. CASE InsertRooms(s) BY <2>1 DEF InsertRooms, Calm, groupVars, placeVars, pilgrimVars
    <2>2. CASE DeleteRoomRow(s)
      <3>1. \A p \in Pilgrims : roomOf'[p] \in {roomOf[p], None}
        BY <2>2, WithoutCalm DEF DeleteRoomRow, CascadeRoom
      <3> QED BY <2>2, <3>1 DEF DeleteRoomRow, Calm, groupVars, pilgrimVars
    <2>3. CASE DeleteRoomMember(s)
      <3>1. \A p \in Pilgrims : roomOf'[p] \in {roomOf[p], None}
        BY <2>3, WithoutCalm DEF DeleteRoomMember
      <3> QED BY <2>3, <3>1 DEF DeleteRoomMember, Calm, groupVars, pilgrimVars
    <2> QED BY <1>1, <1>3, <2>1, <2>2, <2>3
        DEF RoomRoutes, CreateRooms, DeleteRoom, AddRoomMember, RemoveRoomMember, Begin, Check,
            GroupWrite
  <1>4. CASE RoomRequestRoutes(s)
    <2>1. CASE InsertRequest(s)
      BY <2>1 DEF InsertRequest, Calm, groupVars, placeVars, pilgrimVars
    <2>2. CASE DeleteRequestRow(s)
      <3>1. \A p \in Pilgrims : requestOf'[p] \in {requestOf[p], None}
        BY <2>2, WithoutCalm DEF DeleteRequestRow
      <3> QED BY <2>2, <3>1 DEF DeleteRequestRow, Calm, groupVars, pilgrimVars
    <2>3. CASE DeleteRequestMember(s)
      <3>1. \A p \in Pilgrims : requestOf'[p] \in {requestOf[p], None}
        BY <2>3, WithoutCalm DEF DeleteRequestMember
      <3> QED BY <2>3, <3>1 DEF DeleteRequestMember, Calm, groupVars, pilgrimVars
    <2> QED BY <1>1, <1>4, <2>1, <2>2, <2>3
        DEF RoomRequestRoutes, CreateRoomRequest, DeleteRoomRequest, AddRoomRequestMember,
            RemoveRoomRequestMember, Begin, Check, GroupWrite
  <1>5. CASE PilgrimRoutes(s)
    <2>1. CASE RaiseGuideFlag(s) \/ ClearGuideFlag(s)
      BY <2>1 DEF RaiseGuideFlag, ClearGuideFlag, Calm, groupVars, placeVars
    <2> QED BY <1>1, <1>5, <2>1
        DEF PilgrimRoutes, RemoveFromAgency, SetAsGuide, RemoveAsGuide, DropOwn, Begin, Check,
            Drop, PilgrimWrite
  <1>6. CASE AdminRoutes(s)
    <2>1. CASE CommitApproval(s) BY <2>1 DEF CommitApproval, Calm, groupVars, placeVars
    <2> QED BY <1>1, <1>6, <2>1
        DEF AdminRoutes, ChangeStatus, SetAgency, RemoveAgency, ApproveDeleteRequest, Begin,
            GroupWrite, PilgrimWrite
  <1>7. CASE InvitationRoutes(s)
    <2>1. CASE InsertInvitation(s) \/ WriteRejected(s)
      BY <2>1 DEF InsertInvitation, WriteRejected, Calm, groupVars, placeVars, pilgrimVars
    <2>2. CASE CommitAccept(s)
      <3>1. "assigned" \notin HistoryActions BY DEF HistoryActions
      <3> QED BY <2>2, <3>1 DEF CommitAccept, Calm, groupVars, placeVars
    <2> QED BY <1>1, <1>7, <2>1, <2>2
        DEF InvitationRoutes, CreateInvitation, RejectInvitation, AcceptInvitation, Begin, Check
  <1>8. CASE ProfileRoutes(s)
    <2>1. CASE InsertDeletion(s) \/ WriteCancelled(s)
      BY <2>1 DEF InsertDeletion, WriteCancelled, Calm, groupVars, placeVars, pilgrimVars
    <2> QED BY <1>1, <1>8, <2>1
        DEF ProfileRoutes, CreateDeleteRequest, CancelDeleteRequest, Begin
  <1> QED BY <1>2, <1>3, <1>4, <1>5, <1>6, <1>7, <1>8 DEF Serve

LEMMA StepWrites ==
  ASSUME NEW s, Sessions = {s}, TypeOK, [Next]_vars
  PROVE  CreateGroup \/ ReturnDatePasses \/ Calm \/ GroupWrite(s) \/ PilgrimWrite(s)
  <1>1. CASE Restart \/ UNCHANGED vars BY <1>1, TablesCalm DEF Restart, vars
  <1>2. CASE Serve(s) BY <1>2, ServeWrites
  <1> QED BY <1>1, <1>2 DEF Next

LEMMA FreshStep ==
  ASSUME NEW s, Sessions = {s}, TypeOK, Knows(req[s]), FreshHaveNoGuide, [Next]_vars
  PROVE  FreshHaveNoGuide'
  <1>1. CASE CreateGroup BY <1>1 DEF CreateGroup, FreshHaveNoGuide
  <1>2. CASE ReturnDatePasses BY <1>2 DEF ReturnDatePasses, FreshHaveNoGuide
  <1>3. CASE Calm BY <1>3 DEF Calm, FreshHaveNoGuide
  <1>4. CASE GroupWrite(s)
    <2>1. ASSUME NEW op \in {"assignGuide", "unassignGuide", "updateGuide"}, NEW p,
                 WriteGuide(s, op, p)
          PROVE  FreshHaveNoGuide'
      <3>1. req[s].group \in groups BY <2>1 DEF WriteGuide, Running, Knows, GuideKnows
      <3>2. /\ UNCHANGED <<groups, fresh>>
            /\ \A g \in Groups : g # req[s].group => guideOf'[g] = guideOf[g]
        BY <2>1 DEF WriteGuide, TypeOK, TablesOK
      <3> QED BY <3>1, <3>2 DEF FreshHaveNoGuide
    <2>2. CASE \/ WriteStatus(s) \/ InsertMember(s) \/ DeleteMember(s)
               \/ InsertRoomMember(s) \/ InsertRequestMember(s)
      BY <2>2 DEF WriteStatus, InsertMember, DeleteMember, InsertRoomMember,
                  InsertRequestMember, groupVars, FreshHaveNoGuide
    <2>3. CASE CommitRemoveGroup(s) BY <2>3 DEF CommitRemoveGroup, FreshHaveNoGuide
    <2> QED BY <1>4, <2>1, <2>2, <2>3 DEF GroupWrite
  <1>5. CASE PilgrimWrite(s)
    BY <1>5 DEF PilgrimWrite, CommitRemoval, WriteAgency, WriteLog, groupVars, FreshHaveNoGuide
  <1> QED BY <1>1, <1>2, <1>3, <1>4, <1>5, StepWrites

LEMMA AlwaysKnows ==
  ASSUME NEW x, Sessions = {x}
  PROVE  Spec => [](TypeOK /\ Knows(req[x]) /\ FreshHaveNoGuide)
  <1> DEFINE I == TypeOK /\ Knows(req[x]) /\ FreshHaveNoGuide
  <1>1. Init => I
    <2> SUFFICES ASSUME Init PROVE I OBVIOUS
    <2>1. req[x] = NoCall BY DEF Init
    <2>2. FreshHaveNoGuide BY DEF Init, FreshHaveNoGuide
    <2> QED BY <2>1, <2>2, InitType, NoCallKnows
  <1>2. I /\ [Next]_vars => I'
    BY NextType, AloneKnows, FreshStep
  <1> QED BY <1>1, <1>2, PTL DEF Spec

-----------------------------------------------------------------------------
(* Groups keep the place book *)

LEMMA GroupBookStep ==
  ASSUME NEW s, Sessions = {s}, TypeOK, Knows(req[s]), [Next]_vars
  PROVE  [GroupBook!Next]_<<groups, groupOf>>
  <1>1. req[s] \in Calls /\ NamesItsRows(req[s]) BY DEF TypeOK, CallsOK
  <1>2. CASE CreateGroup
    <2>1. PICK g \in Groups \cap fresh : groups' = groups \cup {g} /\ UNCHANGED groupOf
      BY <1>2 DEF CreateGroup, placeVars
    <2>2. GroupBook!OpenPlaces({g}) BY <2>1 DEF GroupBook!OpenPlaces
    <2> QED BY <2>2 DEF GroupBook!Next
  <1>3. CASE ReturnDatePasses \/ Calm BY <1>3 DEF ReturnDatePasses, Calm, placeVars
  <1>4. CASE InsertMember(s)
    <2>1. req[s].op = "addPilgrimToGroup" /\ req[s].at = "insert" BY <1>4 DEF InsertMember, Running
    <2>2. /\ req[s].group \in groups /\ req[s].pilgrim \in Pilgrims
          /\ groupOf[req[s].pilgrim] = None
      BY <1>1, <2>1 DEF Knows, JoinKnows, NamesItsRows
    <2>3. GroupBook!Take(req[s].pilgrim, req[s].group)
      BY <1>4, <2>2 DEF InsertMember, groupVars, GroupBook!Take
    <2>4. req[s].group \in Groups BY <2>2 DEF TypeOK, TablesOK
    <2> QED BY <2>2, <2>3, <2>4 DEF GroupBook!Next
  <1>5. CASE DeleteMember(s)
    <2>1. GroupBook!Leave({req[s].pilgrim} \cap Pilgrims)
      BY <1>5 DEF DeleteMember, Without, groupVars, GroupBook!Leave, GroupBook!Freed
    <2> QED BY <2>1 DEF GroupBook!Next
  <1>6. CASE CommitRemoveGroup(s)
    <2>1. req[s].op = "removeGroup" /\ req[s].at = "commit"
      BY <1>6 DEF CommitRemoveGroup, Running
    <2>2. req[s].drops.group = Members(req[s].group) /\ req[s].group \in Groups
      BY <1>1, <2>1 DEF Knows, DropKnows, Dropped, NamesItsRows
    <2>3. GroupBook!Close(req[s].group, Members(req[s].group))
      BY <1>6, <2>2 DEF CommitRemoveGroup, CommitDrops, Without, Members, GroupBook!Close,
                        GroupBook!Freed
    <2>4. Members(req[s].group) \in SUBSET Pilgrims BY DEF Members
    <2> QED BY <2>2, <2>3, <2>4 DEF GroupBook!Next
  <1>7. CASE CommitRemoval(s)
    <2>1. GroupBook!Leave(req[s].drops.group)
      BY <1>7 DEF CommitRemoval, CommitDrops, Without, groupVars, GroupBook!Leave,
                  GroupBook!Freed
    <2>2. req[s].drops.group \in SUBSET Pilgrims BY <1>1 DEF Calls
    <2> QED BY <2>1, <2>2 DEF GroupBook!Next
  <1>8. ASSUME GroupWrite(s), ~InsertMember(s), ~DeleteMember(s), ~CommitRemoveGroup(s)
        PROVE  UNCHANGED <<groups, groupOf>>
    BY <1>8 DEF GroupWrite, WriteStatus, WriteGuide, InsertRoomMember, InsertRequestMember,
                groupVars, placeVars
  <1>9. ASSUME PilgrimWrite(s), ~CommitRemoval(s)
        PROVE  UNCHANGED <<groups, groupOf>>
    BY <1>9 DEF PilgrimWrite, WriteAgency, WriteLog, groupVars, placeVars
  <1> QED BY <1>2, <1>3, <1>4, <1>5, <1>6, <1>7, <1>8, <1>9, StepWrites

\* Served one by one, the handlers keep the book of the groups, which no constraint of the
\* database keeps: a pilgrim joins while the group is there and is in no other, and deleting the
\* group frees its members.
THEOREM AloneGroupsImplementTheBook ==
  ASSUME NEW x, Sessions = {x}
  PROVE  Spec => GroupsKeepTheBook
  <1>1. Init => GroupBook!Init BY DEF Init, GroupBook!Init
  <1>2. TypeOK /\ Knows(req[x]) /\ FreshHaveNoGuide /\ [Next]_vars
          => [GroupBook!Next]_<<groups, groupOf>>
    BY GroupBookStep
  <1> QED BY <1>1, <1>2, AlwaysKnows, PTL DEF Spec, GroupsKeepTheBook, GroupBook!Spec

-----------------------------------------------------------------------------
(* Rooms follow groups *)

LEMMA BedsStep ==
  ASSUME NEW s, Sessions = {s}, TypeOK, Knows(req[s]), [Next]_vars
  PROVE  \A p \in Pilgrims :
           RoomsWithItsGroup(p) /\ ~RoomsWithItsGroup(p)'
             => \E x \in Sessions : /\ Running(x, "removePilgrimFromGroup", "delete")
                                    /\ req[x].pilgrim = p
  <1> SUFFICES ASSUME NEW p \in Pilgrims, RoomsWithItsGroup(p),
                      ~(Running(s, "removePilgrimFromGroup", "delete") /\ req[s].pilgrim = p)
               PROVE  RoomsWithItsGroup(p)'
    OBVIOUS
  <1>1. /\ req[s] \in Calls /\ NamesItsRows(req[s]) /\ TablesOK
    BY DEF TypeOK, CallsOK
  <1>2. /\ groupOf[p] \in Groups \cup {None}
        /\ roomOf[p] # None => roomOf[p] \in Rooms /\ GroupOfRoom[roomOf[p]] \in Groups
        /\ requestOf[p] # None
             => requestOf[p] \in RoomRequests /\ GroupOfRequest[requestOf[p]] \in Groups
    BY <1>1, TablesAssumption DEF TablesOK
  <1>3. None \notin Groups BY TablesAssumption
  <1>4. ASSUME groupOf'[p] = groupOf[p], roomOf'[p] \in {roomOf[p], None},
               requestOf'[p] \in {requestOf[p], None}
        PROVE  RoomsWithItsGroup(p)'
    BY <1>4 DEF RoomsWithItsGroup
  <1>5. CASE CreateGroup \/ ReturnDatePasses \/ Calm
    BY <1>4, <1>5 DEF CreateGroup, ReturnDatePasses, Calm, placeVars
  <1>6. CASE InsertMember(s)
    <2>1. CASE groupOf[p] = None
      <3>1. roomOf[p] = None /\ requestOf[p] = None BY <1>2, <1>3, <2>1 DEF RoomsWithItsGroup
      <3> QED BY <1>6, <3>1 DEF InsertMember, RoomsWithItsGroup
    <2>2. CASE groupOf[p] # None
      <3>1. groupOf'[p] = groupOf[p] BY <1>1, <1>6, <2>2 DEF InsertMember, TablesOK
      <3> QED BY <1>4, <1>6, <3>1 DEF InsertMember
    <2> QED BY <2>1, <2>2
  <1>7. CASE DeleteMember(s)
    <2>1. p # req[s].pilgrim BY <1>7 DEF DeleteMember
    <2>2. groupOf'[p] = groupOf[p] BY <1>7, <2>1 DEF DeleteMember, Without
    <2> QED BY <1>4, <1>7, <2>2 DEF DeleteMember
  <1>8. CASE CommitRemoveGroup(s)
    <2>1. req[s].op = "removeGroup" /\ req[s].at = "commit" /\ CommitDrops(s)
      BY <1>8 DEF CommitRemoveGroup, Running
    <2>2. /\ req[s].drops.group = Members(req[s].group)
          /\ req[s].drops.room = Occupants(req[s].group)
          /\ req[s].drops.request = Requesters(req[s].group)
      BY <2>1 DEF Knows, DropKnows, Dropped
    <2>3. /\ groupOf'[p] = IF groupOf[p] = req[s].group THEN None ELSE groupOf[p]
          /\ roomOf'[p] = IF p \in Occupants(req[s].group) THEN None ELSE roomOf[p]
          /\ requestOf'[p] = IF p \in Requesters(req[s].group) THEN None ELSE requestOf[p]
      BY <2>1, <2>2 DEF CommitDrops, Without, Members
    <2>4. CASE groupOf[p] # req[s].group BY <1>4, <2>3, <2>4
    <2>5. CASE groupOf[p] = req[s].group
      <3>1. roomOf[p] # None => p \in Occupants(req[s].group)
        BY <1>2, <2>5 DEF RoomsWithItsGroup, Occupants
      <3>2. requestOf[p] # None => p \in Requesters(req[s].group)
        BY <1>2, <2>5 DEF RoomsWithItsGroup, Requesters
      <3> QED BY <2>3, <3>1, <3>2 DEF RoomsWithItsGroup
    <2> QED BY <2>4, <2>5
  <1>9. CASE CommitRemoval(s)
    <2>1. req[s].op = "removeFromAgency" /\ req[s].at = "commit" /\ CommitDrops(s)
      BY <1>9 DEF CommitRemoval, Running
    <2>2. /\ req[s].drops.group = RowsOf(groupOf, req[s].pilgrim)
          /\ req[s].drops.room = RowsOf(roomOf, req[s].pilgrim)
          /\ req[s].drops.request = RowsOf(requestOf, req[s].pilgrim)
      BY <2>1 DEF Knows, DropKnows, Dropped
    <2>3. CASE p # req[s].pilgrim
      <3>1. groupOf'[p] = groupOf[p] /\ roomOf'[p] = roomOf[p] /\ requestOf'[p] = requestOf[p]
        BY <2>1, <2>2, <2>3 DEF CommitDrops, Without, RowsOf
      <3> QED BY <1>4, <3>1
    <2>4. CASE p = req[s].pilgrim
      <3>1. roomOf'[p] = None /\ requestOf'[p] = None
        BY <2>1, <2>2, <2>4 DEF CommitDrops, Without, RowsOf
      <3> QED BY <3>1 DEF RoomsWithItsGroup
    <2> QED BY <2>3, <2>4
  <1>10. CASE InsertRoomMember(s)
    <2>1. /\ groupOf[req[s].pilgrim] = req[s].group /\ GroupOfRoom[req[s].room] = req[s].group
          /\ UNCHANGED <<groupOf, requestOf>>
      BY <1>10 DEF InsertRoomMember, Running, Knows, RoomKnows, RoomOfGroup
    <2>2. roomOf'[p] = roomOf[p] \/ (p = req[s].pilgrim /\ roomOf'[p] = req[s].room)
      BY <1>1, <1>10 DEF InsertRoomMember, TakeBed, TablesOK
    <2> QED BY <1>4, <2>1, <2>2 DEF RoomsWithItsGroup
  <1>11. CASE InsertRequestMember(s)
    <2>1. /\ groupOf[req[s].pilgrim] = req[s].group
          /\ GroupOfRequest[req[s].request] = req[s].group
          /\ UNCHANGED <<groupOf, roomOf>>
      BY <1>11 DEF InsertRequestMember, Running, Knows, RoomKnows, RequestOfGroup
    <2>2. requestOf'[p] = requestOf[p] \/ (p = req[s].pilgrim /\ requestOf'[p] = req[s].request)
      BY <1>1, <1>11 DEF InsertRequestMember, TakeRequest, TablesOK
    <2> QED BY <1>4, <2>1, <2>2 DEF RoomsWithItsGroup
  <1>12. ASSUME GroupWrite(s), ~InsertMember(s), ~DeleteMember(s), ~CommitRemoveGroup(s),
                ~InsertRoomMember(s), ~InsertRequestMember(s)
         PROVE  UNCHANGED placeVars
    BY <1>12 DEF GroupWrite, WriteStatus, WriteGuide
  <1>13. ASSUME PilgrimWrite(s), ~CommitRemoval(s)
         PROVE  UNCHANGED placeVars
    BY <1>13 DEF PilgrimWrite, WriteAgency, WriteLog
  <1>14. CASE UNCHANGED placeVars BY <1>4, <1>14 DEF placeVars
  <1> QED BY <1>5, <1>6, <1>7, <1>8, <1>9, <1>10, <1>11, <1>12, <1>13, <1>14, StepWrites

\* Served one by one, the handlers leave a pilgrim with a bed or a room request in a group it is
\* not a member of only in removePilgrimFromGroup: releaseGroup and removeFromAgency delete all
\* three rows, and a bed is given to members only.
THEOREM AloneBedsFollow ==
  ASSUME NEW x, Sessions = {x}
  PROVE  Spec => OnlyRemovalLeavesBeds
  <1> DEFINE I == TypeOK /\ Knows(req[x]) /\ FreshHaveNoGuide
  <1>1. ASSUME I, [Next]_vars
        PROVE  \A p \in Pilgrims :
                 RoomsWithItsGroup(p) /\ ~RoomsWithItsGroup(p)'
                   => \E s \in Sessions : /\ Running(s, "removePilgrimFromGroup", "delete")
                                          /\ req[s].pilgrim = p
    BY <1>1, BedsStep
  <1> HIDE DEF I
  <1>2. Spec => []I BY AlwaysKnows DEF I
  <1> QED BY <1>1, <1>2, PTL DEF Spec, OnlyRemovalLeavesBeds, RoomsWithItsGroup

-----------------------------------------------------------------------------
(* Agencies, members and guides *)

\* What is known of a pilgrim whose agency an admin sets.
LEMMA SetAgencyKnows ==
  ASSUME NEW s \in Sessions, TypeOK, Knows(req[s]),
         WriteAgency(s, "setAgency", "update", req[s].agency)
  PROVE  /\ req[s].pilgrim \in gone \/ agencyOf[req[s].pilgrim] = None
         /\ Running(s, "setAgency", "update")
  <1>1. Running(s, "setAgency", "update") BY DEF WriteAgency
  <1>2. AgencySeen(req[s].pilgrim) = None BY <1>1 DEF Running, Knows, AdminKnows
  <1> QED BY <1>1, <1>2 DEF AgencySeen

LEMMA SplitMemberStep ==
  ASSUME NEW s, Sessions = {s}, TypeOK, Knows(req[s]), [Next]_vars
  PROVE  \A p \in Pilgrims :
           MemberOfOwnAgency(p) /\ ~MemberOfOwnAgency(p)' => AdminRewritesAgency(p)
  <1> SUFFICES ASSUME NEW p \in Pilgrims, MemberOfOwnAgency(p), ~AdminRewritesAgency(p)
               PROVE  MemberOfOwnAgency(p)'
    OBVIOUS
  <1>1. req[s] \in Calls /\ NamesItsRows(req[s]) /\ TablesOK
    BY DEF TypeOK, CallsOK
  <1>2. groupOf[p] # None => AgencyOfGroup[groupOf[p]] \in Agencies
    BY <1>1, TablesAssumption DEF TablesOK
  <1>3. ASSUME groupOf'[p] \in {groupOf[p], None}, agencyOf'[p] = agencyOf[p]
        PROVE  MemberOfOwnAgency(p)'
    BY <1>3 DEF MemberOfOwnAgency
  <1>4. CASE CreateGroup \/ ReturnDatePasses \/ Calm
    BY <1>3, <1>4 DEF CreateGroup, ReturnDatePasses, Calm, placeVars, pilgrimVars
  <1>5. CASE InsertMember(s)
    <2>1. /\ agencyOf[req[s].pilgrim] = AgencyOfGroup[req[s].group]
          /\ UNCHANGED agencyOf
      BY <1>5 DEF InsertMember, Running, Knows, JoinKnows, pilgrimVars
    <2>2. groupOf'[p] = groupOf[p] \/ (p = req[s].pilgrim /\ groupOf'[p] = req[s].group)
      BY <1>1, <1>5 DEF InsertMember, TablesOK
    <2> QED BY <1>3, <2>1, <2>2 DEF MemberOfOwnAgency
  <1>6. CASE DeleteMember(s)
    <2>1. groupOf'[p] \in {groupOf[p], None} BY <1>6, WithoutCalm DEF DeleteMember
    <2> QED BY <1>3, <1>6, <2>1 DEF DeleteMember, pilgrimVars
  <1>7. CASE CommitRemoveGroup(s)
    <2>1. groupOf'[p] \in {groupOf[p], None}
      BY <1>7, WithoutCalm DEF CommitRemoveGroup, CommitDrops
    <2> QED BY <1>3, <1>7, <2>1 DEF CommitRemoveGroup, pilgrimVars
  <1>8. CASE CommitRemoval(s)
    <2>1. /\ req[s].op = "removeFromAgency" /\ req[s].at = "commit" /\ CommitDrops(s)
          /\ agencyOf' = [agencyOf EXCEPT ![req[s].pilgrim] = None]
      BY <1>8 DEF CommitRemoval, Running
    <2>2. req[s].drops.group = RowsOf(groupOf, req[s].pilgrim)
      BY <2>1 DEF Knows, DropKnows, Dropped
    <2>3. CASE p # req[s].pilgrim
      <3>1. groupOf'[p] = groupOf[p] BY <2>1, <2>2, <2>3 DEF CommitDrops, Without, RowsOf
      <3>2. agencyOf'[p] = agencyOf[p] BY <1>1, <2>1, <2>3 DEF TablesOK
      <3> QED BY <1>3, <3>1, <3>2
    <2>4. CASE p = req[s].pilgrim
      <3>1. groupOf'[p] = None BY <2>1, <2>2, <2>4 DEF CommitDrops, Without, RowsOf
      <3> QED BY <3>1 DEF MemberOfOwnAgency
    <2> QED BY <2>3, <2>4
  <1>9. CASE WriteAgency(s, "setAgency", "update", req[s].agency)
    <2>1. UNCHANGED groupOf BY <1>9 DEF WriteAgency, placeVars
    <2>2. CASE p # req[s].pilgrim
      <3>1. agencyOf'[p] = agencyOf[p] BY <1>1, <1>9, <2>2 DEF WriteAgency, TablesOK
      <3> QED BY <1>3, <2>1, <3>1
    <2>3. CASE p = req[s].pilgrim
      <3>1. agencyOf[p] = None BY <1>9, <2>3, SetAgencyKnows DEF AdminRewritesAgency
      <3>2. groupOf[p] = None BY <1>2, <3>1, TablesAssumption DEF MemberOfOwnAgency
      <3> QED BY <2>1, <3>2 DEF MemberOfOwnAgency
    <2> QED BY <2>2, <2>3
  <1>10. CASE WriteAgency(s, "removeAgency", "update", None)
    <2>1. p # req[s].pilgrim BY <1>10 DEF WriteAgency, AdminRewritesAgency
    <2>2. agencyOf'[p] = agencyOf[p] /\ UNCHANGED groupOf
      BY <1>1, <1>10, <2>1 DEF WriteAgency, TablesOK, placeVars
    <2> QED BY <1>3, <2>2
  <1>11. ASSUME GroupWrite(s), ~InsertMember(s), ~DeleteMember(s), ~CommitRemoveGroup(s)
         PROVE  UNCHANGED <<groupOf, agencyOf>>
    BY <1>11 DEF GroupWrite, WriteStatus, WriteGuide, InsertRoomMember, InsertRequestMember,
                 placeVars, pilgrimVars
  <1>12. CASE WriteLog(s, "setAgency", "SET") \/ WriteLog(s, "removeAgency", "REMOVE")
    BY <1>3, <1>12 DEF WriteLog, placeVars
  <1> QED BY <1>3, <1>4, <1>5, <1>6, <1>7, <1>8, <1>9, <1>10, <1>11, <1>12, StepWrites
          DEF PilgrimWrite

LEMMA SplitGuideStep ==
  ASSUME NEW s, Sessions = {s}, TypeOK, Knows(req[s]), FreshHaveNoGuide, [Next]_vars
  PROVE  \A g \in Groups :
           GuidedByOwn(g) /\ ~GuidedByOwn(g)'
             => \/ AdminRewritesAgency(guideOf[g])
                \/ \E x \in Sessions : \/ Running(x, "updateGuide", "update")
                                       \/ Running(x, "changeStatus", "update")
  <1> SUFFICES ASSUME NEW g \in Groups, GuidedByOwn(g), ~AdminRewritesAgency(guideOf[g]),
                      ~Running(s, "updateGuide", "update"),
                      ~Running(s, "changeStatus", "update")
               PROVE  GuidedByOwn(g)'
    OBVIOUS
  <1>1. req[s] \in Calls /\ NamesItsRows(req[s]) /\ TablesOK
    BY DEF TypeOK, CallsOK
  <1>2. AgencyOfGroup[g] \in Agencies /\ None \notin Agencies \cup Pilgrims
    BY TablesAssumption
  <1>3. ASSUME groups' \subseteq groups, over \subseteq over', guideOf'[g] = guideOf[g],
               \/ agencyOf'[guideOf[g]] = agencyOf[guideOf[g]]
               \/ guideOf[g] = None \/ g \notin groups \ over
        PROVE  GuidedByOwn(g)'
    BY <1>3 DEF GuidedByOwn
  <1>4. CASE CreateGroup
    <2>1. PICK x \in Groups \cap fresh : groups' = groups \cup {x} BY <1>4 DEF CreateGroup
    <2>2. guideOf[x] = None BY <2>1 DEF FreshHaveNoGuide
    <2>3. UNCHANGED <<over, guideOf, agencyOf>> BY <1>4 DEF CreateGroup, pilgrimVars
    <2> QED BY <2>1, <2>2, <2>3 DEF GuidedByOwn
  <1>5. CASE ReturnDatePasses \/ Calm
    BY <1>3, <1>5 DEF ReturnDatePasses, Calm, pilgrimVars
  <1>6. CASE WriteGuide(s, "assignGuide", req[s].pilgrim)
    <2>1. agencyOf[req[s].pilgrim] = AgencyOfGroup[req[s].group]
      BY <1>6 DEF WriteGuide, Running, Knows, GuideKnows
    <2>2. UNCHANGED <<groups, over, agencyOf>> BY <1>6 DEF WriteGuide, pilgrimVars
    <2>3. guideOf'[g] = guideOf[g] \/ (g = req[s].group /\ guideOf'[g] = req[s].pilgrim)
      BY <1>1, <1>6 DEF WriteGuide, TablesOK
    <2> QED BY <2>1, <2>2, <2>3 DEF GuidedByOwn
  <1>7. CASE WriteGuide(s, "unassignGuide", None)
    <2>1. UNCHANGED <<groups, over, agencyOf>> BY <1>7 DEF WriteGuide, pilgrimVars
    <2>2. guideOf'[g] \in {guideOf[g], None} BY <1>1, <1>7 DEF WriteGuide, TablesOK
    <2> QED BY <2>1, <2>2 DEF GuidedByOwn
  <1>8. CASE CommitRemoval(s)
    <2>1. /\ req[s].op = "removeFromAgency" /\ req[s].at = "commit"
          /\ agencyOf' = [agencyOf EXCEPT ![req[s].pilgrim] = None]
          /\ UNCHANGED <<groups, over, guideOf>>
      BY <1>8 DEF CommitRemoval, Running, groupVars
    <2>2. ~LeadsLiveGroup(req[s].pilgrim) BY <2>1 DEF Knows, DropKnows
    <2>3. g \in groups \ over => guideOf[g] # req[s].pilgrim BY <2>2 DEF LeadsLiveGroup
    <2>4. guideOf[g] # None => guideOf[g] \in Pilgrims BY <1>1 DEF TablesOK
    <2>5. guideOf[g] # None /\ guideOf[g] # req[s].pilgrim
            => agencyOf'[guideOf[g]] = agencyOf[guideOf[g]]
      BY <1>1, <2>1, <2>4 DEF TablesOK
    <2> QED BY <1>3, <2>1, <2>3, <2>5
  <1>9. ASSUME NEW op, NEW at, NEW a, WriteAgency(s, op, at, a),
               guideOf[g] # None /\ g \in groups \ over => guideOf[g] # req[s].pilgrim
        PROVE  GuidedByOwn(g)'
    <2>1. guideOf[g] # None => guideOf[g] \in Pilgrims BY <1>1 DEF TablesOK
    <2>2. UNCHANGED <<groups, over, guideOf>> BY <1>9 DEF WriteAgency, groupVars
    <2>3. guideOf[g] # None /\ guideOf[g] # req[s].pilgrim
            => agencyOf'[guideOf[g]] = agencyOf[guideOf[g]]
      BY <1>1, <1>9, <2>1 DEF WriteAgency, TablesOK
    <2> QED BY <1>3, <1>9, <2>2, <2>3
  <1>10. CASE WriteAgency(s, "setAgency", "update", req[s].agency)
    <2>1. guideOf[g] = req[s].pilgrim => agencyOf[guideOf[g]] = None
      BY <1>10, SetAgencyKnows DEF AdminRewritesAgency
    <2>2. guideOf[g] # None /\ g \in groups \ over => guideOf[g] # req[s].pilgrim
      BY <1>2, <2>1 DEF GuidedByOwn
    <2>3. PICK a : a = req[s].agency OBVIOUS
    <2> QED BY <1>9, <1>10, <2>2, <2>3
  <1>11. CASE WriteAgency(s, "removeAgency", "update", None)
    <2>1. guideOf[g] # req[s].pilgrim BY <1>11 DEF WriteAgency, AdminRewritesAgency
    <2> QED BY <1>9, <1>11, <2>1
  <1>12. CASE CommitRemoveGroup(s)
    BY <1>3, <1>12 DEF CommitRemoveGroup, pilgrimVars
  <1>13. CASE \/ InsertMember(s) \/ DeleteMember(s)
              \/ InsertRoomMember(s) \/ InsertRequestMember(s)
    <2>1. UNCHANGED <<groups, over, guideOf, agencyOf>>
      BY <1>13 DEF InsertMember, DeleteMember, InsertRoomMember, InsertRequestMember, groupVars,
                   pilgrimVars
    <2> QED BY <1>3, <2>1
  <1>14. CASE WriteLog(s, "setAgency", "SET") \/ WriteLog(s, "removeAgency", "REMOVE")
    BY <1>3, <1>14 DEF WriteLog, groupVars
  <1>15. ~WriteStatus(s) /\ ~WriteGuide(s, "updateGuide", req[s].pilgrim)
    BY DEF WriteStatus, WriteGuide
  <1> QED BY <1>4, <1>5, <1>6, <1>7, <1>8, <1>10, <1>11, <1>12, <1>13, <1>14, <1>15, StepWrites
          DEF GroupWrite, PilgrimWrite

\* Served one by one, the handlers part a member from the group's agency, or a group under way
\* from a guide of its own agency, only where an admin rewrites the agency, or where update,
\* changeStatus or the passing of a return date skip assignGuide's checks: joining checks the
\* agency, setAgency finds none, and a guide of a group under way is not removed.
THEOREM AloneOnlyAdminSplits ==
  ASSUME NEW x, Sessions = {x}
  PROVE  Spec => OnlyAdminSplits
  <1> DEFINE I == TypeOK /\ Knows(req[x]) /\ FreshHaveNoGuide
  <1>1. ASSUME I, [Next]_vars
        PROVE  \A p \in Pilgrims :
                 MemberOfOwnAgency(p) /\ ~MemberOfOwnAgency(p)' => AdminRewritesAgency(p)
    BY <1>1, SplitMemberStep
  <1>2. ASSUME I, [Next]_vars
        PROVE  \A g \in Groups :
                 GuidedByOwn(g) /\ ~GuidedByOwn(g)'
                   => \/ AdminRewritesAgency(guideOf[g])
                      \/ \E s \in Sessions : \/ Running(s, "updateGuide", "update")
                                             \/ Running(s, "changeStatus", "update")
    BY <1>2, SplitGuideStep
  <1> HIDE DEF I
  <1>3. Spec => []I BY AlwaysKnows DEF I
  <1> QED BY <1>1, <1>2, <1>3, PTL
          DEF Spec, OnlyAdminSplits, OnlyAdminSplitsMember, OnlyAdminSplitsGuide,
              MemberOfOwnAgency, GuidedByOwn

-----------------------------------------------------------------------------
(* The history log *)

\* After the update of the agency comes its log row.
LEMMA LogIsNext ==
  ASSUME NEW s \in Sessions, TypeOK, Knows(req[s]), req[s].at = "log", Serve(s)
  PROVE  WriteLog(s, "setAgency", "SET") \/ WriteLog(s, "removeAgency", "REMOVE")
  <1>1. req[s].op \in {"setAgency", "removeAgency"} BY DEF Knows, AdminKnows
  <1>2. \A call : ~Begin(s, call) BY DEF Begin, NoCall, Call
  <1>3. ~GroupRoutes(s)
    BY <1>1, <1>2
    DEF GroupRoutes, AssignGuide, UnassignGuide, UpdateGuide, AddPilgrimToGroup,
        RemovePilgrimFromGroup, RemoveGroup, BeginRemoveGroup, CommitRemoveGroup, DropIn, Check,
        ReadPilgrim, WriteGuide, InsertMember, DeleteMember, Running
  <1>4. ~RoomRoutes(s)
    BY <1>1, <1>2
    DEF RoomRoutes, CreateRooms, DeleteRoom, AddRoomMember, RemoveRoomMember, Check,
        InsertRooms, DeleteRoomRow, InsertRoomMember, DeleteRoomMember, Running
  <1>5. ~RoomRequestRoutes(s)
    BY <1>1, <1>2
    DEF RoomRequestRoutes, CreateRoomRequest, DeleteRoomRequest, AddRoomRequestMember,
        RemoveRoomRequestMember, Check, InsertRequest, DeleteRequestRow, InsertRequestMember,
        DeleteRequestMember, Running
  <1>6. ~PilgrimRoutes(s)
    BY <1>1, <1>2
    DEF PilgrimRoutes, RemoveFromAgency, SetAsGuide, RemoveAsGuide, DropOwn, Check,
        CommitRemoval, RaiseGuideFlag, ClearGuideFlag, Running
  <1>7. AdminRoutes(s) => WriteLog(s, "setAgency", "SET") \/ WriteLog(s, "removeAgency", "REMOVE")
    BY <1>1, <1>2
    DEF AdminRoutes, ChangeStatus, SetAgency, RemoveAgency, ApproveDeleteRequest, WriteStatus,
        WriteAgency, CommitApproval, Running
  <1>8. ~InvitationRoutes(s)
    BY <1>1, <1>2
    DEF InvitationRoutes, CreateInvitation, RejectInvitation, AcceptInvitation, Check,
        InsertInvitation, WriteRejected, CommitAccept, Running
  <1>9. ~ProfileRoutes(s)
    BY <1>1, <1>2
    DEF ProfileRoutes, CreateDeleteRequest, CancelDeleteRequest, InsertDeletion,
        WriteCancelled, Running
  <1> QED BY <1>3, <1>4, <1>5, <1>6, <1>7, <1>8, <1>9 DEF Serve

LEMMA HistoryStep ==
  ASSUME NEW s, Sessions = {s}, "restart" \notin Ops, TypeOK, Knows(req[s]),
         HistoryFollows(s), [Next]_vars
  PROVE  HistoryFollows(s)'
  <1>1. s \in Sessions /\ req[s] \in Calls /\ TablesOK BY DEF TypeOK, CallsOK
  <1>2. ASSUME NEW p \in Pilgrims, agencyOf'[p] = agencyOf[p], history'[p] = history[p],
               HistoryTells(p)
        PROVE  HistoryTells(p)'
    BY <1>2 DEF HistoryTells, NoRow, LogRow
  <1>3. CASE UNCHANGED <<agencyOf, history, req>>
    BY <1>3 DEF HistoryFollows, HistoryTells, NoRow, LogRow
  <1>4. CASE Serve(s) /\ req[s].at = "log"
    <2>1. PICK action \in {"SET", "REMOVE"} :
            /\ action = "SET" => req[s].op = "setAgency"
            /\ action = "REMOVE" => req[s].op = "removeAgency"
            /\ history' = [history EXCEPT ![req[s].pilgrim] = LogRow(action, req[s].agency)]
            /\ UNCHANGED agencyOf
      BY <1>1, <1>4, LogIsNext DEF WriteLog, Running
    <2>2. /\ req[s].pilgrim \in Pilgrims
          /\ action = "SET" => agencyOf[req[s].pilgrim] = req[s].agency
          /\ action = "REMOVE" => agencyOf[req[s].pilgrim] = None
      BY <1>4, <2>1 DEF Knows, AdminKnows
    <2>3. history'[req[s].pilgrim] = LogRow(action, req[s].agency)
      BY <1>1, <2>1, <2>2 DEF TablesOK
    <2>4. agencyOf'[req[s].pilgrim] =
            IF history'[req[s].pilgrim].action = "REMOVE" THEN None
            ELSE history'[req[s].pilgrim].agency
      BY <2>1, <2>2, <2>3 DEF LogRow
    <2>5. ASSUME NEW p \in Pilgrims PROVE HistoryTells(p)'
      <3>1. CASE p = req[s].pilgrim BY <2>4, <3>1 DEF HistoryTells
      <3>2. CASE p # req[s].pilgrim
        <4>1. history'[p] = history[p] BY <1>1, <2>1, <3>2 DEF TablesOK
        <4>2. HistoryTells(p) BY <3>2 DEF HistoryFollows
        <4> QED BY <1>2, <2>1, <4>1, <4>2
      <3> QED BY <3>1, <3>2
    <2> QED BY <2>5 DEF HistoryFollows
  <1>5. CASE Serve(s) /\ req[s].at # "log"
    <2>1. \A p \in Pilgrims : HistoryTells(p) BY <1>5 DEF HistoryFollows
    <2>2. CASE UNCHANGED <<agencyOf, history>> BY <1>2, <2>1, <2>2 DEF HistoryFollows
    <2>3. CASE CommitRemoval(s)
      <3>1. ASSUME NEW p \in Pilgrims PROVE HistoryTells(p)'
        <4>1. CASE p = req[s].pilgrim
          <5>1. agencyOf'[p] = None /\ history'[p] = LogRow("REMOVE", req[s].agency)
            BY <1>1, <2>3, <4>1 DEF CommitRemoval, TablesOK
          <5> QED BY <5>1 DEF HistoryTells, LogRow
        <4>2. CASE p # req[s].pilgrim
          <5>1. agencyOf'[p] = agencyOf[p] /\ history'[p] = history[p]
            BY <1>1, <2>3, <4>2 DEF CommitRemoval, TablesOK
          <5> QED BY <1>2, <2>1, <5>1
        <4> QED BY <4>1, <4>2
      <3> QED BY <3>1 DEF HistoryFollows
    <2>4. ASSUME NEW op, NEW a, WriteAgency(s, op, "update", a)
          PROVE  HistoryFollows(s)'
      <3>1. req'[s].at = "log" /\ req'[s].pilgrim = req[s].pilgrim
        BY <1>1, <2>4 DEF WriteAgency, GoTo, TypeOK, CallsOK, Calls
      <3>2. ASSUME NEW p \in Pilgrims, p # req[s].pilgrim PROVE HistoryTells(p)'
        <4>1. agencyOf'[p] = agencyOf[p] /\ history'[p] = history[p]
          BY <1>1, <2>4, <3>2 DEF WriteAgency, TablesOK
        <4> QED BY <1>2, <2>1, <4>1
      <3> QED BY <3>1, <3>2 DEF HistoryFollows
    <2>5. CASE WriteAgency(s, "setAgency", "update", req[s].agency)
      <3>1. PICK a : a = req[s].agency OBVIOUS
      <3> QED BY <2>4, <2>5, <3>1
    <2>6. CASE Calm \/ GroupWrite(s)
      <3>1. UNCHANGED <<agencyOf, history>>
        BY <2>6 DEF Calm, GroupWrite, WriteStatus, WriteGuide, InsertMember, DeleteMember,
                    CommitRemoveGroup, InsertRoomMember, InsertRequestMember, pilgrimVars
      <3> QED BY <2>2, <3>1
    <2>7. ~WriteLog(s, "setAgency", "SET") /\ ~WriteLog(s, "removeAgency", "REMOVE")
      BY <1>5 DEF WriteLog, Running
    <2> QED BY <1>1, <1>5, <2>3, <2>4, <2>5, <2>6, <2>7, ServeWrites DEF PilgrimWrite
  <1>6. CASE CreateGroup \/ ReturnDatePasses \/ UNCHANGED vars
    BY <1>3, <1>6 DEF CreateGroup, ReturnDatePasses, vars, tables, pilgrimVars
  <1>7. ~Restart BY DEF Restart
  <1> QED BY <1>4, <1>5, <1>6, <1>7 DEF Next

\* Served one by one and with no restart between an update and its log row, the handlers leave a
\* history whose last row tells the pilgrim's agency, whenever no admin's request is between the
\* two.
THEOREM AloneLogTellsAgency ==
  ASSUME NEW x, Sessions = {x}, "restart" \notin Ops
  PROVE  Spec => []LogTellsAgency
  <1> DEFINE I == TypeOK /\ Knows(req[x]) /\ FreshHaveNoGuide
  <1>1. Init => HistoryFollows(x)
    BY DEF Init, HistoryFollows, HistoryTells
  <1>2. I /\ HistoryFollows(x) /\ [Next]_vars => HistoryFollows(x)'
    BY HistoryStep
  <1>3. HistoryFollows(x) => LogTellsAgency
    BY DEF HistoryFollows, HistoryTells, LogTellsAgency
  <1> HIDE DEF I
  <1>4. Spec => []I BY AlwaysKnows DEF I
  <1> QED BY <1>1, <1>2, <1>3, <1>4, PTL DEF Spec

=============================================================================
