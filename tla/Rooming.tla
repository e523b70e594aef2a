------------------------------ MODULE Rooming ------------------------------
(***************************************************************************)
(* Rooms and room requests of a group, and who is in them: the second half *)
(* of agencies/groups.service, RoomsDao and RoomRequestsDao.               *)
(***************************************************************************)
EXTENDS AgencyTables

\* The three reads every handler on an existing room or request starts with
\* fail unless the row exists and belongs to the group of the path.
RoomOfGroup(r, g) == r \in rooms /\ GroupOfRoom[r] = g
RequestOfGroup(q, g) == q \in requests /\ GroupOfRequest[q] = g

OwnGroups == {g \in Groups : \E a \in Agencies : OwnGroup(g, a)}

-----------------------------------------------------------------------------
(* Rooms *)

\* One INSERT for the whole list, which may be empty.  Soft-deleting the group
\* in between does not stop it: the foreign key still finds the row.
InsertRooms(s) ==
  /\ Running(s, "createRooms", "insert")
  /\ \E R \in SUBSET {r \in Rooms \cap fresh : GroupOfRoom[r] = req[s].group} :
       /\ rooms' = rooms \cup R
       /\ fresh' = fresh \ R
  /\ Reply(s)
  /\ UNCHANGED <<groupVars, placeVars, requests, pilgrimVars, invitation, deletion>>

CreateRooms(s) ==
  \/ \E g \in OwnGroups : Begin(s, CallOnRoom("createRooms", "insert", g, None, None))
  \/ InsertRooms(s)

NoCascade(r) == roomOf   \* mutant

\* room_members.room_id is ON DELETE CASCADE.
CascadeRoom(r) == Without(roomOf, RoomMembers(r))

DeleteRoomRow(s) ==
  /\ Running(s, "deleteRoom", "delete")
  /\ \A p \in RoomMembers(req[s].room) : ~Locked("room", p)
  /\ rooms' = rooms \ {req[s].room}
  /\ roomOf' = CascadeRoom(req[s].room)
  /\ Reply(s)
  /\ UNCHANGED <<fresh, groupVars, groupOf, requestOf, requests, pilgrimVars,
                 invitation, deletion>>

DeleteRoom(s) ==
  \/ \E g \in OwnGroups, r \in Rooms :
       Begin(s, CallOnRoom("deleteRoom", "room", g, r, None))
  \/ Check(s, "deleteRoom", "room", RoomOfGroup(req[s].room, req[s].group), "delete")
  \/ DeleteRoomRow(s)

SpaceForOneMore(r) == Cardinality(RoomMembers(r)) <= Capacity[r]   \* mutant

HasSpace(r) == Cardinality(RoomMembers(r)) < Capacity[r]

\* The INSERT: room_members is unique per pilgrim_id, and its room_id must
\* still name a row.
TakeBed(p, r) == IF roomOf[p] = None /\ r \in rooms
                 THEN [roomOf EXCEPT ![p] = r]
                 ELSE roomOf

InsertRoomMember(s) ==
  /\ Running(s, "addRoomMember", "insert")
  /\ ~Locked("room", req[s].pilgrim)
  /\ roomOf' = TakeBed(req[s].pilgrim, req[s].room)
  /\ Reply(s)
  /\ UNCHANGED <<fresh, groupVars, groupOf, requestOf, roomVars, pilgrimVars,
                 invitation, deletion>>

AddRoomMember(s) ==
  \/ \E g \in OwnGroups, r \in Rooms, p \in Pilgrims :
       Begin(s, CallOnRoom("addRoomMember", "room", g, r, p))
  \/ Check(s, "addRoomMember", "room", RoomOfGroup(req[s].room, req[s].group), "member")
  \/ Check(s, "addRoomMember", "member",
           groupOf[req[s].pilgrim] = req[s].group, "count")
  \/ Check(s, "addRoomMember", "count", HasSpace(req[s].room), "existing")
  \/ Check(s, "addRoomMember", "existing", roomOf[req[s].pilgrim] = None, "insert")
  \/ InsertRoomMember(s)

\* The DELETE names the pilgrim only.
DeleteRoomMember(s) ==
  /\ Running(s, "removeRoomMember", "delete")
  /\ ~Locked("room", req[s].pilgrim)
  /\ roomOf' = Without(roomOf, {req[s].pilgrim})
  /\ Reply(s)
  /\ UNCHANGED <<fresh, groupVars, groupOf, requestOf, roomVars, pilgrimVars,
                 invitation, deletion>>

RemoveRoomMember(s) ==
  \/ \E g \in OwnGroups, r \in Rooms, p \in Pilgrims :
       Begin(s, CallOnRoom("removeRoomMember", "room", g, r, p))
  \/ Check(s, "removeRoomMember", "room", RoomOfGroup(req[s].room, req[s].group),
           "existing")
  \/ Check(s, "removeRoomMember", "existing", roomOf[req[s].pilgrim] = req[s].room,
           "delete")
  \/ DeleteRoomMember(s)

-----------------------------------------------------------------------------
(* Room requests: the same shape without a capacity or a transaction *)

\* Q is empty when the instance has no id left.
InsertRequest(s) ==
  /\ Running(s, "createRoomRequest", "insert")
  /\ \E Q \in SUBSET {q \in RoomRequests \cap fresh : GroupOfRequest[q] = req[s].group} :
       /\ Cardinality(Q) <= 1
       /\ requests' = requests \cup Q
       /\ fresh' = fresh \ Q
  /\ Reply(s)
  /\ UNCHANGED <<groupVars, placeVars, rooms, pilgrimVars, invitation, deletion>>

CreateRoomRequest(s) ==
  \/ \E g \in OwnGroups :
       Begin(s, CallOnRequest("createRoomRequest", "insert", g, None, None))
  \/ InsertRequest(s)

DeleteRequestRow(s) ==
  LET P == {p \in Pilgrims : requestOf[p] = req[s].request} IN
  /\ Running(s, "deleteRoomRequest", "delete")
  /\ \A p \in P : ~Locked("request", p)
  /\ requests' = requests \ {req[s].request}
  /\ requestOf' = Without(requestOf, P)
  /\ Reply(s)
  /\ UNCHANGED <<fresh, groupVars, groupOf, roomOf, rooms, pilgrimVars,
                 invitation, deletion>>

DeleteRoomRequest(s) ==
  \/ \E g \in OwnGroups, q \in RoomRequests :
       Begin(s, CallOnRequest("deleteRoomRequest", "request", g, q, None))
  \/ Check(s, "deleteRoomRequest", "request",
           RequestOfGroup(req[s].request, req[s].group), "delete")
  \/ DeleteRequestRow(s)

TakeRequestAgain(p, q) ==   \* mutant
  IF q \in requests THEN [requestOf EXCEPT ![p] = q] ELSE requestOf

TakeRequest(p, q) == IF requestOf[p] = None /\ q \in requests
                     THEN [requestOf EXCEPT ![p] = q]
                     ELSE requestOf

InsertRequestMember(s) ==
  /\ Running(s, "addRoomRequestMember", "insert")
  /\ ~Locked("request", req[s].pilgrim)
  /\ requestOf' = TakeRequest(req[s].pilgrim, req[s].request)
  /\ Reply(s)
  /\ UNCHANGED <<fresh, groupVars, groupOf, roomOf, roomVars, pilgrimVars,
                 invitation, deletion>>

AddRoomRequestMember(s) ==
  \/ \E g \in OwnGroups, q \in RoomRequests, p \in Pilgrims :
       Begin(s, CallOnRequest("addRoomRequestMember", "request", g, q, p))
  \/ Check(s, "addRoomRequestMember", "request",
           RequestOfGroup(req[s].request, req[s].group), "member")
  \/ Check(s, "addRoomRequestMember", "member",
           groupOf[req[s].pilgrim] = req[s].group, "existing")
  \/ Check(s, "addRoomRequestMember", "existing",
           requestOf[req[s].pilgrim] = None, "insert")
  \/ InsertRequestMember(s)

DeleteRequestMember(s) ==
  /\ Running(s, "removeRoomRequestMember", "delete")
  /\ ~Locked("request", req[s].pilgrim)
  /\ requestOf' = Without(requestOf, {req[s].pilgrim})
  /\ Reply(s)
  /\ UNCHANGED <<fresh, groupVars, groupOf, roomOf, roomVars, pilgrimVars,
                 invitation, deletion>>

RemoveRoomRequestMember(s) ==
  \/ \E g \in OwnGroups, q \in RoomRequests, p \in Pilgrims :
       Begin(s, CallOnRequest("removeRoomRequestMember", "request", g, q, p))
  \/ Check(s, "removeRoomRequestMember", "request",
           RequestOfGroup(req[s].request, req[s].group), "existing")
  \/ Check(s, "removeRoomRequestMember", "existing",
           requestOf[req[s].pilgrim] = req[s].request, "delete")
  \/ DeleteRequestMember(s)

=============================================================================
