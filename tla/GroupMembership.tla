-------------------------- MODULE GroupMembership --------------------------
(***************************************************************************)
(* Groups and their members: agencies/groups.service, admins/groups        *)
(* service, and the group half of GroupMembersDao.                         *)
(***************************************************************************)
EXTENDS AgencyTables

\* create: the group row (and its voice key) in one transaction.
CreateGroup == /\ "createGroup" \in Ops
               /\ \E g \in Groups \cap fresh :
                    /\ fresh' = fresh \ {g}
                    /\ groups' = groups \cup {g}
               /\ UNCHANGED <<over, guideOf, placeVars, roomVars, pilgrimVars,
                              invitation, deletion, req>>

\* The return date of a group passes.
ReturnDatePasses == /\ "changeStatus" \in Ops
                    /\ \E g \in groups \ over : over' = over \cup {g}
                    /\ UNCHANGED <<fresh, groups, guideOf, placeVars, roomVars,
                                   pilgrimVars, invitation, deletion, req>>

WriteStatus(s) ==
  /\ Running(s, "changeStatus", "update")
  /\ over' \in {over \cup {req[s].group}, over \ {req[s].group}}
  /\ Reply(s)
  /\ UNCHANGED <<fresh, groups, guideOf, placeVars, roomVars, pilgrimVars,
                 invitation, deletion>>

\* changeStatus, and update with a status or a date: CANCELLED or back, to the
\* past or the future.
ChangeStatus(s) ==
  \/ \E g \in groups :
       Begin(s, CallOnGroup("changeStatus", "update", None, g, None))
  \/ WriteStatus(s)

-----------------------------------------------------------------------------
(* The guide of a group *)

WriteGuide(s, op, p) ==
  /\ Running(s, op, "update")
  /\ guideOf' = [guideOf EXCEPT ![req[s].group] = p]
  /\ Reply(s)
  /\ UNCHANGED <<fresh, groups, over, placeVars, roomVars, pilgrimVars,
                 invitation, deletion>>

\* The guide is a live pilgrim of the agency with the guide flag.
MayGuide(p, a) == p \notin gone /\ agencyOf[p] = a /\ p \in guides

AssignGuide(s) ==
  \/ \E a \in Agencies, g \in Groups, p \in Pilgrims :
       /\ OwnGroup(g, a)
       /\ Begin(s, CallOnGroup("assignGuide", "guide", a, g, p))
  \/ Check(s, "assignGuide", "guide", MayGuide(req[s].pilgrim, req[s].agency), "update")
  \/ WriteGuide(s, "assignGuide", req[s].pilgrim)

UnassignGuide(s) ==
  \/ \E a \in Agencies, g \in Groups :
       /\ OwnGroup(g, a)
       /\ Begin(s, CallOnGroup("unassignGuide", "update", None, g, None))
  \/ WriteGuide(s, "unassignGuide", None)

\* update: the DTO's guide_pilgrim_id goes straight into the row.
UpdateGuide(s) ==
  \/ \E a \in Agencies, g \in Groups, p \in Pilgrims :
       /\ OwnGroup(g, a)
       /\ Begin(s, CallOnGroup("updateGuide", "update", None, g, p))
  \/ WriteGuide(s, "updateGuide", req[s].pilgrim)

-----------------------------------------------------------------------------
(* Members *)

AgencyUnchecked(s) == groupOf[req[s].pilgrim] = None   \* mutant

\* In no group yet, and of the group's agency as far as the row read says.
MayJoin(s) == /\ groupOf[req[s].pilgrim] = None
              /\ req[s].agency = AgencyOfGroup[req[s].group]

\* findById(pilgrimId): MayJoin compares the agency of the row it returned.
ReadPilgrim(s) ==
  /\ Running(s, "addPilgrimToGroup", "pilgrim")
  /\ IF req[s].pilgrim \in gone
     THEN Reply(s)
     ELSE req' = [req EXCEPT ![s].at = "member", ![s].agency = agencyOf[req[s].pilgrim]]
  /\ UNCHANGED tables

\* The unique key refuses a second row: 23505, rolled back.
InsertMember(s) ==
  /\ Running(s, "addPilgrimToGroup", "insert")
  /\ ~Locked("group", req[s].pilgrim)
  /\ groupOf' = IF groupOf[req[s].pilgrim] = None
                THEN [groupOf EXCEPT ![req[s].pilgrim] = req[s].group]
                ELSE groupOf
  /\ Reply(s)
  /\ UNCHANGED <<fresh, groupVars, roomOf, requestOf, roomVars, pilgrimVars,
                 invitation, deletion>>

AddPilgrimToGroup(s) ==
  \/ \E a \in Agencies, g \in Groups, p \in Pilgrims :
       /\ OwnGroup(g, a)
       /\ Begin(s, CallOnGroup("addPilgrimToGroup", "pilgrim", None, g, p))
  \/ ReadPilgrim(s)
  \/ Check(s, "addPilgrimToGroup", "member", MayJoin(s), "insert")
  \/ InsertMember(s)

\* Only the group_members row goes, whatever group it names by then.
DeleteMember(s) ==
  /\ Running(s, "removePilgrimFromGroup", "delete")
  /\ ~Locked("group", req[s].pilgrim)
  /\ groupOf' = Without(groupOf, {req[s].pilgrim})
  /\ Reply(s)
  /\ UNCHANGED <<fresh, groupVars, roomOf, requestOf, roomVars, pilgrimVars,
                 invitation, deletion>>

RemovePilgrimFromGroup(s) ==
  \/ \E a \in Agencies, g \in Groups, p \in Pilgrims :
       /\ OwnGroup(g, a)
       /\ Begin(s, CallOnGroup("removePilgrimFromGroup", "pilgrim", None, g, p))
  \/ Check(s, "removePilgrimFromGroup", "pilgrim", req[s].pilgrim \notin gone, "member")
  \/ Check(s, "removePilgrimFromGroup", "member",
           groupOf[req[s].pilgrim] = req[s].group, "delete")
  \/ DeleteMember(s)

-----------------------------------------------------------------------------
(* Deleting a group: releaseGroup's three deletes, then the soft delete *)

DropIn(s, at, table, victims, next) ==
  Running(s, "removeGroup", at) /\ Drop(s, table, victims, next)

CommitRemoveGroup(s) ==
  /\ Running(s, "removeGroup", "commit")
  /\ CommitDrops(s)
  /\ groups' = groups \ {req[s].group}
  /\ Reply(s)
  /\ UNCHANGED <<fresh, over, guideOf, roomVars, pilgrimVars, invitation, deletion>>

BeginRemoveGroup(s) ==
  \E a \in Agencies, g \in Groups :
    /\ OwnGroup(g, a)
    /\ Begin(s, CallOnGroup("removeGroup", "room_members", None, g, None))

\* mutant: the memberships are released before the request places
RemoveGroupReordered(s) ==
  LET g == req[s].group IN
  \/ BeginRemoveGroup(s)
  \/ DropIn(s, "room_members", "group", Members(g), "room_request_members")
  \/ DropIn(s, "room_request_members", "request", Requesters(g), "group_members")
  \/ DropIn(s, "group_members", "room", Occupants(g), "commit")
  \/ CommitRemoveGroup(s)

RemoveGroup(s) ==
  LET g == req[s].group IN
  \/ BeginRemoveGroup(s)
  \/ DropIn(s, "room_members", "room", Occupants(g), "room_request_members")
  \/ DropIn(s, "room_request_members", "request", Requesters(g), "group_members")
  \/ DropIn(s, "group_members", "group", Members(g), "commit")
  \/ CommitRemoveGroup(s)

=============================================================================
