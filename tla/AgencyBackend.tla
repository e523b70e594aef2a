--------------------------- MODULE AgencyBackend ---------------------------
(***************************************************************************)
(* The handlers that write an agency's groups, rooms, pilgrims and account *)
(* deletions, served together.                                             *)
(***************************************************************************)
EXTENDS GroupMembership, Rooming, Affiliation, AccountDeletion

NoRow == LogRow("none", None)

Init == /\ fresh = Groups \cup Rooms \cup RoomRequests \cup DeleteRequests
        /\ groups = {} /\ over = {} /\ rooms = {} /\ requests = {}
        /\ guideOf = [g \in Groups |-> None]
        /\ groupOf = [p \in Pilgrims |-> None]
        /\ roomOf = [p \in Pilgrims |-> None]
        /\ requestOf = [p \in Pilgrims |-> None]
        /\ agencyOf \in [Pilgrims -> Agencies \cup {None}]
        /\ guides = {} /\ gone = {}
        /\ history = [p \in Pilgrims |-> NoRow]
        /\ invitation = [pa \in Pilgrims \X Agencies |-> "none"]
        /\ deletion = [d \in DeleteRequests |-> "none"]
        /\ req = [s \in Sessions |-> NoCall]

\* The process stops (a deploy, a crash): open transactions roll back and no
\* request is resumed.
Restart == /\ "restart" \in Ops
           /\ req' = [s \in Sessions |-> NoCall]
           /\ UNCHANGED tables

\* The routes by controller: of the agency's groups, rooms and pilgrims, of the admins, and of
\* both sides' invitations and account deletions.
GroupRoutes(s) == \/ AssignGuide(s) \/ UnassignGuide(s) \/ UpdateGuide(s)
                  \/ AddPilgrimToGroup(s) \/ RemovePilgrimFromGroup(s) \/ RemoveGroup(s)
RoomRoutes(s) == \/ CreateRooms(s) \/ DeleteRoom(s) \/ AddRoomMember(s) \/ RemoveRoomMember(s)
RoomRequestRoutes(s) == \/ CreateRoomRequest(s) \/ DeleteRoomRequest(s)
                        \/ AddRoomRequestMember(s) \/ RemoveRoomRequestMember(s)
PilgrimRoutes(s) == RemoveFromAgency(s) \/ SetAsGuide(s) \/ RemoveAsGuide(s)
AdminRoutes(s) == ChangeStatus(s) \/ SetAgency(s) \/ RemoveAgency(s) \/ ApproveDeleteRequest(s)
InvitationRoutes(s) == CreateInvitation(s) \/ RejectInvitation(s) \/ AcceptInvitation(s)
ProfileRoutes(s) == CreateDeleteRequest(s) \/ CancelDeleteRequest(s)

Serve(s) == \/ GroupRoutes(s) \/ RoomRoutes(s) \/ RoomRequestRoutes(s) \/ PilgrimRoutes(s)
            \/ AdminRoutes(s) \/ InvitationRoutes(s) \/ ProfileRoutes(s)

Next == \/ CreateGroup \/ ReturnDatePasses \/ Restart
        \/ \E s \in Sessions : Serve(s)

Spec == Init /\ [][Next]_vars

\* Nobody has to call, but a request that has begun is carried on: the event
\* loop resumes every awaited statement, and Postgres serves lock waiters.
FairSpec == Spec /\ \A s \in Sessions : WF_vars(req[s] # NoCall /\ Serve(s))

-----------------------------------------------------------------------------
(* Types *)

Steps == {"idle", "guide", "update", "pilgrim", "member", "insert", "delete",
          "room_members", "room_request_members", "group_members", "commit",
          "room", "count", "existing", "request", "leads", "log", "pending"}

Calls == [op : Ops \cup {"idle"}, at : Steps, agency : Agencies \cup {None},
          group : Groups \cup {None}, pilgrim : Pilgrims \cup {None},
          room : Rooms \cup {None}, request : RoomRequests \cup {None},
          deletion : DeleteRequests \cup {None},
          drops : [group : SUBSET Pilgrims, room : SUBSET Pilgrims,
                   request : SUBSET Pilgrims]]

LogRows == [action : HistoryActions \cup {"none"}, agency : Agencies \cup {None}]

TablesOK ==
  /\ fresh \subseteq Groups \cup Rooms \cup RoomRequests \cup DeleteRequests
  /\ groups \subseteq Groups /\ over \subseteq Groups
  /\ guideOf \in [Groups -> Pilgrims \cup {None}]
  /\ groupOf \in [Pilgrims -> Groups \cup {None}]
  /\ rooms \subseteq Rooms /\ requests \subseteq RoomRequests
  /\ roomOf \in [Pilgrims -> Rooms \cup {None}]
  /\ requestOf \in [Pilgrims -> RoomRequests \cup {None}]
  /\ agencyOf \in [Pilgrims -> Agencies \cup {None}]
  /\ guides \subseteq Pilgrims /\ gone \subseteq Pilgrims
  /\ history \in [Pilgrims -> LogRows]
  /\ invitation \in [Pilgrims \X Agencies -> {"none", "PENDING", "REJECTED", "ACCEPTED"}]
  /\ deletion \in [DeleteRequests -> {"none", "PENDING", "APPROVED", "CANCELLED"}]

\* The path parameters of a request are there from its first statement on.
NamesItsRows(c) ==
  /\ c.op \in {"addPilgrimToGroup", "addRoomMember", "addRoomRequestMember", "setAsGuide",
              "removeAsGuide", "removeFromAgency", "approveDeleteRequest"}
       => c.pilgrim \in Pilgrims
  /\ c.op \in {"changeStatus", "removeGroup"} => c.group \in Groups

CallsOK == /\ req \in [Sessions -> Calls]
           /\ \A s \in Sessions : NamesItsRows(req[s])

TypeOK == TablesOK /\ CallsOK

-----------------------------------------------------------------------------
(* Room capacity.  addRoomMember counts the members of a room, then makes   *)
(* another query, then inserts: whoever passes the count in between gets in *)
(* too.                                                                     *)

PastCount(r) == {s \in Sessions : /\ req[s].op = "addRoomMember"
                                  /\ req[s].at \in {"existing", "insert"}
                                  /\ req[s].room = r}

\* However requests overlap, a room never holds more than its capacity and one
\* pilgrim for each other request served at the time; when requests are served
\* one by one it never holds more than its capacity (groups.service, the count
\* at "Room is at full capacity").
OverbookingBounded ==
  \A r \in Rooms : Cardinality(RoomMembers(r)) <= Capacity[r] + Cardinality(Sessions) - 1

\* The inductive form: every request past the count is as good as a member.
BedsPromised ==
  \A r \in Rooms :
    Cardinality(RoomMembers(r)) + Cardinality(PastCount(r))
      <= Capacity[r] + Cardinality(Sessions) - 1

-----------------------------------------------------------------------------
(* The three membership tables as place books *)

RoomBook == INSTANCE PlaceBook WITH
  Guests <- Pilgrims, Places <- Rooms, Nowhere <- None, open <- rooms, place <- roomOf
RequestBook == INSTANCE PlaceBook WITH
  Guests <- Pilgrims, Places <- RoomRequests, Nowhere <- None,
  open <- requests, place <- requestOf
GroupBook == INSTANCE PlaceBook WITH
  Guests <- Pilgrims, Places <- Groups, Nowhere <- None, open <- groups, place <- groupOf

\* A pilgrim is in one room at a time, gets in only while the room exists and
\* has left any other before, and deleting a room frees its members, whatever
\* runs at the same time (the unique key and the cascade of migration 036).
RoomsKeepTheBook == RoomBook!Spec

\* The same of room requests (migration 031).
RequestsKeepTheBook == RequestBook!Spec

\* Groups are soft-deleted, so nothing in the database closes them: the book is
\* kept by addPilgrimToGroup's check and by releaseGroup, which is enough when
\* requests are served one by one.
GroupsKeepTheBook == GroupBook!Spec

\* releaseGroup "frees every pilgrim of a group that is being deleted":
\* a deleted group holds nobody (migration 073).
DeletedGroupHoldsNobody == GroupBook!NobodyOutside

-----------------------------------------------------------------------------
(* Rooms follow groups *)

\* A pilgrim's room and room request are those of the pilgrim's group.
RoomsWithItsGroup(p) ==
  /\ roomOf[p] # None => GroupOfRoom[roomOf[p]] = groupOf[p]
  /\ requestOf[p] # None => GroupOfRequest[requestOf[p]] = groupOf[p]

\* "Pilgrim is not a member of this group" is refused a bed, and releaseGroup's
\* comment names what a bed left behind does: it keeps the pilgrim out of every
\* other group's rooms.
RoomersAreMembers == \A p \in Pilgrims : RoomsWithItsGroup(p)

\* With requests served one by one, a pilgrim is left with a bed in a group it
\* is not a member of only by removePilgrimFromGroup, which deletes the
\* group_members row alone; deleting the group and leaving the agency do not.
OnlyRemovalLeavesBeds ==
  [][\A p \in Pilgrims :
       RoomsWithItsGroup(p) /\ ~RoomsWithItsGroup(p)'
         => \E s \in Sessions : /\ Running(s, "removePilgrimFromGroup", "delete")
                                /\ req[s].pilgrim = p]_vars

-----------------------------------------------------------------------------
(* Agencies, members and guides *)

\* The admin handlers that change the agency of a pilgrim that has one:
\* removeAgency, and setAgency on a soft-deleted pilgrim, which findById hides.
AdminRewritesAgency(p) ==
  \E s \in Sessions : /\ req[s].pilgrim = p
                      /\ \/ Running(s, "removeAgency", "update")
                         \/ Running(s, "setAgency", "update") /\ p \in gone

MemberOfOwnAgency(p) == groupOf[p] # None => agencyOf[p] = AgencyOfGroup[groupOf[p]]

\* With requests served one by one, a member of a group belongs to the group's
\* agency until an admin rewrites the agency: that writes the pilgrim's row and
\* leaves the membership.
OnlyAdminSplitsMember ==
  [][\A p \in Pilgrims :
       MemberOfOwnAgency(p) /\ ~MemberOfOwnAgency(p)'
         => AdminRewritesAgency(p)]_vars

GuidedByOwn(g) ==
  g \in groups \ over /\ guideOf[g] # None => agencyOf[guideOf[g]] = AgencyOfGroup[g]

\* With requests served one by one, a group under way loses a guide of its own
\* agency only through an admin, through update, which takes any
\* guide_pilgrim_id, or by coming back from CANCELLED or from a past return
\* date; the check in removeFromAgency stops everything else.
OnlyAdminSplitsGuide ==
  [][\A g \in Groups :
       GuidedByOwn(g) /\ ~GuidedByOwn(g)'
         => \/ AdminRewritesAgency(guideOf[g])
            \/ \E s \in Sessions : \/ Running(s, "updateGuide", "update")
                                   \/ Running(s, "changeStatus", "update")]_vars

\* Both: agencies, memberships and guides part at the hands of an admin, or through the two
\* handlers that write a group without assignGuide's checks.
OnlyAdminSplits == OnlyAdminSplitsMember /\ OnlyAdminSplitsGuide

\* Between admin requests the last row of the history log tells the agency: SET
\* names it, REMOVE says there is none.
LogTellsAgency ==
  (\A s \in Sessions : req[s].at # "log")
    => \A p \in Pilgrims : history[p] # NoRow
         => agencyOf[p] = IF history[p].action = "REMOVE" THEN None ELSE history[p].agency

\* "If accepted, update pilgrim's agency_id": an accept that ends has made the
\* pilgrim one of the agency.
AcceptJoins ==
  [][\A s \in Sessions : Running(s, "accept", "commit") /\ req'[s] = NoCall
       => agencyOf'[req[s].pilgrim] = req[s].agency]_vars

-----------------------------------------------------------------------------
(* Account deletion *)

\* "The pilgrim may CANCEL a still-pending request" (migration 064), so an
\* approval stands.
ApprovalStands ==
  [][\A d \in DeleteRequests : deletion[d] = "APPROVED" => deletion'[d] = "APPROVED"]_vars

-----------------------------------------------------------------------------
(* Progress *)

\* No request hangs: row locks are waited for in one order (rooms, requests,
\* group members), so no two transactions wait for each other.
RequestsEnd == \A s \in Sessions : req[s] # NoCall ~> req[s] = NoCall

=============================================================================
