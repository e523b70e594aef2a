---------------------------- MODULE Affiliation ----------------------------
(***************************************************************************)
(* Which agency a pilgrim belongs to, and who may guide: the pilgrims      *)
(* services of agencies and admins, invitations, and the history log.      *)
(***************************************************************************)
EXTENDS AgencyTables

\* ownPilgrim
OwnPilgrim(p, a) == p \notin gone /\ agencyOf[p] = a

LogRow(action, a) == [action |-> action, agency |-> a]

\* CHECK constraint on pilgrim_agency_history.action
HistoryActions == {"SET", "REMOVE"}

-----------------------------------------------------------------------------
(* agencies/pilgrims.service *)

LeadsEndedGroup(p) == \E g \in groups \cap over : guideOf[g] = p   \* mutant

LeadsLiveGroup(p) == \E g \in groups \ over : guideOf[g] = p

RowsOf(place, p) == IF place[p] = None THEN {} ELSE {p}

DropOwn(s, at, table, place, next) ==
  /\ Running(s, "removeFromAgency", at)
  /\ Drop(s, table, RowsOf(place, req[s].pilgrim), next)

\* The pilgrim's row, its log row, COMMIT.
CommitRemoval(s) ==
  /\ Running(s, "removeFromAgency", "commit")
  /\ CommitDrops(s)
  /\ agencyOf' = [agencyOf EXCEPT ![req[s].pilgrim] = None]
  /\ guides' = guides \ {req[s].pilgrim}
  /\ history' = [history EXCEPT ![req[s].pilgrim] = LogRow("REMOVE", req[s].agency)]
  /\ Reply(s)
  /\ UNCHANGED <<fresh, groupVars, roomVars, gone, invitation, deletion>>

RemoveFromAgency(s) ==
  \/ \E a \in Agencies, p \in Pilgrims :
       /\ OwnPilgrim(p, a)
       /\ Begin(s, CallOnPilgrim("removeFromAgency", "leads", a, p))
  \/ Check(s, "removeFromAgency", "leads", ~LeadsLiveGroup(req[s].pilgrim),
           "room_members")
  \/ DropOwn(s, "room_members", "room", roomOf, "room_request_members")
  \/ DropOwn(s, "room_request_members", "request", requestOf, "group_members")
  \/ DropOwn(s, "group_members", "group", groupOf, "commit")
  \/ CommitRemoval(s)

RaiseGuideFlag(s) ==
  /\ Running(s, "setAsGuide", "update")
  /\ guides' = guides \cup {req[s].pilgrim}
  /\ Reply(s)
  /\ UNCHANGED <<fresh, groupVars, placeVars, roomVars, agencyOf, gone, history,
                 invitation, deletion>>

SetAsGuide(s) ==
  \/ \E a \in Agencies, p \in Pilgrims :
       /\ OwnPilgrim(p, a)
       /\ Begin(s, CallOnPilgrim("setAsGuide", "update", a, p))
  \/ RaiseGuideFlag(s)

ClearGuideFlag(s) ==
  /\ Running(s, "removeAsGuide", "update")
  /\ guides' = guides \ {req[s].pilgrim}
  /\ Reply(s)
  /\ UNCHANGED <<fresh, groupVars, placeVars, roomVars, agencyOf, gone, history,
                 invitation, deletion>>

RemoveAsGuide(s) ==
  \/ \E a \in Agencies, p \in Pilgrims :
       /\ OwnPilgrim(p, a)
       /\ Begin(s, CallOnPilgrim("removeAsGuide", "update", a, p))
  \/ ClearGuideFlag(s)

-----------------------------------------------------------------------------
(* admins/pilgrims.service: neither handler opens a transaction *)

\* mutant: an agency_id of undefined, which knex leaves out of the UPDATE
WriteAgencyUnlessNull(s, op, at, a) ==
  /\ Running(s, op, at)
  /\ agencyOf' = IF a = None THEN agencyOf ELSE [agencyOf EXCEPT ![req[s].pilgrim] = a]
  /\ GoTo(s, "log")
  /\ UNCHANGED <<fresh, groupVars, placeVars, roomVars, guides, gone, history,
                 invitation, deletion>>

\* The update and the log row are two statements.
WriteAgency(s, op, at, a) ==
  /\ Running(s, op, at)
  /\ agencyOf' = [agencyOf EXCEPT ![req[s].pilgrim] = a]
  /\ GoTo(s, "log")
  /\ UNCHANGED <<fresh, groupVars, placeVars, roomVars, guides, gone, history,
                 invitation, deletion>>

WriteLog(s, op, action) ==
  /\ Running(s, op, "log")
  /\ history' = [history EXCEPT ![req[s].pilgrim] = LogRow(action, req[s].agency)]
  /\ Reply(s)
  /\ UNCHANGED <<fresh, groupVars, placeVars, roomVars, agencyOf, guides, gone,
                 invitation, deletion>>

\* findById does not see a soft-deleted pilgrim, and pilgrim?.agency_id of
\* nothing is no agency.
AgencySeen(p) == IF p \in gone THEN None ELSE agencyOf[p]

SetAgency(s) ==
  \/ \E a \in Agencies, p \in Pilgrims :
       /\ AgencySeen(p) = None
       /\ Begin(s, CallOnPilgrim("setAgency", "update", a, p))
  \/ WriteAgency(s, "setAgency", "update", req[s].agency)
  \/ WriteLog(s, "setAgency", "SET")

RemoveAgency(s) ==
  \/ \E p \in Pilgrims :
       Begin(s, CallOnPilgrim("removeAgency", "update", AgencySeen(p), p))
  \/ WriteAgency(s, "removeAgency", "update", None)
  \/ WriteLog(s, "removeAgency", "REMOVE")

-----------------------------------------------------------------------------
(* Invitations: unique (pilgrim_id, agency_id) whatever the status *)

InsertInvitation(s) ==
  /\ Running(s, "invite", "insert")
  /\ invitation' = IF invitation[<<req[s].pilgrim, req[s].agency>>] = "none"
                   THEN [invitation EXCEPT ![<<req[s].pilgrim, req[s].agency>>] = "PENDING"]
                   ELSE invitation                \* 23505
  /\ Reply(s)
  /\ UNCHANGED <<fresh, groupVars, placeVars, roomVars, pilgrimVars, deletion>>

CreateInvitation(s) ==
  \/ \E a \in Agencies, p \in Pilgrims :
       /\ p \notin gone /\ agencyOf[p] = None
       /\ Begin(s, CallOnPilgrim("invite", "pending", a, p))
  \/ Check(s, "invite", "pending",
           invitation[<<req[s].pilgrim, req[s].agency>>] # "PENDING", "insert")
  \/ InsertInvitation(s)

WriteRejected(s) ==
  /\ Running(s, "reject", "update")
  /\ invitation' = [invitation EXCEPT ![<<req[s].pilgrim, req[s].agency>>] = "REJECTED"]
  /\ Reply(s)
  /\ UNCHANGED <<fresh, groupVars, placeVars, roomVars, pilgrimVars, deletion>>

\* The invitation is read before the transaction; the update does not look at
\* its status again.
RejectInvitation(s) ==
  \/ \E a \in Agencies, p \in Pilgrims \ gone :
       /\ invitation[<<p, a>>] = "PENDING"
       /\ Begin(s, CallOnPilgrim("reject", "update", a, p))
  \/ WriteRejected(s)

\* The transaction ends with a log row whose action is 'assigned'.
CommitAccept(s) ==
  LET p == req[s].pilgrim
      a == req[s].agency
  IN
  /\ Running(s, "accept", "commit")
  /\ IF "assigned" \in HistoryActions
     THEN /\ invitation' = [invitation EXCEPT ![<<p, a>>] = "ACCEPTED"]
          /\ agencyOf' = [agencyOf EXCEPT ![p] = a]
          /\ history' = [history EXCEPT ![p] = LogRow("assigned", a)]
     ELSE UNCHANGED <<invitation, agencyOf, history>>    \* 23514: rolled back
  /\ Reply(s)
  /\ UNCHANGED <<fresh, groupVars, placeVars, roomVars, guides, gone, deletion>>

AcceptInvitation(s) ==
  \/ \E a \in Agencies, p \in Pilgrims \ gone :
       /\ invitation[<<p, a>>] = "PENDING"
       /\ Begin(s, CallOnPilgrim("accept", "pilgrim", a, p))
  \/ Check(s, "accept", "pilgrim", AgencySeen(req[s].pilgrim) = None, "commit")
  \/ CommitAccept(s)

=============================================================================
