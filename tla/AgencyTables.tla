---------------------------- MODULE AgencyTables ----------------------------
(***************************************************************************)
(* The Postgres tables behind an agency's groups, and the HTTP requests    *)
(* that are being served against them.                                     *)
(*                                                                         *)
(* The backend keeps no state of its own for these tables: a handler is a  *)
(* sequence of awaited SQL statements, and the event loop may serve other  *)
(* requests at each await.  A session is one such request in flight.  One  *)
(* step of the model is one SQL statement with the test the handler makes  *)
(* of its result; a transaction runs at READ COMMITTED, the default of     *)
(* src/core/database, so its statements read what has been committed so    *)
(* far and its writes are seen by others when it commits.                  *)
(*                                                                         *)
(* The handlers are in GroupMembership, Rooming, Affiliation and           *)
(* AccountDeletion; AgencyBackend composes them.                           *)
(***************************************************************************)
EXTENDS Naturals, FiniteSets

CONSTANTS
  Agencies, Groups, Pilgrims, Rooms, RoomRequests,   \* ids, handed out once
  DeleteRequests,   \* ids of account deletion requests
  Sessions,         \* requests served at a time; a pooled connection each
  None,             \* SQL null
  Ops,              \* the operations clients call in this instance
  AgencyOfGroup, GroupOfRoom, GroupOfRequest, Capacity, PilgrimOfDeletion
                    \* columns no handler writes after the insert

ASSUME TablesAssumption ==
  /\ AgencyOfGroup \in [Groups -> Agencies]
  /\ GroupOfRoom \in [Rooms -> Groups]
  /\ GroupOfRequest \in [RoomRequests -> Groups]
  /\ Capacity \in [Rooms -> Nat \ {0}]       \* @Min(1) in create-rooms.dto
  /\ PilgrimOfDeletion \in [DeleteRequests -> Pilgrims]
  /\ None \notin Agencies \cup Groups \cup Pilgrims \cup Rooms
                 \cup RoomRequests \cup DeleteRequests

ASSUME SessionsAssumption ==
  /\ IsFiniteSet(Sessions) /\ Sessions # {}
  /\ IsFiniteSet(Pilgrims)

VARIABLES
  fresh,       \* ids no row has used yet
  groups,      \* groups not soft-deleted
  over,        \* groups that are CANCELLED or past their return date
  guideOf,     \* groups.guide_pilgrim_id, nullable since migration 075
  groupOf,     \* group_members, unique per pilgrim_id
  rooms,       \* rows of rooms
  roomOf,      \* room_members, unique per pilgrim_id
  requests,    \* rows of room_requests
  requestOf,   \* room_request_members, unique per pilgrim_id
  agencyOf,    \* pilgrims.agency_id
  guides,      \* pilgrims with is_guide
  gone,        \* soft-deleted pilgrims
  history,     \* the latest pilgrim_agency_history row of each pilgrim
  invitation,  \* status of the one invitation row of a pilgrim and agency
  deletion,    \* status of each account deletion request
  req          \* the requests in flight

groupVars == <<groups, over, guideOf>>
placeVars == <<groupOf, roomOf, requestOf>>
roomVars == <<rooms, requests>>
pilgrimVars == <<agencyOf, guides, gone, history>>
tables == <<fresh, groupVars, placeVars, roomVars, pilgrimVars, invitation, deletion>>
vars == <<tables, req>>

-----------------------------------------------------------------------------
(* Requests *)

NoDrops == [group |-> {}, room |-> {}, request |-> {}]

\* A call names the statement it runs next (at), its path parameters, the
\* agency id it has read, and the pilgrims whose membership rows its open
\* transaction has deleted (drops).
Call(op, at, a, g, p, r, q, d) ==
  [op |-> op, at |-> at, agency |-> a, group |-> g, pilgrim |-> p, room |-> r,
   request |-> q, deletion |-> d, drops |-> NoDrops]

NoCall == Call("idle", "idle", None, None, None, None, None, None)

CallOnGroup(op, at, a, g, p) == Call(op, at, a, g, p, None, None, None)
CallOnRoom(op, at, g, r, p) == Call(op, at, None, g, p, r, None, None)
CallOnRequest(op, at, g, q, p) == Call(op, at, None, g, p, None, q, None)
CallOnPilgrim(op, at, a, p) == Call(op, at, a, None, p, None, None, None)
CallOnDeletion(op, at, p, d) == Call(op, at, None, None, p, None, None, d)

Running(s, op, at) == req[s].op = op /\ req[s].at = at

\* The first statement of a request, a read; a request it refuses leaves no
\* trace, so only accepted ones begin.
Begin(s, call) == /\ call.op \in Ops
                  /\ req[s] = NoCall
                  /\ req' = [req EXCEPT ![s] = call]
                  /\ UNCHANGED tables

GoTo(s, at) == req' = [req EXCEPT ![s].at = at]

Reply(s) == req' = [req EXCEPT ![s] = NoCall]

\* A read and the test of what it returned: a failed test throws, which rolls
\* back the transaction if there is one and ends the request.
Check(s, op, at, test, next) == /\ Running(s, op, at)
                                /\ IF test THEN GoTo(s, next) ELSE Reply(s)
                                /\ UNCHANGED tables

-----------------------------------------------------------------------------
(* Rows of the membership tables *)

DroppedKeys(place, P) == [p \in Pilgrims \ P |-> place[p]]   \* mutant

Without(place, P) == [p \in Pilgrims |-> IF p \in P THEN None ELSE place[p]]

\* A row deleted by an open transaction is locked until it commits: another
\* delete of it, or an insert with the same unique key, waits.
Locked(table, p) == \E s \in Sessions : p \in req[s].drops[table]

RoomMembers(r) == {p \in Pilgrims : roomOf[p] = r}

NoOccupants(g) == {}   \* mutant

Occupants(g) == {p \in Pilgrims : roomOf[p] \in {r \in Rooms : GroupOfRoom[r] = g}}

Requesters(g) ==
  {p \in Pilgrims : requestOf[p] \in {q \in RoomRequests : GroupOfRequest[q] = g}}

NoMembers(g) == {}   \* mutant

Members(g) == {p \in Pilgrims : groupOf[p] = g}

Deleted(call, table, victims, next) ==
  [call EXCEPT !.at = next, !.drops = [@ EXCEPT ![table] = victims]]

\* DELETE FROM one of the membership tables inside session s's transaction.
Drop(s, table, victims, next) ==
  /\ \A p \in victims : ~Locked(table, p)
  /\ req' = [req EXCEPT ![s] = Deleted(req[s], table, victims, next)]
  /\ UNCHANGED tables

\* What COMMIT makes of those deletes.
CommitDrops(s) == /\ groupOf' = Without(groupOf, req[s].drops.group)
                  /\ roomOf' = Without(roomOf, req[s].drops.room)
                  /\ requestOf' = Without(requestOf, req[s].drops.request)

-----------------------------------------------------------------------------
(* The group a caller of agency a may name: verifyGroupOwnership, findOne *)

OwnGroup(g, a) == g \in groups /\ AgencyOfGroup[g] = a

=============================================================================
