--------------------------- MODULE MCAgencyBackend ---------------------------
(***************************************************************************)
(* Small instances of AgencyBackend.  A configuration picks the operations *)
(* that overlap and how many requests are served at a time.                *)
(***************************************************************************)
EXTENDS AgencyBackend, TLC

CONSTANTS a1, a2, g1, g2, p1, p2, p3, r1, r2, q1, q2, d1, d2

MCAgencyOfGroup == [g \in Groups |-> IF g = g1 THEN a1 ELSE a2]
MCRoomsOfOneGroup == [r \in Rooms |-> g1]
MCRequestsOfOneGroup == [q \in RoomRequests |-> g1]
MCCapacity == [r \in Rooms |-> 1]
MCPilgrimOfDeletion == [d \in DeleteRequests |-> p1]

\* Sessions are interchangeable, and so are pilgrims that no deletion request
\* names.
SymmetricSessions == Permutations(Sessions)
SymmetricBoth == Permutations(Sessions) \cup Permutations({p2, p3})

Racing == {"addPilgrimToGroup", "removeGroup", "createRooms", "deleteRoom",
           "addRoomMember", "removeRoomMember"}

Calling(ops) == \A s \in Sessions : req[s].op \in ops \cup {"idle"}
PeopleUntouched == /\ over = {} /\ guides = {} /\ gone = {}
                   /\ \A g \in Groups : guideOf[g] = None
                   /\ \A p \in Pilgrims : history[p].action = "none"
                   /\ \A pa \in DOMAIN invitation : invitation[pa] = "none"
                   /\ \A d \in DeleteRequests : deletion[d] = "none"
Alone == \E s \in Sessions : \A t \in Sessions \ {s} : req[t] = NoCall
PlacesUntouched == /\ Rooms \subseteq fresh /\ \A s \in Sessions : req[s].pilgrim \in {None, p1}
                   /\ \A p \in Pilgrims \ {p1} : agencyOf[p] = None /\ groupOf[p] = None

\* The bound: a behaviour fills the rooms of one group with pilgrims of its agency, or is about the guide, the agency,
\* the invitations and the deletion of one pilgrim, one request at a time.
OneHalf == \/ Calling(Racing) /\ PeopleUntouched /\ \A p \in Pilgrims : agencyOf[p] = a1
           \/ Alone /\ PlacesUntouched

=============================================================================
