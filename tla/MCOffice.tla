------------------------------ MODULE MCOffice ------------------------------
(***************************************************************************)
(* A small instance of Office, requests served one by one.                 *)
(***************************************************************************)
EXTENDS Office, TLC

CONSTANTS a1, a2, g1, g2, p1, r1, q1, d1, c1, m1, m2, x1, x2, x3

\* One group for each agency.
MCAgencyOfGroup == [g \in Groups |-> IF g = g1 THEN a1 ELSE a2]
MCGroupOfRoom == [r \in Rooms |-> g1]
MCGroupOfRequest == [q \in RoomRequests |-> g1]
MCCapacity == [r \in Rooms |-> 1]
MCPilgrimOfDeletion == [d \in DeleteRequests |-> p1]

\* The managers are interchangeable.
SymmetricManagers == Permutations({m1, m2})

NoAgencyYet == part = "staff" \/ \A p \in Pilgrims : agencyOf[p] = None
PlacesUntouched == rooms = {} /\ requests = {} /\ g2 \notin groups /\ groupOf[p1] = None
PeopleUntouched == /\ over = {} /\ guides = {} /\ gone = {}
                   /\ \A g \in Groups : guideOf[g] = None
                   /\ \A pa \in DOMAIN invitation : invitation[pa] = "none"
                   /\ \A d \in DeleteRequests : deletion[d] = "none"

\* The bound: a behaviour of the staff's part moves a pilgrim between two groups and rooms it, or
\* changes the guides, invitations and deletion of one group's pilgrims.
OneHalf == NoAgencyYet /\ (PlacesUntouched \/ PeopleUntouched)

\* The bound: what the list that is read does not show stays as it was.
OneList ==
  \A x \in Entries :
    /\ pilgrimRows[x].leads => pilgrimRows[x].guide
    /\ list = "free" => pilgrimRows[x].joined \in {None, 1}
    /\ list = "members" => pilgrimRows[x].at \in {None, 1}
    /\ list = "flagged" => taskRows[x].touched \in {None, taskRows[x].at}
    /\ list = "touched" => ~taskRows[x].flagged

\* The bound: the rows of a list are interchangeable, and x1 is never of the last time nor x2 of
\* the first.
NamedByAge ==
  LET L == Pages!Listed IN
    /\ x1 \in DOMAIN L => L[x1].time # 3
    /\ x2 \in DOMAIN L => L[x2].time # 1

=============================================================================
