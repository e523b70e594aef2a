------------------------------- MODULE Office -------------------------------
(***************************************************************************)
(* What an agency's staff work with: their tasks, the groups, rooms and    *)
(* pilgrims, the trips with the dashboards, and the paginated lists.  The  *)
(* parts share no table here, so nothing one does changes another, and a   *)
(* behaviour is of one.                                                    *)
(***************************************************************************)
EXTENDS Tasks

CONSTANTS
  \* of AgencyBackend
  Agencies, Groups, Pilgrims, Rooms, RoomRequests, DeleteRequests, Ops,
  AgencyOfGroup, GroupOfRoom, GroupOfRequest, Capacity, PilgrimOfDeletion,
  \* of Trips
  Tours, DayLength, Offset, Validity, LastTime, Departures, Returns, Expiries,
  \* of Listings
  Entries, Times, PageSize, MaxMoves

VARIABLES
  \* of AgencyBackend
  fresh, groups, over, guideOf, groupOf, rooms, roomOf, requests, requestOf,
  agencyOf, guides, gone, history, invitation, deletion, calls,
  \* of Trips
  now, trip, memberOf, papers, expires, board,
  \* of Listings
  list, pilgrimRows, groupRows, requestRows, taskRows, logRows, walk,
  part   \* the one this behaviour is of

Staff == INSTANCE AgencyBackend WITH req <- calls
Tour == INSTANCE Trips WITH Groups <- Tours
Pages == INSTANCE Listings WITH Rows <- Entries, pilgrim <- pilgrimRows, group <- groupRows,
                                request <- requestRows, task <- taskRows, log <- logRows

ASSUME StaffAssumption == Staff!TablesAssumption /\ Staff!SessionsAssumption
ASSUME TourAssumption == Tour!TripsAssumption
ASSUME PagesAssumption == Pages!ListsAssumption

staffVars == <<fresh, groups, over, guideOf, groupOf, rooms, roomOf, requests, requestOf,
               agencyOf, guides, gone, history, invitation, deletion, calls>>
tourVars == <<now, trip, memberOf, papers, expires, board>>
pageVars == <<list, pilgrimRows, groupRows, requestRows, taskRows, logRows, walk>>

\* The list that is read is chosen in a behaviour of the lists only.
OfficeInit == /\ part \in {"tasks", "staff", "trips", "lists"}
              /\ Init /\ Staff!Init /\ Tour!Init /\ Pages!Init
              /\ part # "lists" => list = "log"

OfficeNext ==
  /\ \/ part = "tasks" /\ Next /\ UNCHANGED <<staffVars, tourVars, pageVars>>
     \/ part = "staff" /\ Staff!Next /\ UNCHANGED <<vars, tourVars, pageVars>>
     \/ part = "trips" /\ Tour!Next /\ UNCHANGED <<vars, staffVars, pageVars>>
     \/ part = "lists" /\ Pages!Next /\ UNCHANGED <<vars, staffVars, tourVars>>
  /\ UNCHANGED part

OfficeSpec == OfficeInit /\ [][OfficeNext]_<<vars, staffVars, tourVars, pageVars, part>>

-----------------------------------------------------------------------------
(* The properties of the parts, stated there. *)

\* With requests served one by one the history log tells each pilgrim's agency.
LogTellsAgency == Staff!LogTellsAgency

\* With requests served one by one groups and their members keep the place book.
GroupsKeepTheBook == Staff!GroupsKeepTheBook

\* With requests served one by one only removePilgrimFromGroup leaves a bed behind.
OnlyRemovalLeavesBeds == Staff!OnlyRemovalLeavesBeds

\* With requests served one by one only an admin, or a write of a group that skips
\* assignGuide's checks, parts agencies from members and guides.
OnlyAdminSplits == Staff!OnlyAdminSplits

\* The numbers of one dashboard fit each other.
NumbersAgree == Tour!NumbersAgree

\* A group in preparation is left out of the upcoming ones only shortly before it departs.
LeftOutAtNight == Tour!LeftOutAtNight

\* Turning the pages misses no row that kept its place, but for what moved meanwhile.
PagesMissOnlyTheMoved == Pages!PagesMissOnlyTheMoved

=============================================================================
