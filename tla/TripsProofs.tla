---------------------------- MODULE TripsProofs ----------------------------
(***************************************************************************)
(* Theorems about Trips: the numbers of one dashboard fit each other, and  *)
(* a group leaves the upcoming ones only shortly before it departs.        *)
(*                                                                         *)
(* The invariant is TripsTypes, the shape of the rows, and BoardFits: what *)
(* an undisturbed dashboard has read is what the tables still say.         *)
(***************************************************************************)
EXTENDS Trips, TLAPS

-----------------------------------------------------------------------------
(* Days *)

\* A day begins at or before its times, and the next one after them.
LEMMA DayBounds ==
  ASSUME TripsAssumption, NEW t \in Int
  PROVE  /\ Day(t) \in Int
         /\ DayLength * Day(t) <= t
         /\ t < DayLength * Day(t) + DayLength
  BY SMT DEF Day, TripsAssumption

\* A later day has later times only.
LEMMA LaterDay ==
  ASSUME TripsAssumption, NEW t \in Int, NEW u \in Int, Day(t) < Day(u)
  PROVE  t < u
<1>1. /\ Day(t) \in Int /\ Day(u) \in Int /\ DayLength \in Nat
      /\ t < DayLength * Day(t) + DayLength
      /\ DayLength * Day(u) <= u
  BY DayBounds DEF TripsAssumption
<1>2. DayLength * (Day(t) + 1) <= DayLength * Day(u)
  <2>1. ASSUME NEW a \in Int, NEW b \in Int, NEW n \in Nat, a + 1 <= b
        PROVE  n * (a + 1) <= n * b
    BY <2>1, SMT
  <2>2. QED  BY <1>1, <2>1
<1>3. DayLength * (Day(t) + 1) = DayLength * Day(t) + DayLength
  BY <1>1
<1>4. QED  BY <1>1, <1>2, <1>3

\* Moving a time by the offset moves its day by one at most.
LEMMA OffsetDays ==
  ASSUME TripsAssumption, NEW t \in Int
  PROVE  /\ LocalDay(t) \in Int /\ LocalDay(t) >= Day(t) - 1
         /\ Today(t) \in Int /\ Today(t) <= Day(t) + 1
<1>1. /\ Day(t) \in Int /\ DayLength \in Nat \ {0} /\ Offset \in Int /\ Offset <= DayLength
      /\ t - Offset \in Int /\ t + Offset \in Int
      /\ t - DayLength \in Int /\ t + DayLength \in Int
  BY DayBounds DEF TripsAssumption
<1>2. Day(t - DayLength) = Day(t) - 1 /\ Day(t + DayLength) = Day(t) + 1
  BY <1>1, SMT DEF Day
<1>3. ~(Day(t - Offset) < Day(t - DayLength))
  BY <1>1, LaterDay
<1>4. ~(Day(t + DayLength) < Day(t + Offset))
  BY <1>1, LaterDay
<1>5. QED  BY <1>1, <1>2, <1>3, <1>4, DayBounds DEF LocalDay, Today

-----------------------------------------------------------------------------
(* The invariant *)

TripRows == [departs : Int, returns : Int, stored : {"none", "FORMING", "CANCELLED"}]
Queries == {"nothing", "groups", "passports", "onTrip", "statuses", "visas"}
RowStatuses == GroupStatuses \cup {"none"}
GroupRows == [status : RowStatuses, departs : Int, members : SUBSET Pilgrims, ready : SUBSET Pilgrims]
PassportRows == [members : SUBSET Pilgrims, missing : SUBSET Pilgrims, expired : SUBSET Pilgrims,
                 short : SUBSET Pilgrims, valid : SUBSET Pilgrims]
TotalRows == [statuses : [Groups -> RowStatuses], onTrip : SUBSET Pilgrims, visas : SUBSET Pilgrims]
Boards == [todo : SUBSET Queries, groups : [Groups -> GroupRows], passports : PassportRows,
           totals : TotalRows, undisturbed : BOOLEAN]

TripsTypes == /\ now \in Int
              /\ trip \in [Groups -> TripRows]
              /\ memberOf \in [Pilgrims -> Groups \cup {None}]
              /\ expires \in [Pilgrims -> Int \cup {None}]
              /\ board \in Boards

\* What each query of a dashboard would answer now.
GroupsNow == [g \in Groups |-> IF g \in Live THEN GroupRow(g) ELSE NoGroupRow]
Held == {p \in Travellers(PassportTrips) : expires[p] # None}
Valid == {p \in Held : PassportOk(p, memberOf[p])}
Expired == {p \in Held : expires[p] < Today(now)}
PassportsNow == [members |-> Travellers(PassportTrips), missing |-> Travellers(PassportTrips) \ Held,
                 expired |-> Expired, short |-> {p \in Held \ Valid : expires[p] >= Today(now)},
                 valid |-> Valid]
StatusesNow == [g \in Groups |-> IF g \in Live THEN Status(g) ELSE "none"]

AgencyQueries == {"groups", "passports"}
AdminQueries == {"onTrip", "statuses", "visas"}

AgencyFits ==
  /\ board.todo \subseteq AgencyQueries
  /\ board.totals = NoTotals
  /\ board.undisturbed => /\ "groups" \in board.todo \/ board.groups = GroupsNow
                          /\ "passports" \in board.todo \/ board.passports = PassportsNow

AdminFits ==
  /\ board.todo \subseteq AdminQueries
  /\ board.groups = [g \in Groups |-> NoGroupRow] /\ board.passports = NoPassports
  /\ board.undisturbed => /\ "onTrip" \in board.todo \/ board.totals.onTrip = Travellers({"IN_TRIP"})
                          /\ "statuses" \in board.todo \/ board.totals.statuses = StatusesNow
                          /\ "visas" \in board.todo \/ board.totals.visas = Travellers(VisaTrips)

BoardFits == board = NoBoard \/ AgencyFits \/ AdminFits

BoardInv == TripsTypes /\ BoardFits /\ PassportsAddUp

-----------------------------------------------------------------------------
(* What is read *)

LEMMA ReadsHaveTypes ==
  ASSUME TripsTypes
  PROVE  /\ GroupsNow \in [Groups -> GroupRows]
         /\ PassportsNow \in PassportRows
         /\ StatusesNow \in [Groups -> RowStatuses]
         /\ \A S : Travellers(S) \in SUBSET Pilgrims
<1>1. \A g \in Groups : Status(g) \in RowStatuses
  BY DEF Status, RowStatuses, GroupStatuses, UnderWay, Preparing
<1>2. \A g \in Groups : GroupRow(g) \in GroupRows
  <2>1. SUFFICES ASSUME NEW g \in Groups PROVE GroupRow(g) \in GroupRows
    OBVIOUS
  <2>2. Members(g) \in SUBSET Pilgrims
    BY DEF Members
  <2>3. trip[g].departs \in Int
    BY DEF TripsTypes, TripRows
  <2>4. {p \in Members(g) : PassportOk(p, g)} \in SUBSET Pilgrims
    BY <2>2
  <2>5. QED  BY <1>1, <2>2, <2>3, <2>4 DEF GroupRow, GroupRows
<1>3. NoGroupRow \in GroupRows
  BY DEF NoGroupRow, GroupRows, RowStatuses
<1>4. GroupsNow \in [Groups -> GroupRows]
  BY <1>2, <1>3 DEF GroupsNow
<1>5. StatusesNow \in [Groups -> RowStatuses]
  BY <1>1 DEF StatusesNow, RowStatuses
<1>6. \A S : Travellers(S) \in SUBSET Pilgrims
  BY DEF Travellers
<1>7. PassportsNow \in PassportRows
  BY <1>6 DEF PassportsNow, PassportRows, Held, Valid, Expired
<1>8. QED  BY <1>4, <1>5, <1>6, <1>7

\* A group that has not ended returns so near to today, or after it, that no passport good for it
\* has expired.
LEMMA NoGoodPassportExpired ==
  ASSUME TripsAssumption, TripsTypes
  PROVE  Valid \cap Expired = {}
<1>1. SUFFICES ASSUME NEW p \in Valid, p \in Expired PROVE FALSE
  OBVIOUS
<1> DEFINE g == memberOf[p]
<1>2. /\ p \in Pilgrims /\ g \in Live /\ Status(g) \in UnderWay
      /\ expires[p] # None /\ expires[p] < Today(now)
      /\ expires[p] >= LocalDay(trip[g].returns) + Validity
  BY <1>1 DEF Valid, Expired, Held, Travellers, InStatus, PassportTrips, PassportOk
<1>3. g \in Groups /\ expires[p] \in Int /\ trip[g].returns \in Int /\ now \in Int
  BY <1>2 DEF Live, TripsTypes, TripRows
<1>4. ~Ended(g)
  BY <1>2 DEF Status, UnderWay, Preparing
<1>5. Day(now) <= Day(trip[g].returns)
  BY <1>3, <1>4, DayBounds DEF Ended
<1>6. /\ Validity \in Nat /\ Validity >= 2
      /\ Day(now) \in Int /\ Day(trip[g].returns) \in Int
      /\ LocalDay(trip[g].returns) \in Int
      /\ LocalDay(trip[g].returns) >= Day(trip[g].returns) - 1
      /\ Today(now) \in Int /\ Today(now) <= Day(now) + 1
  BY <1>3, DayBounds, OffsetDays DEF TripsAssumption
<1> HIDE DEF g
<1>7. QED  BY <1>2, <1>3, <1>5, <1>6

AddUp(d) ==
  /\ d.members = d.missing \cup d.expired \cup d.short \cup d.valid
  /\ d.expired \cap (d.short \cup d.valid) = {} /\ d.short \cap d.valid = {}
  /\ d.missing \cap (d.expired \cup d.short \cup d.valid) = {}

LEMMA PassportsReadAddUp ==
  ASSUME TripsAssumption, TripsTypes
  PROVE  AddUp(PassportsNow)
<1>1. \A p \in Held : expires[p] \in Int
  BY DEF Held, Travellers, TripsTypes
<1>2. Today(now) \in Int
  BY OffsetDays DEF TripsTypes
<1>3. Valid \subseteq Held /\ Expired \subseteq Held /\ Held \subseteq Travellers(PassportTrips)
  BY DEF Valid, Expired, Held
<1> DEFINE Short == {p \in Held \ Valid : expires[p] >= Today(now)}
<1>4. Held = Expired \cup Short \cup Valid /\ Expired \cap Short = {} /\ Short \cap Valid = {}
  BY <1>1, <1>2, <1>3 DEF Expired
<1>5. Valid \cap Expired = {}
  BY NoGoodPassportExpired
<1>6. PassportsNow = [members |-> Travellers(PassportTrips),
                      missing |-> Travellers(PassportTrips) \ Held,
                      expired |-> Expired, short |-> Short, valid |-> Valid]
  BY DEF PassportsNow
<1> HIDE DEF Short
<1>7. QED  BY <1>3, <1>4, <1>5, <1>6 DEF AddUp

-----------------------------------------------------------------------------
(* The steps *)

LEMMA InitFits == ASSUME TripsAssumption, Init PROVE BoardInv
<1>1. NoGroupRow \in GroupRows /\ NoPassports \in PassportRows /\ NoTotals \in TotalRows
  BY DEF NoGroupRow, GroupRows, RowStatuses, NoPassports, PassportRows, NoTotals, TotalRows
<1>2. NoBoard \in Boards /\ AddUp(NoBoard.passports)
  BY <1>1 DEF NoBoard, Board, Boards, Queries, AddUp, NoPassports
<1>3. NoTrip \in TripRows
  BY DEF NoTrip, TripRows
<1>4. TripsTypes
  BY <1>2, <1>3 DEF Init, TripsTypes
<1>5. QED  BY <1>2, <1>4 DEF Init, BoardInv, BoardFits, PassportsAddUp, AddUp

\* A write leaves what a dashboard has read, which no longer needs to be what the tables say.
LEMMA Disturbing ==
  ASSUME board \in Boards, BoardFits, PassportsAddUp, board' = Disturbed(board)
  PROVE  board' \in Boards /\ BoardFits' /\ PassportsAddUp'
<1>1. CASE board = NoBoard
  BY <1>1 DEF Disturbed, BoardFits, PassportsAddUp
<1>2. CASE board # NoBoard
  <2>1. board' = [board EXCEPT !.undisturbed = FALSE]
    BY <1>2 DEF Disturbed
  <2>2. /\ board' \in Boards /\ ~board'.undisturbed
        /\ board'.todo = board.todo /\ board'.groups = board.groups
        /\ board'.passports = board.passports /\ board'.totals = board.totals
    BY <2>1 DEF Boards
  <2>3. AgencyFits \/ AdminFits
    BY <1>2 DEF BoardFits
  <2>4. AgencyFits => AgencyFits'
    BY <2>2 DEF AgencyFits
  <2>5. AdminFits => AdminFits'
    BY <2>2 DEF AdminFits
  <2>6. QED  BY <2>2, <2>3, <2>4, <2>5 DEF BoardFits, PassportsAddUp
<1>3. QED  BY <1>1, <1>2

Writing == \/ WriteTrip \/ RemoveGroup \/ AddMember \/ RemoveMember
           \/ BulkUpdateMemberDocuments \/ WritePassport

LEMMA WritesFit ==
  ASSUME TripsAssumption, BoardInv, Writing
  PROVE  BoardInv'
<1>1. board' = Disturbed(board) /\ now' = now
  BY DEF Writing, WriteTrip, RemoveGroup, AddMember, RemoveMember,
         BulkUpdateMemberDocuments, WritePassport, Write
<1>2. board' \in Boards /\ BoardFits' /\ PassportsAddUp'
  BY <1>1, Disturbing DEF BoardInv, TripsTypes
<1>3. trip' \in [Groups -> TripRows]
  <2>1. CASE WriteTrip
    <3>1. PICK g \in Groups, d \in Departures, r \in Returns, s \in {"FORMING", "CANCELLED"} :
            trip' = [trip EXCEPT ![g] = [departs |-> d, returns |-> r, stored |-> s]]
      BY <2>1 DEF WriteTrip
    <3>2. [departs |-> d, returns |-> r, stored |-> s] \in TripRows
      BY DEF TripRows, TripsAssumption
    <3>3. QED  BY <3>1, <3>2 DEF BoardInv, TripsTypes
  <2>2. CASE RemoveGroup
    <3>1. PICK g \in Live : trip' = [trip EXCEPT ![g] = NoTrip]
      BY <2>2 DEF RemoveGroup
    <3>2. NoTrip \in TripRows
      BY DEF NoTrip, TripRows
    <3>3. QED  BY <3>1, <3>2 DEF BoardInv, TripsTypes
  <2>3. QED  BY <2>1, <2>2 DEF Writing, AddMember, RemoveMember, BulkUpdateMemberDocuments,
                              WritePassport, BoardInv, TripsTypes
<1>4. memberOf' \in [Pilgrims -> Groups \cup {None}]
  BY DEF Writing, WriteTrip, RemoveGroup, AddMember, RemoveMember, BulkUpdateMemberDocuments,
         WritePassport, BoardInv, TripsTypes, Live
<1>5. expires' \in [Pilgrims -> Int \cup {None}]
  BY DEF Writing, WriteTrip, RemoveGroup, AddMember, RemoveMember, BulkUpdateMemberDocuments,
         WritePassport, BoardInv, TripsTypes, TripsAssumption
<1>6. QED  BY <1>1, <1>2, <1>3, <1>4, <1>5 DEF BoardInv, TripsTypes

\* Until the day ends everything a query answers stays as it is.
LEMMA SameDay ==
  ASSUME UNCHANGED tables, Day(now') = Day(now), Today(now') = Today(now)
  PROVE  /\ GroupsNow' = GroupsNow /\ PassportsNow' = PassportsNow /\ StatusesNow' = StatusesNow
         /\ Travellers({"IN_TRIP"})' = Travellers({"IN_TRIP"})
         /\ Travellers(VisaTrips)' = Travellers(VisaTrips)
<1>1. trip' = trip /\ memberOf' = memberOf /\ papers' = papers /\ expires' = expires
  BY DEF tables
<1>2. \A g : Status(g)' = Status(g)
  BY <1>1 DEF Status, Ended, Started, Members, DocsIncomplete
<1>3. Live' = Live /\ \A g : Members(g)' = Members(g)
  BY <1>1 DEF Live, Members
<1>4. \A p, g : PassportOk(p, g)' = PassportOk(p, g)
  BY <1>1 DEF PassportOk
<1>5. \A S : Travellers(S)' = Travellers(S)
  BY <1>1, <1>2, <1>3 DEF Travellers, InStatus
<1>6. GroupsNow' = GroupsNow
  BY <1>1, <1>2, <1>3, <1>4 DEF GroupsNow, GroupRow
<1>7. Travellers(PassportTrips)' = Travellers(PassportTrips)
  BY <1>5 DEF PassportTrips
<1>8. Held' = Held /\ Expired' = Expired
  BY <1>1, <1>7 DEF Held, Expired
<1>9. Valid' = Valid
  BY <1>1, <1>4, <1>8 DEF Valid
<1>10. PassportsNow' = PassportsNow
  BY <1>1, <1>7, <1>8, <1>9 DEF PassportsNow
<1>11. StatusesNow' = StatusesNow
  BY <1>2, <1>3 DEF StatusesNow
<1>12. QED  BY <1>5, <1>6, <1>10, <1>11 DEF VisaTrips

LEMMA TickFits ==
  ASSUME TripsAssumption, BoardInv, Tick
  PROVE  BoardInv'
<1>1. UNCHANGED tables /\ now' = now + 1
  BY DEF Tick
<1>2. CASE Day(now') = Day(now) /\ Today(now') = Today(now)
  <2>1. board' = board
    BY <1>2 DEF Tick
  <2>2. AgencyFits => AgencyFits'
    BY <1>1, <1>2, <2>1, SameDay DEF AgencyFits
  <2>3. AdminFits => AdminFits'
    BY <1>1, <1>2, <2>1, SameDay DEF AdminFits
  <2>4. QED  BY <1>1, <2>1, <2>2, <2>3 DEF BoardInv, BoardFits, TripsTypes, PassportsAddUp, tables
<1>3. CASE ~(Day(now') = Day(now) /\ Today(now') = Today(now))
  <2>1. board' = Disturbed(board)
    BY <1>3 DEF Tick
  <2>2. QED  BY <1>1, <2>1, Disturbing DEF BoardInv, TripsTypes, tables
<1>4. QED  BY <1>2, <1>3

\* A query of a dashboard is run: only the answer it fills in and todo change.
LEMMA QueriesFit ==
  ASSUME TripsAssumption, BoardInv,
         QueryGroups \/ QueryPassports \/ QueryOnTrip \/ QueryStatuses \/ QueryVisas
  PROVE  BoardInv'
<1>1. /\ now' = now /\ UNCHANGED tables
      /\ trip' = trip /\ memberOf' = memberOf /\ expires' = expires
  BY DEF QueryGroups, QueryPassports, QueryOnTrip, QueryStatuses, QueryVisas, Query, tables
<1>2. /\ GroupsNow' = GroupsNow /\ PassportsNow' = PassportsNow /\ StatusesNow' = StatusesNow
      /\ Travellers({"IN_TRIP"})' = Travellers({"IN_TRIP"})
      /\ Travellers(VisaTrips)' = Travellers(VisaTrips)
  BY <1>1, SameDay
<1>3. /\ board \in Boards /\ BoardFits /\ PassportsAddUp /\ TripsTypes
      /\ GroupsNow \in [Groups -> GroupRows] /\ PassportsNow \in PassportRows
      /\ StatusesNow \in [Groups -> RowStatuses]
      /\ Travellers({"IN_TRIP"}) \in SUBSET Pilgrims /\ Travellers(VisaTrips) \in SUBSET Pilgrims
  BY ReadsHaveTypes DEF BoardInv, TripsTypes
<1>4. SUFFICES board' \in Boards /\ BoardFits' /\ PassportsAddUp'
  BY <1>1, <1>3 DEF BoardInv, TripsTypes
<1>5. ASSUME NEW q \in AgencyQueries \cup AdminQueries, q \in board.todo
      PROVE  /\ q \in AgencyQueries => AgencyFits
             /\ q \in AdminQueries => AdminFits
  <2>1. board # NoBoard
    BY <1>5 DEF NoBoard, Board, AgencyQueries, AdminQueries
  <2>2. QED  BY <1>3, <1>5, <2>1 DEF BoardFits, AgencyFits, AdminFits, AgencyQueries, AdminQueries
<1>6. CASE QueryGroups
  <2>1. /\ "groups" \in board.todo
        /\ board' = [[board EXCEPT !.groups = GroupsNow] EXCEPT !.todo = @ \ {"groups"}]
    BY <1>6 DEF QueryGroups, Query, GroupsNow
  <2>2. /\ board' \in Boards /\ board'.passports = board.passports
        /\ board'.groups = GroupsNow /\ board'.totals = board.totals
        /\ board'.undisturbed = board.undisturbed /\ board'.todo = board.todo \ {"groups"}
    BY <1>3, <2>1 DEF Boards
  <2>3. AgencyFits
    BY <1>5, <2>1 DEF AgencyQueries
  <2>4. AgencyFits'
    BY <1>2, <2>2, <2>3 DEF AgencyFits
  <2>5. QED  BY <1>3, <2>2, <2>4 DEF BoardFits, PassportsAddUp
<1>7. CASE QueryPassports
  <2>1. /\ "passports" \in board.todo
        /\ board' = [[board EXCEPT !.passports = PassportsNow] EXCEPT !.todo = @ \ {"passports"}]
    BY <1>7 DEF QueryPassports, Query, PassportsNow, Held, Valid, Expired
  <2>2. /\ board' \in Boards /\ board'.passports = PassportsNow
        /\ board'.groups = board.groups /\ board'.totals = board.totals
        /\ board'.undisturbed = board.undisturbed /\ board'.todo = board.todo \ {"passports"}
    BY <1>3, <2>1 DEF Boards
  <2>3. AgencyFits
    BY <1>5, <2>1 DEF AgencyQueries
  <2>4. AgencyFits'
    BY <1>2, <2>2, <2>3 DEF AgencyFits
  <2>5. AddUp(board'.passports)
    BY <1>3, <2>2, PassportsReadAddUp
  <2>6. QED  BY <2>2, <2>4, <2>5 DEF BoardFits, PassportsAddUp, AddUp
<1>8. CASE QueryOnTrip
  <2>1. /\ "onTrip" \in board.todo
        /\ board' = [[board EXCEPT !.totals.onTrip = Travellers({"IN_TRIP"})]
                       EXCEPT !.todo = @ \ {"onTrip"}]
    BY <1>8 DEF QueryOnTrip, Query
  <2>2. /\ board' \in Boards /\ board'.passports = board.passports /\ board'.groups = board.groups
        /\ board'.totals = [board.totals EXCEPT !.onTrip = Travellers({"IN_TRIP"})]
        /\ board'.undisturbed = board.undisturbed /\ board'.todo = board.todo \ {"onTrip"}
    BY <1>3, <2>1 DEF Boards, TotalRows
  <2>3. /\ board'.totals.onTrip = Travellers({"IN_TRIP"})
        /\ board'.totals.statuses = board.totals.statuses
        /\ board'.totals.visas = board.totals.visas
    BY <1>3, <2>2 DEF Boards, TotalRows
  <2>4. AdminFits
    BY <1>5, <2>1 DEF AdminQueries
  <2>5. AdminFits'
    BY <1>2, <2>2, <2>3, <2>4 DEF AdminFits
  <2>6. QED  BY <1>3, <2>2, <2>5 DEF BoardFits, PassportsAddUp
<1>9. CASE QueryStatuses
  <2>1. /\ "statuses" \in board.todo
        /\ board' = [[board EXCEPT !.totals.statuses = StatusesNow]
                       EXCEPT !.todo = @ \ {"statuses"}]
    BY <1>9 DEF QueryStatuses, Query, StatusesNow
  <2>2. /\ board' \in Boards /\ board'.passports = board.passports /\ board'.groups = board.groups
        /\ board'.totals = [board.totals EXCEPT !.statuses = StatusesNow]
        /\ board'.undisturbed = board.undisturbed /\ board'.todo = board.todo \ {"statuses"}
    BY <1>3, <2>1 DEF Boards, TotalRows
  <2>3. /\ board'.totals.onTrip = board.totals.onTrip
        /\ board'.totals.statuses = StatusesNow
        /\ board'.totals.visas = board.totals.visas
    BY <1>3, <2>2 DEF Boards, TotalRows
  <2>4. AdminFits
    BY <1>5, <2>1 DEF AdminQueries
  <2>5. AdminFits'
    BY <1>2, <2>2, <2>3, <2>4 DEF AdminFits
  <2>6. QED  BY <1>3, <2>2, <2>5 DEF BoardFits, PassportsAddUp
<1>10. CASE QueryVisas
  <2>1. /\ "visas" \in board.todo
        /\ board' = [[board EXCEPT !.totals.visas = Travellers(VisaTrips)]
                       EXCEPT !.todo = @ \ {"visas"}]
    BY <1>10 DEF QueryVisas, Query
  <2>2. /\ board' \in Boards /\ board'.passports = board.passports /\ board'.groups = board.groups
        /\ board'.totals = [board.totals EXCEPT !.visas = Travellers(VisaTrips)]
        /\ board'.undisturbed = board.undisturbed /\ board'.todo = board.todo \ {"visas"}
    BY <1>3, <2>1 DEF Boards, TotalRows
  <2>3. /\ board'.totals.onTrip = board.totals.onTrip
        /\ board'.totals.statuses = board.totals.statuses
        /\ board'.totals.visas = Travellers(VisaTrips)
    BY <1>3, <2>2 DEF Boards, TotalRows
  <2>4. AdminFits
    BY <1>5, <2>1 DEF AdminQueries
  <2>5. AdminFits'
    BY <1>2, <2>2, <2>3, <2>4 DEF AdminFits
  <2>6. QED  BY <1>3, <2>2, <2>5 DEF BoardFits, PassportsAddUp
<1>11. QED  BY <1>6, <1>7, <1>8, <1>9, <1>10

\* A dashboard is opened or answered.
LEMMA OpeningFits ==
  ASSUME BoardInv, Get \/ Answer
  PROVE  BoardInv'
<1>1. now' = now /\ trip' = trip /\ memberOf' = memberOf /\ expires' = expires
  BY DEF Get, Answer, tables
<1>2. NoGroupRow \in GroupRows /\ NoPassports \in PassportRows /\ NoTotals \in TotalRows
  BY DEF NoGroupRow, GroupRows, RowStatuses, NoPassports, PassportRows, NoTotals, TotalRows
<1>3. \A todo \in SUBSET Queries : Board(todo) \in Boards /\ AddUp(Board(todo).passports)
  BY <1>2 DEF Board, Boards, AddUp, NoPassports
<1>4. CASE board' = Board(AgencyQueries)
  <2>1. AgencyQueries \in SUBSET Queries
    BY DEF AgencyQueries, Queries
  <2>2. AgencyFits'
    BY <1>4 DEF AgencyFits, Board, AgencyQueries
  <2>3. QED  BY <1>1, <1>3, <1>4, <2>1, <2>2
             DEF BoardInv, TripsTypes, BoardFits, PassportsAddUp, AddUp
<1>5. CASE board' = Board(AdminQueries)
  <2>1. AdminQueries \in SUBSET Queries
    BY DEF AdminQueries, Queries
  <2>2. AdminFits'
    BY <1>5 DEF AdminFits, Board, AdminQueries
  <2>3. QED  BY <1>1, <1>3, <1>5, <2>1, <2>2
             DEF BoardInv, TripsTypes, BoardFits, PassportsAddUp, AddUp
<1>6. CASE board' = NoBoard
  <2>1. NoBoard \in Boards /\ AddUp(NoBoard.passports)
    BY <1>3 DEF NoBoard, Queries
  <2>2. QED  BY <1>1, <1>6, <2>1 DEF BoardInv, TripsTypes, BoardFits, PassportsAddUp, AddUp
<1>7. QED  BY <1>4, <1>5, <1>6 DEF Get, Answer, AgencyQueries, AdminQueries

THEOREM BoardInvariant ==
  ASSUME TripsAssumption
  PROVE  Spec => []BoardInv
<1>1. Init => BoardInv
  BY InitFits
<1>2. BoardInv /\ [Next]_vars => BoardInv'
  <2>1. SUFFICES ASSUME BoardInv, [Next]_vars PROVE BoardInv'
    OBVIOUS
  <2>2. CASE Writing
    BY <2>1, <2>2, WritesFit
  <2>3. CASE Tick
    BY <2>1, <2>3, TickFits
  <2>4. CASE QueryGroups \/ QueryPassports \/ QueryOnTrip \/ QueryStatuses \/ QueryVisas
    BY <2>1, <2>4, QueriesFit
  <2>5. CASE Get \/ Answer
    BY <2>1, <2>5, OpeningFits
  <2>6. CASE UNCHANGED vars
    <3>1. now' = now /\ UNCHANGED tables /\ board' = board
      BY <2>6 DEF vars
    <3>2. AgencyFits => AgencyFits'
      BY <3>1, SameDay DEF AgencyFits
    <3>3. AdminFits => AdminFits'
      BY <3>1, SameDay DEF AdminFits
    <3>4. QED  BY <2>1, <3>1, <3>2, <3>3
               DEF BoardInv, BoardFits, TripsTypes, PassportsAddUp, tables
  <2>7. QED  BY <2>1, <2>2, <2>3, <2>4, <2>5, <2>6 DEF Next, Writing
<1>3. QED  BY <1>1, <1>2, PTL DEF Spec

-----------------------------------------------------------------------------
(* The properties *)

LEMMA UndisturbedAgree ==
  ASSUME BoardInv PROVE QueriesAgree
<1>1. SUFFICES ASSUME board.todo = {}, board.undisturbed
               PROVE  LET under == {g \in Groups : board.groups[g].status \in UnderWay}
                          away == {g \in Groups : board.totals.statuses[g] = "IN_TRIP"}
                      IN /\ UNION {board.groups[g].members : g \in under} = board.passports.members
                         /\ UNION {board.groups[g].ready : g \in under} = board.passports.valid
                         /\ board.totals.onTrip \subseteq board.totals.visas
                         /\ away = {} => board.totals.onTrip = {}
  BY DEF QueriesAgree, Answered
<1> DEFINE under == {g \in Groups : board.groups[g].status \in UnderWay}
<1>2. board # NoBoard
  BY <1>1 DEF NoBoard, Board
<1>3. CASE AgencyFits
  <2>1. board.groups = GroupsNow /\ board.passports = PassportsNow /\ board.totals = NoTotals
    BY <1>1, <1>3 DEF AgencyFits
  <2>2. under = InStatus(UnderWay)
    BY <2>1 DEF GroupsNow, GroupRow, NoGroupRow, InStatus, Live, UnderWay, Preparing
  <2>3. \A g \in under : /\ board.groups[g].members = Members(g)
                         /\ board.groups[g].ready = {p \in Members(g) : PassportOk(p, g)}
    BY <2>1, <2>2 DEF GroupsNow, GroupRow, InStatus
  <2>4. UNION {board.groups[g].members : g \in under} = Travellers(UnderWay)
    BY <2>2, <2>3 DEF Travellers, Members
  <2>5. UNION {board.groups[g].ready : g \in under} = Valid
    BY <2>2, <2>3 DEF Valid, Held, Travellers, Members, PassportTrips, PassportOk
  <2>6. board.totals.onTrip = {} /\ board.totals.visas = {}
    BY <2>1 DEF NoTotals
  <2>7. board.passports.members = Travellers(UnderWay) /\ board.passports.valid = Valid
    BY <2>1 DEF PassportsNow, PassportTrips
  <2>8. QED  BY <2>4, <2>5, <2>6, <2>7
<1>4. CASE AdminFits
  <2>1. under = {}
    BY <1>4 DEF AdminFits, NoGroupRow, UnderWay, Preparing
  <2>2. board.passports.members = {} /\ board.passports.valid = {}
    BY <1>4 DEF AdminFits, NoPassports
  <2>3. /\ board.totals.onTrip = Travellers({"IN_TRIP"})
        /\ board.totals.visas = Travellers(VisaTrips)
        /\ board.totals.statuses = StatusesNow
    BY <1>1, <1>4 DEF AdminFits
  <2>4. board.totals.onTrip \subseteq board.totals.visas
    BY <2>3 DEF Travellers, InStatus, VisaTrips, GroupStatuses, UnderWay
  <2>5. ASSUME NEW p \in board.totals.onTrip
        PROVE  \E g \in Groups : board.totals.statuses[g] = "IN_TRIP"
    <3>1. memberOf[p] \in Live /\ Status(memberOf[p]) = "IN_TRIP"
      BY <2>3, <2>5 DEF Travellers, InStatus
    <3>2. memberOf[p] \in Groups /\ StatusesNow[memberOf[p]] = "IN_TRIP"
      BY <3>1 DEF StatusesNow, Live
    <3>3. QED  BY <2>3, <3>2
  <2>6. QED  BY <2>1, <2>2, <2>4, <2>5
<1>5. QED  BY <1>2, <1>3, <1>4 DEF BoardInv, BoardFits

\* "In one response so the numbers agree with each other", for any groups, days, offset and
\* passports: DashboardService.get, AdminDashboardService.get.
THEOREM NumbersFit ==
  ASSUME TripsAssumption
  PROVE  Spec => []NumbersAgree
<1>1. BoardInv => NumbersAgree
  BY UndisturbedAgree DEF NumbersAgree, BoardInv
<1>2. QED  BY <1>1, BoardInvariant, PTL

\* However far the office is ahead, a group in preparation leaves the upcoming ones no sooner than
\* twice the offset before it departs: localDay.
THEOREM LeavesShortlyBefore ==
  ASSUME TripsAssumption
  PROVE  Spec => []LeftOutAtNight
<1>1. BoardInv => LeftOutAtNight
  <2>1. SUFFICES ASSUME BoardInv, NEW g \in Groups, LeftOut(g)
                 PROVE  board.groups[g].departs - now < 2 * Offset
    BY DEF LeftOutAtNight
  <2> DEFINE d == board.groups[g].departs
  <2>2. d \in Int /\ now \in Int /\ Offset \in Int /\ DayLength \in Nat
    BY <2>1 DEF BoardInv, TripsTypes, Boards, GroupRows, TripsAssumption
  <2>3. d - Offset \in Int /\ now + Offset \in Int
    BY <2>2
  <2>4. Day(d - Offset) \in Int /\ Day(now + Offset) \in Int
    BY <2>1, <2>3, DayBounds
  <2>5. Day(d - Offset) < Day(now + Offset)
    BY <2>1, <2>4 DEF LeftOut, Upcoming, LocalDay, Today
  <2>6. d - Offset < now + Offset
    BY <2>1, <2>3, <2>5, LaterDay
  <2> HIDE DEF d
  <2>7. d - now < 2 * Offset
    BY <2>2, <2>6
  <2>8. QED  BY <2>7 DEF d
<1>2. QED  BY <1>1, BoardInvariant, PTL

=============================================================================
