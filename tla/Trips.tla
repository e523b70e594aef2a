------------------------------- MODULE Trips -------------------------------
(***************************************************************************)
(* The trips of one agency's groups: their dates, the visas, tickets and   *)
(* passports of their members, and what is derived from them when they are *)
(* read: a group's status, the agency's dashboard and the admins'.         *)
(*                                                                         *)
(* A dashboard runs its queries side by side on connections of their own,  *)
(* so each sees what has been committed when it runs, and the answer is    *)
(* put together after the last.  Times are counted in slots, DayLength to  *)
(* a day; Postgres and the server run in UTC, the office is Offset ahead.  *)
(***************************************************************************)
EXTENDS Integers, FiniteSets

CONSTANTS
  Groups, Pilgrims, None,
  DayLength, Offset,
  Validity,     \* the days a passport must outlast the return: six months
  LastTime,     \* the bound on time
  Departures, Returns, Expiries   \* times and days a client may send

\* What the theorems ask of them: the office is at most a day ahead, and six months outlast what
\* the two ways of counting days may differ by.
TripsAssumption ==
  /\ DayLength \in Nat \ {0} /\ Offset \in 0..DayLength
  /\ Validity \in Nat /\ Validity >= 2 /\ LastTime \in Nat
  /\ Departures \cup Returns \cup Expiries \subseteq Int
  /\ None \notin Groups

VARIABLES
  now,          \* the clock
  trip,         \* groups not soft-deleted: the dates and the stored status
  memberOf,     \* group_members, unique per pilgrim_id
  papers,       \* its visa_status and ticket_status
  expires,      \* pilgrims.passport_expires_at, None without a passport
  board         \* the dashboard being read

tables == <<trip, memberOf, papers, expires>>
vars == <<now, tables, board>>

NoTrip == [departs |-> 0, returns |-> 0, stored |-> "none"]
Live == {g \in Groups : trip[g] # NoTrip}
Members(g) == {p \in Pilgrims : memberOf[p] = g}

-----------------------------------------------------------------------------
(* Days *)

Day(t) == t \div DayLength              \* ::date, CURRENT_DATE
Today(t) == Day(t + Offset)             \* (now() AT TIME ZONE tz)::date

\* localDay: the columns are timestamptz, of which AT TIME ZONE 'UTC' makes a time without a
\* zone and AT TIME ZONE tz one with a zone again: it takes the offset away.
LocalDay(t) == Day(t - Offset)

-----------------------------------------------------------------------------
(* What a query derives from the rows *)

AllIssued == [visa |-> "ISSUED", ticket |-> "ISSUED"]
NoPapers == [visa |-> "NONE", ticket |-> "NONE"]
DocsIncomplete(g) == {p \in Members(g) : papers[p] # AllIssued}

Preparing == {"FORMING", "FORMED"}
UnderWay == Preparing \cup {"IN_TRIP"}
GroupStatuses == UnderWay \cup {"TRIP_ENDED", "CANCELLED"}

Started(g) == Day(now) >= Day(trip[g].departs)
Ended(g) == Day(now) > Day(trip[g].returns)

\* effectiveStatusSql
Status(g) ==
  IF trip[g].stored = "CANCELLED" THEN "CANCELLED"
  ELSE IF Ended(g) THEN "TRIP_ENDED"
  ELSE IF Started(g) THEN "IN_TRIP"
  ELSE IF Members(g) # {} /\ DocsIncomplete(g) = {} THEN "FORMED" ELSE "FORMING"

InStatus(S) == {g \in Live : Status(g) \in S}
Travellers(S) == {p \in Pilgrims : memberOf[p] \in InStatus(S)}

\* passportOk
PassportOk(p, g) ==
  expires[p] # None /\ expires[p] >= LocalDay(trip[g].returns) + Validity

-----------------------------------------------------------------------------
(* A dashboard: the queries to run, what the others have returned, and     *)
(* whether nothing has happened since the first.                           *)

NoGroupRow == [status |-> "none", departs |-> 0, members |-> {}, ready |-> {}]
NoPassports == [members |-> {}, missing |-> {}, expired |-> {}, short |-> {}, valid |-> {}]
NoTotals == [statuses |-> [g \in Groups |-> "none"], onTrip |-> {}, visas |-> {}]

Board(todo) == [todo |-> todo, groups |-> [g \in Groups |-> NoGroupRow],
                passports |-> NoPassports, totals |-> NoTotals, undisturbed |-> TRUE]
NoBoard == Board({"nothing"})

\* The queries that are still to run see what has been written since.
Disturbed(b) == IF b = NoBoard THEN b ELSE [b EXCEPT !.undisturbed = FALSE]

-----------------------------------------------------------------------------
(* The groups, their members and papers *)

Write == board' = Disturbed(board) /\ UNCHANGED now

\* create, update and changeStatus; the agency's handlers do not compare the dates.
WriteTrip ==
  /\ \E g \in Groups, d \in Departures, r \in Returns, s \in {"FORMING", "CANCELLED"} :
       trip' = [trip EXCEPT ![g] = [departs |-> d, returns |-> r, stored |-> s]]
  /\ Write /\ UNCHANGED <<memberOf, papers, expires>>

\* The memberships go with the group, and the papers with the memberships.
RemoveGroup ==
  /\ \E g \in Live :
       /\ trip' = [trip EXCEPT ![g] = NoTrip]
       /\ memberOf' = [p \in Pilgrims |-> IF p \in Members(g) THEN None ELSE memberOf[p]]
       /\ papers' = [p \in Pilgrims |-> IF p \in Members(g) THEN NoPapers ELSE papers[p]]
  /\ Write /\ UNCHANGED expires

AddMember ==
  /\ \E p \in Pilgrims, g \in Live :
       memberOf[p] = None /\ memberOf' = [memberOf EXCEPT ![p] = g]
  /\ Write /\ UNCHANGED <<trip, papers, expires>>

RemoveMember ==
  /\ \E p \in Pilgrims :
       /\ memberOf[p] # None
       /\ memberOf' = [memberOf EXCEPT ![p] = None]
       /\ papers' = [papers EXCEPT ![p] = NoPapers]
  /\ Write /\ UNCHANGED <<trip, expires>>

\* One field of some members of one group; pilgrims that are not its members are passed over.
BulkUpdateMemberDocuments ==
  /\ \E g \in Live, P \in SUBSET Pilgrims, f \in {"visa", "ticket"}, v \in {"NONE", "ISSUED"} :
       papers' = [p \in Pilgrims |-> IF p \in P \cap Members(g)
                                     THEN [papers[p] EXCEPT ![f] = v] ELSE papers[p]]
  /\ Write /\ UNCHANGED <<trip, memberOf, expires>>

WritePassport ==
  /\ \E p \in Pilgrims, e \in Expiries \cup {None} : expires' = [expires EXCEPT ![p] = e]
  /\ Write /\ UNCHANGED <<trip, memberOf, papers>>

Tick == /\ now < LastTime
        /\ now' = now + 1
        /\ board' = IF Day(now') = Day(now) /\ Today(now') = Today(now)
                    THEN board ELSE Disturbed(board)
        /\ UNCHANGED tables

-----------------------------------------------------------------------------
(* The queries of the dashboards *)

Get == /\ board = NoBoard
       /\ board' \in {Board({"groups", "passports"}), Board({"onTrip", "statuses", "visas"})}
       /\ UNCHANGED <<now, tables>>

Query(q, answer) == /\ q \in board.todo
                    /\ board' = [answer EXCEPT !.todo = @ \ {q}]
                    /\ UNCHANGED <<now, tables>>

\* DashboardDao.groups: a row of each live group.
GroupRow(g) == [status |-> Status(g), departs |-> trip[g].departs, members |-> Members(g),
                ready |-> {p \in Members(g) : PassportOk(p, g)}]

QueryGroups ==
  Query("groups",
        [board EXCEPT !.groups = [g \in Groups |-> IF g \in Live THEN GroupRow(g) ELSE NoGroupRow]])

CountedTrips == GroupStatuses   \* mutant

\* The groups whose members' passports are counted: those that have not ended.
PassportTrips == UnderWay

\* DashboardDao.passports
QueryPassports ==
  LET all == Travellers(PassportTrips)
      held == {p \in all : expires[p] # None}
      valid == {p \in held : PassportOk(p, memberOf[p])}
      expired == {p \in held : expires[p] < Today(now)}
  IN Query("passports",
           [board EXCEPT !.passports =
              [members |-> all, missing |-> all \ held, expired |-> expired,
               short |-> {p \in held \ valid : expires[p] >= Today(now)}, valid |-> valid]])

\* AdminDashboardDao: pilgrims, groups and visas.
QueryOnTrip == Query("onTrip", [board EXCEPT !.totals.onTrip = Travellers({"IN_TRIP"})])
QueryStatuses ==
  Query("statuses", [board EXCEPT !.totals.statuses =
                       [g \in Groups |-> IF g \in Live THEN Status(g) ELSE "none"]])
VisaTrips == GroupStatuses \ {"CANCELLED"}
QueryVisas == Query("visas", [board EXCEPT !.totals.visas = Travellers(VisaTrips)])

Answered == board.todo = {}
Answer == Answered /\ board' = NoBoard /\ UNCHANGED <<now, tables>>

\* The groups in preparation that DashboardService shows as upcoming, and picks the next
\* departure from; it takes the day itself, after the queries.
StillAhead(row) == LocalDay(row.departs) > Today(now)   \* mutant
Upcoming(row) == LocalDay(row.departs) >= Today(now)

LeftOut(g) == board.groups[g].status \in Preparing /\ ~Upcoming(board.groups[g])

-----------------------------------------------------------------------------
Init == /\ now = 0
        /\ trip = [g \in Groups |-> NoTrip]
        /\ memberOf = [p \in Pilgrims |-> None]
        /\ papers = [p \in Pilgrims |-> NoPapers]
        /\ expires = [p \in Pilgrims |-> None]
        /\ board = NoBoard

Next == \/ WriteTrip \/ RemoveGroup \/ AddMember \/ RemoveMember
        \/ BulkUpdateMemberDocuments \/ WritePassport \/ Tick
        \/ Get \/ QueryGroups \/ QueryPassports
        \/ QueryOnTrip \/ QueryStatuses \/ QueryVisas \/ Answer

Spec == Init /\ [][Next]_vars

-----------------------------------------------------------------------------
(* Properties *)

\* "In one response so the numbers agree with each other" (both dashboard services): when
\* nothing is written and no day ends between its queries, the members counted by status are
\* those whose passports are counted, the ready ones those whose passports are good, and the
\* pilgrims on a trip are among those whose visas are counted.
QueriesAgree ==
  Answered /\ board.undisturbed =>
    LET under == {g \in Groups : board.groups[g].status \in UnderWay}
        away == {g \in Groups : board.totals.statuses[g] = "IN_TRIP"}
    IN /\ UNION {board.groups[g].members : g \in under} = board.passports.members
       /\ UNION {board.groups[g].ready : g \in under} = board.passports.valid
       /\ board.totals.onTrip \subseteq board.totals.visas
       /\ away = {} => board.totals.onTrip = {}

\* However the queries fall, every counted member's passport is missing, expired, too short or
\* good, and only one of them: a group that has not ended returns so near to today that no
\* passport good for it has expired, although the two days are counted differently.
PassportsAddUp ==
  LET d == board.passports
  IN /\ d.members = d.missing \cup d.expired \cup d.short \cup d.valid
     /\ d.expired \cap (d.short \cup d.valid) = {} /\ d.short \cap d.valid = {}
     /\ d.missing \cap (d.expired \cup d.short \cup d.valid) = {}

\* The numbers of one answer fit each other.
NumbersAgree == QueriesAgree /\ PassportsAddUp

\* The departure day is counted Offset behind UTC where today is counted Offset ahead, so a
\* group in preparation drops off the upcoming ones before it leaves; never sooner than twice
\* the offset.
LeftOutAtNight ==
  Answered => \A g \in Groups : LeftOut(g) => board.groups[g].departs - now < 2 * Offset

=============================================================================
