------------------------------ MODULE Listings ------------------------------
(***************************************************************************)
(* The paginated lists of the backend, and a client that turns their pages *)
(* to the last.  Each page is two queries, the count and the rows, outside *)
(* a transaction, and the rows are cut out by LIMIT and OFFSET: a page is  *)
(* a stretch of the list as it is then.                                    *)
(*                                                                         *)
(* A behaviour is about one list.  Times are created_at, joined_at and     *)
(* updated_at; now() is the start of a transaction, so rows need not be    *)
(* committed in their order, and rows of one transaction share theirs.     *)
(***************************************************************************)
EXTENDS Integers, FiniteSets

CONSTANTS Rows, None, Times, PageSize,
          MaxMoves   \* bound: rows that move while the client reads

ListsAssumption ==
  /\ IsFiniteSet(Rows) /\ PageSize \in Nat \ {0}
  /\ Times \subseteq Int /\ None \notin Times /\ None # "FORMING"

VARIABLES
  list,      \* the list that is read
  pilgrim,   \* pilgrims, with what an agency's lists read of them
  group,     \* the agency's groups: created_at and the effective status
  request,   \* pilgrim_delete_requests
  task,      \* the tasks of one supervisor, or of one manager
  log,       \* created_at in a table nothing is taken from
  walk       \* the client

tables == <<pilgrim, group, request, task, log>>
vars == <<list, tables, walk>>

NoPilgrim == [at |-> None, ours |-> FALSE, guide |-> FALSE, joined |-> None, leads |-> FALSE]
NoGroup == [at |-> None, status |-> None]
NoRequest == [at |-> None, pending |-> FALSE]
NoTask == [at |-> None, touched |-> None, flagged |-> FALSE]

-----------------------------------------------------------------------------
(* The lists: which rows, under which sort key.  Smaller ranks come first, *)
(* and of one rank the newest.                                             *)

Newest(S, time) == [x \in S |-> [rank |-> 0, time |-> time[x]]]

Created == [x \in Rows |-> pilgrim[x].at]
Ours == {x \in Rows : pilgrim[x].ours}

\* findManyPaginated (with a phone, findManyPaginatedWithPhone) and applyListFilters; has_group=false
\* is what a picker of members shows.
AgencyPilgrims == Newest(Ours, Created)
WithoutGroup == Newest({x \in Ours : pilgrim[x].joined = None}, Created)

\* findGuidesPaginatedWithGroupFilter: a guide of several groups is there once.
Leading == Newest({x \in Ours : pilgrim[x].guide /\ pilgrim[x].leads}, Created)
Idle == Newest({x \in Ours : pilgrim[x].guide /\ ~pilgrim[x].leads}, Created)

\* searchByPhoneOrPinfl: any agency's.
Found == Newest({x \in Rows : pilgrim[x].at # None}, Created)

Joined == [x \in Rows |-> pilgrim[x].joined]
GroupMembers == Newest({x \in Rows : pilgrim[x].joined # None}, Joined)

Opened == [x \in Rows |-> group[x].at]
GroupsInStatus == Newest({x \in Rows : group[x].status = "FORMING"}, Opened)

\* Pending requests first.
DeletionRequests == [x \in {x \in Rows : request[x].at # None} |->
                     [rank |-> IF request[x].pending THEN 0 ELSE 1, time |-> request[x].at]]

Assigned == [x \in Rows |-> task[x].at]
Touched == [x \in Rows |-> task[x].touched]
TasksOf == {x \in Rows : task[x].at # None}
FlaggedTasks == Newest({x \in TasksOf : task[x].flagged}, Assigned)
TasksByUpdate == Newest(TasksOf, Touched)

\* listWithUsers of the activity log, an agency's invitations.
Log == Newest({x \in Rows : log[x] # None}, log)

Lists == {"pilgrims", "free", "leading", "idle", "found", "members", "groups", "requests",
          "flagged", "touched", "log"}

Listed == CASE list = "pilgrims" -> AgencyPilgrims
            [] list = "free" -> WithoutGroup
            [] list = "leading" -> Leading
            [] list = "idle" -> Idle
            [] list = "found" -> Found
            [] list = "members" -> GroupMembers
            [] list = "groups" -> GroupsInStatus
            [] list = "requests" -> DeletionRequests
            [] list = "flagged" -> FlaggedTasks
            [] list = "touched" -> TasksByUpdate
            [] list = "log" -> Log

Ahead(k, l) == k.rank < l.rank \/ (k.rank = l.rank /\ k.time > l.time)
Twins(L) == {x \in DOMAIN L : \E y \in DOMAIN L \ {x} : L[y] = L[x]}

-----------------------------------------------------------------------------
(* A page *)

Skipped(page) == (page - 1) * PageSize
WholePages(total) == total \div PageSize   \* mutant
TotalPages(total) == (total + PageSize - 1) \div PageSize

\* P is the PageSize rows after the first n, in one of the orders that the sort key allows: of the
\* rows that share a key, as many as have their places on the page.
IsPage(P, n) ==
  LET L == Listed IN
    \A x \in DOMAIN L :
      LET same == {y \in DOMAIN L : L[y] = L[x]}
          first == Cardinality({y \in DOMAIN L : Ahead(L[y], L[x])})
          places == first .. first + Cardinality(same) - 1
      IN Cardinality(P \cap same) = Cardinality(places \cap (n .. n + PageSize - 1))

-----------------------------------------------------------------------------
(* The client: it turns to the next page until it has the last one.        *)
(* Beside it: the rows that have kept their key since the first query, the *)
(* rows that shared one, how often a row left its place, and how many have *)
(* come since the count.                                                   *)

NoWalk == [at |-> "closed", page |-> 0, total |-> 0, seen |-> {},
           stayed |-> {}, twins |-> {}, shifts |-> 0, late |-> 0]

OpenList == /\ walk.at = "closed"
            /\ walk' = [NoWalk EXCEPT !.at = "count", !.page = 1,
                                      !.stayed = DOMAIN Listed, !.twins = Twins(Listed)]
            /\ UNCHANGED <<list, tables>>

CountRows == /\ walk.at = "count"
             /\ walk' = [walk EXCEPT !.at = "rows", !.late = 0,
                                     !.total = Cardinality(DOMAIN Listed)]
             /\ UNCHANGED <<list, tables>>

ReadRows == /\ walk.at = "rows"
            /\ \E P \in SUBSET DOMAIN Listed :
                 /\ IsPage(P, Skipped(walk.page))
                 /\ walk' = [walk EXCEPT !.at = "shown", !.seen = @ \cup P]
            /\ UNCHANGED <<list, tables>>

LastPage == walk.page >= TotalPages(walk.total)

TurnPage == /\ walk.at = "shown" /\ ~LastPage
            /\ walk' = [walk EXCEPT !.at = "count", !.page = @ + 1]
            /\ UNCHANGED <<list, tables>>

CloseList == walk.at = "shown" /\ walk' = NoWalk /\ UNCHANGED <<list, tables>>

\* What a write does to the list that is being read.
Watched(L, M) ==
  LET kept == {x \in DOMAIN L \cap DOMAIN M : L[x] = M[x]}
  IN IF walk.at = "closed" THEN walk
     ELSE [walk EXCEPT !.stayed = @ \cap kept, !.twins = @ \cup Twins(M),
                       !.shifts = @ + Cardinality(DOMAIN L \ kept),
                       !.late = @ + Cardinality(DOMAIN M \ DOMAIN L)]

-----------------------------------------------------------------------------
(* The writes *)

\* create, and importFromExcel with one created_at for all.
Register ==
  \E P \in (SUBSET {x \in Rows : pilgrim[x] = NoPilgrim}) \ {{}}, t \in Times :
    pilgrim' = [x \in Rows |-> IF x \in P THEN [NoPilgrim EXCEPT !.at = t, !.ours = TRUE]
                                          ELSE pilgrim[x]]

SetAgency == \E x \in Rows :
  /\ pilgrim[x].at # None /\ ~pilgrim[x].ours
  /\ pilgrim' = [pilgrim EXCEPT ![x].ours = TRUE]

RemoveFromAgency == \E x \in Ours :
  /\ ~pilgrim[x].leads
  /\ pilgrim' = [pilgrim EXCEPT ![x] = [NoPilgrim EXCEPT !.at = pilgrim[x].at]]

\* A soft-deleted pilgrim keeps its membership, and is listed by its group's members.
RemovePilgrim == \E x \in Rows :
  /\ pilgrim[x].at # None
  /\ pilgrim' = [pilgrim EXCEPT ![x].at = None, ![x].ours = FALSE]

AddPilgrimToGroup == \E x \in Ours, t \in Times :
  pilgrim[x].joined = None /\ pilgrim' = [pilgrim EXCEPT ![x].joined = t]

RemovePilgrimFromGroup == \E x \in Rows :
  pilgrim[x].joined # None /\ pilgrim' = [pilgrim EXCEPT ![x].joined = None]

\* setAsGuide, removeAsGuide
FlagGuide == \E x \in Ours : pilgrim' = [pilgrim EXCEPT ![x].guide = ~@]

\* assignGuide, and whatever leaves the guide without a live group.
LeadGroup == \E x \in Ours : /\ pilgrim[x].guide /\ ~pilgrim[x].leads
                             /\ pilgrim' = [pilgrim EXCEPT ![x].leads = TRUE]
LoseGroup == \E x \in Rows : pilgrim[x].leads /\ pilgrim' = [pilgrim EXCEPT ![x].leads = FALSE]

\* The members and guides change in the lists that show it.
WritePilgrim == /\ \/ Register \/ SetAgency \/ RemoveFromAgency \/ RemovePilgrim
                   \/ /\ list \in {"free", "members"}
                      /\ AddPilgrimToGroup \/ RemovePilgrimFromGroup
                   \/ /\ list \in {"leading", "idle"}
                      /\ FlagGuide \/ LeadGroup \/ LoseGroup
                /\ UNCHANGED <<group, request, task, log>>

\* A group's status changes with its row, its members' papers and the day.
CreateGroup == \E x \in Rows, t \in Times :
  group[x].at = None /\ group' = [group EXCEPT ![x] = [at |-> t, status |-> "FORMING"]]
Restate == \E x \in Rows, s \in {"FORMING", "IN_TRIP"} :
  group[x].status \notin {None, s} /\ group' = [group EXCEPT ![x].status = s]
RemoveGroup == \E x \in Rows : group[x].at # None /\ group' = [group EXCEPT ![x] = NoGroup]

WriteGroup == /\ CreateGroup \/ Restate \/ RemoveGroup
              /\ UNCHANGED <<pilgrim, request, task, log>>

CreateDeleteRequest == \E x \in Rows, t \in Times :
  request[x].at = None /\ request' = [request EXCEPT ![x] = [at |-> t, pending |-> TRUE]]

\* approveDeleteRequest, cancelDeleteRequest
CloseDeleteRequest == \E x \in Rows :
  request[x].pending /\ request' = [request EXCEPT ![x].pending = FALSE]

WriteRequest == /\ CreateDeleteRequest \/ CloseDeleteRequest
                /\ UNCHANGED <<pilgrim, group, task, log>>

CreateTask == \E x \in Rows, t \in Times :
  task[x].at = None /\ task' = [task EXCEPT ![x] = [NoTask EXCEPT !.at = t, !.touched = t]]
ChangeTask == \E x \in TasksOf, t \in Times, b \in BOOLEAN :
  /\ t >= task[x].touched /\ (t > task[x].touched \/ b # task[x].flagged)
  /\ task' = [task EXCEPT ![x].touched = t, ![x].flagged = b]
DeleteTask == \E x \in TasksOf : task' = [task EXCEPT ![x] = NoTask]

WriteTask == /\ CreateTask \/ ChangeTask \/ DeleteTask
             /\ UNCHANGED <<pilgrim, group, request, log>>

\* record, an invitation's create.
Append == \E x \in Rows, t \in Times :
  log[x] = None /\ log' = [log EXCEPT ![x] = t]
WriteLog == Append /\ UNCHANGED <<pilgrim, group, request, task>>

\* The client's list reads one table; what is written to the others does not show.
Write == /\ walk.at = "closed" \/ walk.shifts + walk.late < MaxMoves
         /\ CASE list \in {"pilgrims", "free", "leading", "idle", "found", "members"} -> WritePilgrim
              [] list = "groups" -> WriteGroup
              [] list = "requests" -> WriteRequest
              [] list \in {"flagged", "touched"} -> WriteTask
              [] list = "log" -> WriteLog
         /\ UNCHANGED list
         /\ walk' = Watched(Listed, Listed')

-----------------------------------------------------------------------------
Init == /\ list \in Lists
        /\ pilgrim = [x \in Rows |-> NoPilgrim]
        /\ group = [x \in Rows |-> NoGroup]
        /\ request = [x \in Rows |-> NoRequest]
        /\ task = [x \in Rows |-> NoTask]
        /\ log = [x \in Rows |-> None]
        /\ walk = NoWalk

Next == Write \/ OpenList \/ CountRows \/ ReadRows \/ TurnPage \/ CloseList

Spec == Init /\ [][Next]_vars

-----------------------------------------------------------------------------
(* Properties *)

\* A client that has turned the pages to the last has seen every row that was in the list and
\* kept its sort key all along, but for rows that shared a key with another; and for each row
\* that left its place meanwhile, or came after the last count, it may have missed one.
PagesMissOnlyTheMoved ==
  walk.at = "shown" /\ LastPage =>
    Cardinality((walk.stayed \ walk.seen) \ walk.twins) <= walk.shifts + walk.late

=============================================================================
