# A TLA+ development of hajji-backend

hajji-backend (`src/src`, NestJS, knex, PostgreSQL, socket.io) is the server of
travel agencies that take groups of pilgrims on the Hajj. This directory holds
TLA+ modules translated from its handlers, TLC configurations that check them
on small instances, and theorems that TLAPS checks for every instance.

`PROJECT.json` lists the components, the runs, which source lines each
definition stands for, plausible bugs (mutants) that each property catches, the
findings, the hazards and the theorems.

    tlc -workers 2 -config rooms_race.cfg MCAgencyBackend
    tlc -workers 2 -config progress.cfg   MCAgencyBackend
    tlc -workers 2 -config serial.cfg     MCOffice
    tlc -workers 2 -config plans.cfg      MCPlans
    tlc -workers 2 -config accounts.cfg   MCAccounts
    tlc -workers 2 -config chat.cfg       MCMessaging
    tlc -workers 2 -config content.cfg    MCContent
    tlapm AgencyBackendProofs.tla
    tlapm TasksProofs.tla
    tlapm PlansProofs.tla
    tlapm MessagingProofs.tla
    tlapm TripsProofs.tla
    tlapm OfficeProofs.tla
    tlapm AccountsProofs.tla
    tlapm ContentProofs.tla

## 1. The system

One Node.js process serves HTTP requests and websockets. A handler is an `async`
method of a service: a sequence of awaited SQL statements with tests between
them. The event loop may run any other handler at each `await`. A handler may
put its statements into a transaction (`BaseDao.transaction`,
`db.transaction`), which runs at Postgres's default, READ COMMITTED: each
statement reads what others have committed so far, and no read in these
handlers takes a lock. Rows are soft-deleted (`is_deleted`, `deleted_at`) in
some tables and deleted in others.

| Component | State | Operations | Talks to | Hard part | Correct when |
|---|---|---|---|---|---|
| Groups, guide, members (`agencies/groups`, `admins/groups`, `group-members.dao`) | `groups`, `group_members` | create, update, changeStatus, assign/unassignGuide, add/removePilgrim, remove | rooms (release on delete), pilgrims (agency, guide flag), voice keys | groups are soft-deleted, so no foreign key protects what hangs on them | a member is in one live group of its own agency; a group under way is led by its agency's guide |
| Rooms, room requests (`agencies/groups`, `rooms.dao`, `room-requests.dao`) | `rooms`, `room_members`, `room_requests`, `room_request_members` | create, delete, add and remove members | group membership | count, look-up and insert are separate statements | one bed for each pilgrim, in an existing room of its group, within the capacity |
| Affiliation (`agencies/pilgrims`, `admins/pilgrims`, history) | `pilgrims.agency_id`, `is_guide`, `pilgrim_agency_history` | removeFromAgency, set/removeAsGuide, setAgency, removeAgency | groups, rooms | the admin's two statements have no transaction; the agency's five do | agency, memberships and log agree |
| Invitations (`agencies/invitations`, `mobile/invitations`) | `pilgrim_agency_invitations` | create, accept, reject | affiliation, history | check before the transaction, CHECK constraint inside it | accepting joins |
| Account deletion (`mobile/profile`, `admins/pilgrims`) | `pilgrim_delete_requests`, soft delete of pilgrims | create, cancel, approve; the admin's delete without a request | everything that reads pilgrims | cancel and approve overlap | an approval stands; a deleted account stays out |
| Tasks (`agencies/tasks`) | `tasks`, `task_activity_log`, `supervisor_manager_assignments` | create, start, flag, complete, cancel, delete, reassign, close, resolveFlag, continue, assign/unassignManager | websocket, notifications | read, test, update by id, read again, log, push: six awaits and no transaction | ended tasks stay ended; log and screens follow the row |
| Trips and dashboards (`agencies/dashboard`, `admins/dashboard`, group documents) | dates and stored status of groups, members' visa, ticket, passport | write dates and documents; read the dashboards | groups | a status is derived from dates at each read; several queries side by side; days in two time zones | the numbers of one answer agree |
| Lists (`findPaginated` and its siblings) | none | read a page | all tables | a count and a query for each page, rows change between pages, sort keys with ties | a walk misses only what moved |
| Authentication (`auth`) | `otp_sessions`, `refresh_tokens`; Telegram states in memory | send and verify codes, register, refresh, logout, Telegram login | SMS gateway, pilgrims | overlapping refreshes, reads before the update they justify, answers that get lost, a restart loses memory | a proof is spent; who is deleted stays out; a refused app can know why |
| Pilgrim records (`agencies/pilgrims`, `admins/pilgrims`, `mobile/profile`) | `users`, `pilgrims` | create, import a workbook, update (agency; admin), edit the profile | authentication (the phone is the login) | two unique keys, one transaction for a whole file; three edits write the phone, one of them moves the login | an import fails late only for what came late; phone and login part only where an edit leaves the login |
| Chat (`chat`) | `chat_rooms`, members, messages | create a room, send, page, mark read | websocket, notifications | find-or-create without a key, store and push in different orders, timestamps cut to milliseconds | one room for a pair; clients miss nothing; unread counts agree |
| Notifications, websocket registry | `notifications`; sockets in memory | notify, list a page; connect, disconnect, emit | tasks, chat, invitations | nobody awaits `notify`; pages are cut by offset while rows are stored; memory is lost at a restart | a list and the events after it are complete |
| Voice keys (`group-voice-keys.dao`) | `group_voice_keys` | create, ensure, rotate | groups | insert or ignore, then read | a version has one key |
| Mobile content (`admins/{rituals,duas,locations}`, `mobile/*`) and the migrations that seed it | rituals, duas, locations, texts in languages, circuits, du'as of rituals | create, update, remove; seed; download | | replacing is delete and insert; a download is up to six queries; a version that is a time | what a download misses has a newer version |
| Countries, agencies, agency users, guards and filters, SMS | single rows | CRUD | | none beyond unique keys | |

## 2. Modules

| Module | Models |
|---|---|
| `AgencyTables` | the tables of groups, rooms, pilgrims and account deletions, the requests in flight, and what handlers are made of: a first read that begins a request, a read with its test, deletes of an open transaction, its commit |
| `GroupMembership`, `Rooming`, `Affiliation`, `AccountDeletion` | the handlers, one action each |
| `AgencyBackend` | their composition, restart, fairness, types and properties |
| `PlaceBook` | the abstract specification of a membership table: in one place at a time, only in open ones, closing frees everybody |
| `Tasks`, `TaskFlow` | the task handlers with their activity log and the tasks shown on sockets; the abstract life of a task |
| `Plans` | plans, their procedures, confirmations by the app and the agency, and what a pilgrim is shown of today |
| `Trips` | dates, documents and passports, the statuses derived from them, both dashboards |
| `Listings` | eleven paginated lists and a client that turns their pages |
| `Office` | Tasks, `AgencyBackend` (as `Staff`), `Trips` (as `Tour`) and `Listings` (as `Pages`) side by side |
| `AccountTables`, `SignIn`, `PilgrimImport`, `PilgrimRecords`, `Accounts` | the tables of accounts and what is in memory; codes, tokens, registration, Telegram; the rows of a workbook and the places they name (no state); create, import, the agency's and the admin's update, profile, deletion; the composition |
| `ChatTables`, `Delivery`, `Chat`, `VoiceKeys`, `Messaging` | the tables, sockets and clients' views; the registry, events, notifications; chat rooms and messages; voice keys; the composition |
| `ContentTables`, `ContentEdits`, `ContentSeeds`, `Content` | items with texts, circuits and du'as; the edits of staff; migrations 060 to 074; downloads and the composition |
| `AgencyBackendProofs`, `TasksProofs`, `PlansProofs`, `MessagingProofs`, `TripsProofs`, `AccountsProofs`, `ContentProofs`, `OfficeProofs` | theorems; the last one carries those of `Staff` and `Tour` over to `Office` |
| `MCAgencyBackend`, `MCTasks`, `MCOffice`, `MCPlans`, `MCAccounts`, `MCMessaging`, `MCContent` | small instances, their bounds and symmetries |

`AgencyBackend` EXTENDS the four handler modules, which all EXTEND
`AgencyTables`, and INSTANCEs `PlaceBook` three times, for rooms, for room
requests and for groups; `Accounts`, `Messaging` and `Content` are composed in
the same way. `Office` puts together parts that share no table here, so that one
instance serves their properties: a behaviour is of one part (`part`), which is no
restriction since nothing one does changes another. Where two modules have the
same column, each has the writes it needs: `Plans` has a shorter form of joining,
leaving and flagging a guide (`MoveMember`, `FlagGuide`), in any order; `Trips`
and `Listings` let members join and leave at any time; `PilgrimRecords` has
the deletion of a pilgrim, by approval or by the admin alone, as one step
(`ApproveDeletion`), since neither reads anything of accounts before it writes.

### How state and actions correspond to the code

A session `s` of `Sessions` is one request being served; `req[s]` (`call[s]` in
`Content`) is its program counter (`at`: the statement it runs next) and the
locals that a later statement uses. One step is one SQL statement and the test the
handler makes of its result. Accordingly:

- `Begin` (in `Tasks`: `Read`) is a handler's first read. A request that it
  refuses changes nothing, so only accepted ones begin. `Check` is a later read
  with its test; a failed test throws, which ends the request.
- What a handler writes outside a transaction is seen at once. What an open
  transaction has written is kept in its request until the commit (`drops`,
  `users`, `pinfls`, `written`, `dropped`, `fresh`), and locks its rows and
  keys: another write of them waits. A transaction's last write and its COMMIT
  are one step, since nothing is read in between.
- Unique keys, cascades, CHECK constraints and foreign keys are in the
  inserting or deleting action. The foreign key of `group_members` finds the
  row of a soft-deleted group; that of `room_members` does not find a deleted
  room. A shared key lock that an insert takes on its parent does not stop a
  soft delete, so it is left out, but for `Content`, where items are locked by it.
- Columns that no handler writes after the insert (`AgencyOfGroup`,
  `GroupOfRoom`, `Capacity`, ...) are constants. Ids are handed out once.
- A `Restart` drops every request, rolls open transactions back and empties what
  is in memory: Telegram states and tickets, sockets, notices in flight.

Groups, rooms, pilgrims (`AgencyTables`). `over` stands for `storedGroupStatus`
and the return date: a group is over when it is CANCELLED or its return date has
passed, and that is all the handlers ask. An edit may bring it back. `history`
keeps the latest entry of each pilgrim; the properties are about each new entry
and the one it follows.

Tasks. `log` and `screen` keep the latest entry for each task, and user and task.
Timestamps, comments, categories, the distance to the location and the stored
notifications are left out; a location that is too far away is a completion that
is not accepted. The creator never changes, so `emitTaskUpdate`'s
`task.created_by_id` is read from the table. A second reading that finds nothing
leaves `copy` empty, and the handler then fails on `updated.title` after its log
row.

Plans. Rows are soft-deleted and foreign keys never bite: `plans` and `procedures`
are the live rows, `row` keeps the columns of every row inserted. `dated` stands
for `start_date`. The calendar day the app asks for is any day. `told` is not the
server's: it is what the app of a pilgrim knows, which grows with an answer that
arrives and not with one that is lost; after a lost one the app begins `Confirm`
again. The refused insert of a replay (unique index, code 23505) is the same step
as a successful one, since both answer success and leave one row.

Accounts. A one-time code has the age 0 (fresh), 1 (may be sent again) or 2
(expired), which `Passing` raises. A JWT is its account and the second it was
signed in, because nothing else in its payload differs: two pairs of one second are
one string, and look-ups by the token find any row of it. `app` is the token the
app of an account holds, and whether an answer to it was lost. The keys an open
transaction has inserted are in `users` and `pinfls`; `WaitsFor` is Postgres's wait
for them. A deadlock is left as it is in the model (Postgres aborts one of them);
`OnlyImportsDeadlock` says which requests can be in one.
`uses` of a code counts its sign-ins since it was last marked VERIFIED. In all its
life a code has no bound on them that depends on the number of requests alone: a
`verifyOtp` that had read the phone as unregistered marks the code VERIFIED after
others have used it, further requests can then read it, and with an agency's edits
that move the login to another phone and back this can go on.
A phone in `username` is digits, as `normalizePhone` leaves it. So is `pilgrims.phone`
where the code normalizes it (registration, create, import, the agency's edit); the
app's profile edit and the admin's `PATCH /admins/pilgrims/:id` (`BaseService.update`,
one UPDATE by id, `AdminUpdate`) write it as it is sent: null, or a number of `AsTyped`
with its "+", which the admin's DTO asks for. Neither touches `username`.
A Telegram flow is its random state; `pendingStates` and `usedTickets` are in
memory, the ticket itself is signed and outlives a restart.

Messaging. `clock` counts ticks of the database's microseconds, `Grain` of which
make a millisecond, what a JavaScript `Date` keeps: a page's `before` is cut to
it. `after` of a message is the set of messages whose senders had been answered
when it was sent. `notices` are notifications nobody awaits, each inserted and then
pushed. `views` and `bells` are what clients have of the room and the list they
opened. A row of `notes` has its message, its user and its `created_at`, which is any
instant since the message's, so rows may be stored in another order than they are
dated. `ListNotes` answers one page, `limit NotesPage offset (page - 1) * NotesPage`
in the order of `created_at`, with ties in any order of each query; `next` of a bell
is the page to ask for, `down` the `created_at` its last page ended at (0 after a page
that was not full), `cuts` all such ends. `handed` are the group, key and version triples that were answered to
members.

Content. The columns of a row are abstracted to the number of the change that wrote
them, one circuit stands for all that a change inserts, and one du'a of a circuit
for all of its. Migrations find rows by their text, which staff may edit, so a
migration may find any row of the kind. `app` keeps a download with its version.

Trips and lists. Times are slots, `DayLength` of them a day; the office is `Offset`
ahead of UTC. `board` is the dashboard being read: the queries of its `Promise.all`
still to run, what the others saw, and whether anything was written or a day ended
in between (`undisturbed`). In `Listings` a list is the set of rows it shows, each
with its sort key; rows of equal keys come in any order in each query (`IsPage`).
`walk` is a client that turns pages, with what it has seen, and beside it what the
property compares with: which rows stayed in place, which had twins, how many moved
or came late.

## 3. What is checked

Nobody has to call, so these runs do not look for deadlock; `RequestsEnd` and
`OnlyImportsDeadlock` are about requests that wait for each other, and in the other
modules no request waits for more than one. Only `completed_task_reopened` leaves
TLC's deadlock check on.

| Run | Instance | Shows |
|---|---|---|
| `rooms_race` | 2 sessions; one group, 2 rooms of capacity 1, 3 pilgrims; restarts; or every other operation on one pilgrim, one request at a time | `OverbookingBounded`: however `addRoomMember`s overlap, a room holds at most its capacity plus one for each other request (the bound is reached). `RoomsKeepTheBook`: `room_members` implements `PlaceBook` under any overlap with deletes and restarts. `TypeOK` |
| `progress` | 2 sessions; one group, one pilgrim, 2 room requests; restarts; fair | `RequestsEnd`: no request hangs, because both transactions lock rows in the order rooms, requests, members; releasing members first, as the mutant does, makes two of them wait for each other. `RequestsKeepTheBook` |
| `serial` | 1 session; `Office`: two agencies and groups, a room, a request, one pilgrim, a deletion; a task, a supervisor and 2 managers; one trip; lists of 3 rows | see below |
| `plans` | 2 sessions; one plan of at most 2 days with 3 procedures, or one procedure with a pilgrim that is a guide at times and a user of the agency | `PlacesInOrder`: overlapping edits share a place among no more procedures than there are sessions, and leave no place past the length of the day. `ToldIsRecorded`: no replay, edit or move loses a confirmation the app was told of. `TomorrowIsEarned`: `getCurrentPlan`, one query after the other, shows tomorrow only after today. `PlansTypeOK` |
| `accounts` | 2 sessions; 2 phones, digits or as typed, one PINFL, 2 codes, 4 tokens, 2 Telegram flows; restarts, lost answers | `RotationBounded`: overlapping refreshes mint at most one pair for each request. `ProofsAreSpent`: between two times it is marked VERIFIED a code signs in no more often than requests are served at once, and a ticket once, however old entries are pruned. `ImportClashesAreLate`, `ImportPlacesFit`: an accepted workbook fails only for keys written after the check, and each row gets the places it names. `OnlyImportsDeadlock`. `RefusalExplained`: a refresh is refused only after a lost answer, beside another refresh, or for twin tokens. `DeletedStaysOut`. `PhoneIsLogin`: `pilgrims.phone` parts from `users.username` only by an admin's edit or the app's profile edit, which leave the login as it is, or by an agency's edit that read another phone than the one it overwrites. `AccountsTypeOK` |
| `chat` | 2 sessions; 3 users, 3 rooms, 2 sockets, 3 messages, pages of one message and of one notification; restarts | `DmRoomsBounded`: one pair never has more rooms than requests overlap. `PushOrder`: pushes respect answers, although not timestamps. `ViewIsComplete`: history and pushes together miss only twins of a page's end. `BellIsComplete`: down to where a client has turned the pages of its notifications it has every row or is about to get it, but for twins of a page's end: although rows are stored between the pages, the offset of the next page skips none it lacks. Of what lies below nothing is claimed. `VoiceKeysAgree`. `FormerLeftAlone`: a removed colleague is drawn into no new room. `UnreadExplained`: what makes a message read or unread. `MessagingTypeOK` |
| `content` | 2 sessions and the migrations; 2 items, 2 languages, 4 changes; restarts | `ReplacementsBounded`: overlapping updates of a ritual leave no more lists of circuits than there are requests (and one of migration 063). `MissedIsNewer`: what a download misses was written by a change that began after it or was in flight, and a change that began after its last query is not older than its version. `ContentTypeOK` |

`serial` checks what the handlers promise when they are served one by one. Without
transactions most of it does not hold when requests overlap, as the violation
runs show, and the code does not claim that it does. Each property spans several
handlers, and a mutant of a single test or write breaks it:

- `GroupsKeepTheBook`: `releaseGroup` closes a group although no cascade does.
  `OnlyRemovalLeavesBeds`, `OnlyAdminSplits`: the only handlers that part a
  pilgrim's bed from its group, and its group, or a running group's guide, from
  its agency. `LogTellsAgency`: the history tells the agency.
- `TasksKeepTheFlow`: the handlers implement `TaskFlow`. `LogFollowsTheTask`: each
  log row starts where the last one ended, and the last one tells the status.
  `ScreensInSync`: creator and assignee see the task as it is, also after a
  reassignment. `TaskTypeOK`.
- `NumbersAgree` ("in one response so the numbers agree with each other"): they
  do when nothing is written and no day ends between the queries, and the passport
  counts add up even then. `LeftOutAtNight`: `localDay` moves a departure back by
  the offset where today is moved ahead, so that a group disappears from the
  upcoming ones up to twice the offset before it leaves, never sooner.
- `PagesMissOnlyTheMoved`: turning pages misses a row that stayed only when
  enough others moved ahead of it, came after the count, or share its sort key.

Runs that show where the code and its own text differ (each is in `findings`):

| Run | The text | What happens |
|---|---|---|
| `removed_keeps_bed` | "Pilgrim is not a member of this group" is refused a bed; rows left behind "keep the pilgrims out of every other group" | `removePilgrimFromGroup` leaves the bed |
| `join_while_deleting` | "Deleting a group now frees them" | a pilgrim added meanwhile stays in the deleted group |
| `accept_rolls_back` | "If accepted, update pilgrim's agency_id and create history record" | the history row's `action: 'assigned'` fails the CHECK and all is rolled back |
| `cancel_after_approval` | "The pilgrim may CANCEL a still-pending request" | an overlapping cancel overwrites the approval |
| `completed_task_reopened` | "Cannot cancel a completed task", "Cannot reassign a completed task" | a cancel or reassignment that read the task earlier does |

### Bounds

Two sessions show every overlap of two handlers. Ids are used once, so their number
bounds creations; clocks, codes, tokens, messages, keys and changes stop at a named
constant. In detail:

- Groups: three pilgrims and a capacity of one overfill a room, and leave one
  pilgrim to be refused. Two agencies with a group each let a pilgrim carry
  something from one to the other. One pilgrim is enough where a property speaks of
  each one by itself and no statement relates two.
- Tasks: two managers and a supervisor let a task be taken from one and given to
  the other, or be created by a supervisor for itself when it is a manager.
- Plans: three procedures let two be inserted with the same count and one after
  them; confirmations are about one procedure and one pilgrim.
- Trips: three slots a day and an offset of one tell morning, day and night apart;
  a validity of two days stands for six months, since the days that the two ways of
  counting assign to a moment differ by one at most on each side. Lists: pages of
  two of three rows, one change between two queries.
- Accounts: two phones and one PINFL make both clashes. Four tokens and two
  seconds hold a chain with a fork and a twin. Chat: two ticks to a millisecond
  and pages of one make a page that ends between twins; three notifications make two
  full pages and a row that is stored between them. Content: a third change
  after a download and a removal, and a fourth where a ritual has an old list.

Where the product of independent parts would be too large, a CONSTRAINT of the MC
module bounds a behaviour to one of them: `OneHalf`, `OneList` and `NamedByAge`
(`MCOffice`: places or people; what the chosen list does not show; rows named by
age, as one chooses a representative), `OneHalf` (`MCAgencyBackend`: racing for beds, or one pilgrim's guide flag, agency,
invitations and deletion; `MCPlans`: editing or confirming),
`OneOfThese` (`MCAccounts`: codes with deletion, tokens, Telegram, records, records with
numbers as typed one request at a time),
`OneFifth` (`MCMessaging`: making rooms, watching one, notifications, marking, voice
keys), `OneHalf` and `OneKind` (`MCContent`: changes that overlap, or a download
beside them; one kind of item). Each part keeps every action that its properties'
state depends on; what a constraint cuts is, for example, a chat message in the
middle of a key's rotation. The theorems of section 4 hold without these bounds.

### Fairness

`FairSpec` (run `progress`) assumes weak fairness of each request that has begun: the
event loop resumes an awaited statement, and Postgres answers it unless it waits
for a lock. A request is not assumed to be made. A waiting request is not
assumed strongly fair: in `progress` locks are released for good before long,
since each group and each affiliation ends once. Postgres queues lock waiters,
so starvation by ever new transactions is not a question of this code. Were two
transactions to wait for each other, Postgres would abort one of them after
`deadlock_timeout`; the model has no such detector, so `RequestsEnd` says that
none is needed. A statement that deletes many rows locks them in one step. The
other runs check safety only and assume no fairness: pushes, notifications and
refreshes are awaited by nobody or may be lost, so nothing in the code promises
that they happen.

## 4. What is proved

`AgencyBackendProofs`, for any agencies, groups, rooms, capacities and Ops, any
finite set of pilgrims and any finite non-empty set of sessions
(`TablesAssumption`, `SessionsAssumption`; TLC evaluates both):

- `TypeCorrect`: `Spec => []TypeOK`. Inductive only with `NamesItsRows`: a
  request that has passed its first statement has its path parameters, so what it
  writes into a table is of the table's type.
- `RoomsImplementTheBook`, `RequestsImplementTheBook`: `Spec` implements
  `RoomBook!Spec` and `RequestBook!Spec`. Under `TypeOK` each handler that
  writes `room_members` is a step of the book (an insert is Take, because the
  key and the foreign key are tested by the insert; a delete or a commit is
  Leave; `deleteRoom` is Close), and all others leave it unchanged.
- `NobodyInADeletedRoom`: with `PlaceBook`'s own invariant, no `room_members`
  row names a deleted room.
- `OverbookingIsBounded`: `[]OverbookingBounded`. The bound alone is not
  inductive: an insert does not look at the capacity. The inductive invariant
  is `TypeOK /\ BedsPromised`, where every request past the count is as good
  as a member. The count lets a request pass only with at most `Capacity - 1`
  members, while at most all sessions are past it; the insert turns a promise
  into a member; every other step keeps or lowers the sum.
- With one session, `AloneGroupsImplementTheBook` (`GroupsKeepTheBook`),
  `AloneBedsFollow` (`OnlyRemovalLeavesBeds`), `AloneOnlyAdminSplits`
  (`OnlyAdminSplits`), and, where the process does not restart,
  `AloneLogTellsAgency` (`[]LogTellsAgency`). Nothing protects these but the
  handlers' own tests, so the inductive invariant says, for each handler, that
  what it has tested still holds when it writes, and that the rows its open
  transaction has deleted are all of those it should (`Knows`: `GuideKnows`,
  `JoinKnows`, `RoomKnows`, `DropKnows`, `AdminKnows`), and that a group that is
  not there yet has no guide (`FreshHaveNoGuide`). Requests of others would break
  `Knows`, as the violation runs show. For the log, `HistoryFollows` adds that a
  pilgrim whose agency is not told by its last row is the one whose row the
  request is about to write; a crash between the two statements of an admin's
  handler loses the row for good, hence the hypothesis.

Each of them is of the form `ASSUME NEW s, Sessions = {s}`, the service of one
request at a time that `serial` checks; everything else is arbitrary.

`TasksProofs`, for any tasks, users and managers (`UsersAssumption`):

- `TasksTypeCorrect`: `Spec => []TaskTypeOK` for any number of sessions; with
  it, an inserted task keeps a creator and an assignee.
- `AloneTasksImplementTheFlow`: with a single session, `Spec` implements
  `TaskFlow`. The inductive invariant adds `NothingStale`: when a request comes
  to write, what it tested is still true of the row. A second cancellation of a
  cancelled task is a stutter of `TaskFlow`.
- `AloneLogFollows`, `AloneScreensInSync`: with a single session,
  `LogFollowsTheTask` and `[]ScreensInSync`. The invariant `AllTold` follows a
  request from its write to its last push: the log tells the row but for the task
  just written (`LogTells`), the screens of creator and assignee show it but for
  the tasks still to be pushed (`ScreensTell`, `Unshown`), and the copy that is
  read again is the row (`InStep`), since nobody else writes in between.

`PlansProofs`, for any groups, pilgrims, plans and days and any finite sets of
procedures and sessions (`PlansAssumption`):

- `PlansTypeCorrect`: `Spec => []PlansTypeOK`.
- `ConfirmationsAreRecorded`: `Spec => []ToldIsRecorded`. A success is answered
  by the step that has found the row or inserts it, confirmations are never
  deleted, and a request to confirm keeps its pilgrim and role.
- `TomorrowComesAfterToday`: `Spec => []TomorrowIsEarned`.
- `DaysAreInOrder`: `Spec => []PlacesInOrder`. Its invariant `DaysInOrder` counts,
  for each day and place, the procedures there together with the requests that have
  counted that place and not inserted yet; besides deletions only the two statements
  of `createProcedure` are about places (`PlaceSteps`).

  They follow from `PlansInvariant`. Its part `CallsKept` says what a
  request keeps from earlier statements: the plan or procedure it named, who
  asks, that all confirmations it has seen are recorded, and, once it is about to
  show tomorrow, that what it has seen completes what it has read for today.
  It holds of a request while others write, because procedures stay inserted
  and confirmations stay (`Grows`).

`MessagingProofs`, for any users, rooms, sockets, groups and bounds and any finite
non-empty set of sessions (`MessagingAssumption`):

- `MessagingTypes`: `Spec => []MessagingTypeOK`, from `TypeInv`, which adds
  `CallsKept` (what a request keeps of the rows it has read) and `KeysFit` (what
  the table and the answers say of voice keys). Most actions leave most tables
  alone, which the lemmas on frames state once, and messages and rooms only grow.
- `OneKeyPerVersion`: `[]VoiceKeysAgree`, since a rotation writes a new key and the
  next version in one statement, and a read answers the row it finds.
- `DmRoomsAreBounded`: `[]DmRoomsBounded`. As with the beds, the inductive form
  counts the requests that have looked for the pair's room and found none.
- `PushesAreOrdered`: `[]PushOrder`. What a socket has got before a message was
  sent cannot have come after it; a message that is about to be pushed has not
  been answered.
- `ViewsAreComplete`, `BellsAreComplete`: `[]ViewIsComplete`, `[]BellIsComplete`.
  A page is read while the socket is registered, so what is stored later is pushed
  later: the invariant speaks of each message between its insert and its push. For
  the pages of notifications it adds a count (`BellsCount`): the rows of the user that
  are no older than the end of the last page read are at least as many as the pages
  read so far hold, since rows are never deleted, for any `NotesPage` from one. So the
  offset of the next page falls among them: what is stored in between is pushed, and
  moves no older row out of reach.
- `FormerAreLeftAlone`, `UnreadIsExplained`: the two action properties, one case
  for each action.

`TripsProofs`, under `TripsAssumption` (the office is at most a day ahead of UTC, a
passport must outlast the return by two days or more; `Office` has TLC evaluate it):

- `NumbersFit`: `[]NumbersAgree`. The invariant `BoardFits` says that what an
  undisturbed dashboard has read is what the tables still say; `SameDay` is why a
  tick within one day changes no answer. The passports add up, disturbed or not,
  because the two ways of counting a day differ by one at most (`OffsetDays`),
  which the validity exceeds.
- `LeavesShortlyBefore`: `[]LeftOutAtNight`, from the arithmetic of days alone:
  a later day has later times only (`LaterDay`).

`AccountsProofs`, for any accounts, phones, PINFLs, files, places, flows and bounds
and any finite non-empty set of sessions. `AccountsAssumption` says that None is no
value of a column; `RecordsAssumption` that a file has rows, that None is no
place or id, and that an id is of one region. All nine properties of `accounts`
are proved, from one inductive invariant `Inv`:

- `TypesStay`: `[]AccountsTypeOK`. Its part `CallKept` says what a request keeps
  of what it has read: the code it may still use is of its phone and was there,
  the token row it found has its token, its open transaction holds the keys of the
  row it inserts, and of a file what is left of its rows (`KnowsFile`). It stays
  true while others write because codes and tokens are only appended and keep
  their owner (`Grows`), and logins are not taken back.
- `RotationsAreBounded`: `[]RotationBounded`. `RotationInv` counts the children
  of a token and the refreshes that have found it unrevoked together.
- `ProofsOfAPhoneAreSpent`: `[]ProofsAreSpent`. `CodesInv` counts the sign-ins of a
  code and the requests that may still use it; `TicketsInv` says that a ticket
  that was redeemed is remembered as long as it can be presented.
- `FilesNeverClashWithThemselves`, `PlacesOfAFileFit`: `[]ImportClashesAreLate`,
  `[]ImportPlacesFit`, for a file of any length: the keys of an accepted file are
  pairwise different (`FileOk`) and none was taken at the read.
- `DeadlocksHaveAnImport`: `[]OnlyImportsDeadlock`. Among other requests one that is
  waited for has written its login and one that waits has not, so there is no chain
  of two waits.
- `RefusalsAreExplained`: `RefusalExplained`, from `TokensInv`: what the app of an
  account holds is unrevoked, unless an answer was lost or is due, or two rows have
  the same token; the token of an answer that is due is nobody's yet.
- `DeletedStayOut`, `PhonesStayLogins`: `DeletedStaysOut`, `PhoneIsLogin`, one case
  for each step that writes tokens or accounts. What keeps `PhoneIsLogin` is that an
  insert writes one number into both columns, and that the agency's edit holds the
  login it pairs with the phone, or writes the phone it has read (`KnowsKeys`); the
  admin's edit and the profile's are its exceptions.

`ContentProofs`, for any items, languages and bodies, any finite non-empty set of
sessions and a `MaxChanges` of one or more (change 1 is what the tables hold at
first):

- `ContentTypeCorrect`: `[]ContentTypeOK`. Its invariant `Fit` says what the tables
  hold, what a change in flight has written and will still insert, and that no two
  sessions or the migrations make the same change.
- `ReplacementsStayBounded`: `[]ReplacementsBounded`. Each list of circuits belongs to
  the session or the migrations that inserted it (`Owned`): a session that replaces
  again has seen its own earlier list and deletes it (`DropsSeen`), and what it has
  not inserted yet is nobody's (`NotYet`). So lists map one to one into the sessions
  and the migrations, whose number is the bound.
- `DownloadsMissOnlyTheNewer`: `[]MissedIsNewer`. A step stores only rows of a change
  in flight, stamped since it began (`AddsNew`). Of a download that has begun, every
  change in flight either was open at its first query or began after it (`Ahead`), and
  whatever is stored by now and was not read, be it of a query already made or of an
  item that was not found, is newer (`Known`); that still holds of the answer
  (`Answered`).

`OfficeProofs`, under the assumptions of the parts: a behaviour of the office is one
of each part, up to stuttering (`TourIsAPart`, `StaffIsAPart`). So the theorems about
`Trips` and `AgencyBackend` hold of the office (`NumbersOfTheOffice`,
`LeavesTheOfficeShortlyBefore`, `LogOfTheOffice`, `GroupsOfTheOffice`,
`BedsOfTheOffice`, `SplitsOfTheOffice`), which is the specification `serial` checks.
The lists have their theorem here:

- `WalksMissOnlyTheMoved`: `[]PagesMissOnlyTheMoved`, for all eleven lists, any finite
  set of entries, any integer times and pages of any size from one (`ListsAssumption`).
  `RowsFit` says that a list gives every entry a rank and a time (`Keyed`). Entries
  that share no key have different places (`PlacesDiffer`), so between two places
  there is room for few (`RoomForFew`), and a write moves an entry up by at most the
  number of those that leave their place (`PlacesMoveUp`). Hence the invariant: the
  unseen entries before the end of the last page read (`Missed`) are at most
  `shifts`, and since the count the list has grown by at most `late`; what is behind
  the last page is that much (`FewAreBehind`).

Only model-checked: liveness (`RequestsEnd`; fairness and ENABLED are beyond
TLAPS's backends). Every other property of a passing run is a theorem, some of
them for a single session, as the run has it. No module uses a RECURSIVE operator,
and no theorem needs induction over data.

## 5. Not modelled

Whole components: countries, regions and districts (constants of `PilgrimImport`),
agencies, agency users, admins and users (rows edited one at a time by an admin),
guards, filters and DTOs, the SMS provider, reading and laying out workbooks.

Of the modelled ones:

- Groups and rooms: labels, exports, the columns that are only stored. A group that
  is deleted by hand cascades to its voice key.
- Account deletion: the admin's `DELETE /admins/pilgrims/:id` soft-deletes the pilgrim as
  an approval does, without a request. It is in `PilgrimRecords` (`ApproveDeletion`); in
  `AgencyBackend` a pilgrim is deleted by an approval only, which leaves the tables of
  groups, rooms and pilgrims as the DELETE would and differs in the request's status.
- Invitations: the notifications. Two overlapping invitations, and a further one
  after a rejection, are refused by the unique key on pilgrim and agency. Two
  `createDeleteRequest`s of one pilgrim at once: the second fails on the partial
  unique index with a 500 instead of the message.
- Tasks: categories, distance, the stored notifications. `unassignManager` may
  overlap an assignment of a task to that manager, which nothing forbids.
- Plans: the offline bundle, the roster, listings, the test that a plan is of the
  caller's agency, `confirmed_at`. `updatePlan` may lower `total_days` below a day
  that has procedures (they stay, and are shown on no day); `updateProcedure` may
  write an undefined column; a guide who leads a group without being its member
  sees no plan.
- Authentication: the fixed test code and `SMS_MOCK` (registration refuses in
  production what the comment at `auth.service.ts:243` says), the Google mock, the
  logins by password of staff and admins and password resets, the expiry of refresh
  tokens after seven days, more than one app of an account. Wrong attempts: the
  count is written in the transaction that the throw after it rolls back
  (`auth.service.ts:317`), so it stays as it was.
- Pilgrim records: fields that are no key, blocking. Numbers typed with spaces or
  dashes (a number as typed is the one with its "+"). Passport scans: two overlapping
  uploads leave one file without a row.
- Chat and notifications: `updated_at`, attachments, replies, the list of rooms,
  marking notifications as read, the `total` beside a page of them (a query of its own),
  notifications of other kinds than a message's, socket rooms (`joinRoom`, `leaveRoom`) and messages
  between clients, a sender's other devices.
- Content: audio files (an edit unlinks the file before its transaction, so a
  roll-back leaves a row without its file), lists for admins, down migrations.
  Migrations run one after the other by one process, each in its own transaction,
  and those of different kinds write different tables. `docs/rituals-duas-seed.md`
  lists "`/mobile/rituals` does not return `ritual_duas`" under "Not done yet"; the
  code, and the model, return them.
- Dashboards: charts by month, `getStats`, exports, the 60-day horizon, the choice of
  the next departure. A comment there takes the columns for "UTC, without zone",
  while they are `timestamptz`: that is where `LeftOutAtNight` comes from.
- Lists: `searchPilgrims` without a search text ignores page and limit; the admin's
  list of guides without a group counts deleted groups, unlike its sibling, and asks
  for DISTINCT over a json column, for which Postgres has no equality. Lists without
  a count (histories) are one query with limit and offset.
