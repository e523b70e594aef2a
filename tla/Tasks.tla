------------------------------- MODULE Tasks -------------------------------
(***************************************************************************)
(* Tasks of an agency: agencies/tasks.service and its DAOs.                *)
(*                                                                         *)
(* Every handler reads the task, tests what it read, updates the row by    *)
(* id, reads it again, appends to the activity log and pushes the second   *)
(* reading to the sockets of those concerned.  None opens a transaction,   *)
(* so other requests run between any two of these statements.              *)
(***************************************************************************)
EXTENDS Naturals, FiniteSets

CONSTANTS
  Tasks,      \* ids, handed out once
  Users,      \* agency users of one agency
  Managers,   \* those with role MANAGER
  Sessions,   \* requests served at a time
  None        \* SQL null

ASSUME UsersAssumption == Managers \subseteq Users /\ None \notin Users \cup Tasks

VARIABLES
  status,     \* tasks.status, "none" before the insert
  creator,    \* tasks.created_by_id
  assignee,   \* tasks.assigned_to_id
  deleted,    \* soft-deleted tasks
  manages,    \* supervisor_manager_assignments
  log,        \* the latest task_activity_log row of each task
  screen,     \* the task last pushed to each user's sockets
  req         \* the requests in flight

taskVars == <<status, creator, assignee, deleted>>
tables == <<taskVars, manages, log>>
vars == <<tables, screen, req>>

Open == {"PENDING", "IN_PROGRESS", "FLAGGED", "CONTINUE"}
Statuses == Open \cup {"COMPLETED", "CANCELLED", "CANCELLED_ON_PROBLEM"}

\* What a handler keeps of a task it has read.
Row(t) == [status |-> status[t], assignee |-> assignee[t]]
NoRow == [status |-> "none", assignee |-> None]

\* findOneWithJoins does not see soft-deleted tasks.
Found(t) == status[t] # "none" /\ t \notin deleted

Call(op, at, t, u, m, row) == [op |-> op, at |-> at, task |-> t, actor |-> u,
                               target |-> m, seen |-> row, copy |-> NoRow]
NoCall == Call("idle", "idle", None, None, None, NoRow)

Running(s, op, at) == req[s].op = op /\ req[s].at = at
GoTo(s, at) == req' = [req EXCEPT ![s].at = at]
Reply(s) == req' = [req EXCEPT ![s] = NoCall]

-----------------------------------------------------------------------------
(* The statements the handlers share *)

\* The status an operation writes.
To == [createTask |-> "PENDING", startTask |-> "IN_PROGRESS", flagTask |-> "FLAGGED",
       completeTask |-> "COMPLETED", cancelTask |-> "CANCELLED",
       reassignTask |-> "PENDING", closeTask |-> "COMPLETED",
       cancelFlagged |-> "CANCELLED_ON_PROBLEM", approveFlagged |-> "CONTINUE",
       continueTask |-> "IN_PROGRESS"]

\* findOneWithJoins and the tests that follow it.
Read(s, op, at, t, u, m) == /\ req[s] = NoCall
                            /\ Found(t)
                            /\ req' = [req EXCEPT ![s] = Call(op, at, t, u, m, Row(t))]
                            /\ UNCHANGED <<tables, screen>>

\* updateById finds the row whatever has become of it since.
Update(s, op) == /\ Running(s, op, "update")
                 /\ status' = [status EXCEPT ![req[s].task] = To[op]]
                 /\ GoTo(s, "reread")
                 /\ UNCHANGED <<creator, assignee, deleted, manages, log, screen>>

\* A created task that is gone already has no id to log.
Reread(s) ==
  LET t == req[s].task IN
  /\ req[s].at = "reread"
  /\ IF Found(t)
     THEN req' = [req EXCEPT ![s].at = "log", ![s].copy = Row(t)]
     ELSE IF req[s].op = "createTask" THEN Reply(s) ELSE GoTo(s, "log")
  /\ UNCHANGED <<tables, screen>>

LogRow(from, to) == [from |-> from, to |-> to]

LoggedReread(s) == LogRow(req[s].copy.status, To[req[s].op])   \* mutant
LoggedUnmoved(s) == LogRow(req[s].seen.status, req[s].seen.status)   \* mutant

Logged(s) == LogRow(req[s].seen.status, To[req[s].op])

\* Without a second reading there is no title to announce: the request fails.
LogMove(s) ==
  /\ req[s].at = "log" /\ req[s].op # "deleteTask"
  /\ log' = [log EXCEPT ![req[s].task] = Logged(s)]
  /\ IF req[s].copy = NoRow THEN Reply(s) ELSE GoTo(s, "emit")
  /\ UNCHANGED <<taskVars, manages, screen>>

\* A new task is announced to its manager, a change to the creator, the
\* manager, and the manager it was taken from.
Recipients(s) ==
  LET r == req[s] IN
  IF r.op = "createTask" THEN {r.copy.assignee}
  ELSE {creator[r.task], r.copy.assignee}
       \cup IF r.op = "reassignTask" THEN {r.seen.assignee} ELSE {}

ShownBefore(s) == req[s].seen   \* mutant

Shown(s) == req[s].copy

Push(U, t, row) ==
  screen' = [u \in Users |-> IF u \in U THEN [screen[u] EXCEPT ![t] = row] ELSE screen[u]]

Emit(s) == /\ req[s].at = "emit"
           /\ Push(Recipients(s), req[s].task, Shown(s))
           /\ Reply(s)
           /\ UNCHANGED tables

-----------------------------------------------------------------------------
(* Supervisors and managers *)

\* One statement each, after a read of the manager's role; inserting a pair
\* again is ignored.
AssignManager(s) ==
  /\ req[s] = NoCall
  /\ \E u \in Users, m \in Managers : manages' = manages \cup {<<u, m>>}
  /\ UNCHANGED <<taskVars, log, screen, req>>

UnassignManager(s) == /\ req[s] = NoCall
                      /\ \E um \in manages : manages' = manages \ {um}
                      /\ UNCHANGED <<taskVars, log, screen, req>>

-----------------------------------------------------------------------------
(* Handlers *)

InsertTask(s) ==
  /\ Running(s, "createTask", "insert")
  /\ \E t \in Tasks :
       /\ status[t] = "none"
       /\ status' = [status EXCEPT ![t] = "PENDING"]
       /\ creator' = [creator EXCEPT ![t] = req[s].actor]
       /\ assignee' = [assignee EXCEPT ![t] = req[s].target]
       /\ req' = [req EXCEPT ![s].at = "reread", ![s].task = t]
  /\ UNCHANGED <<deleted, manages, log, screen>>

\* Ids are bounded: a request begins only while one is left.
CreateTask(s) ==
  \/ /\ req[s] = NoCall
     /\ Cardinality({r \in Sessions : req[r].at = "insert"})
          < Cardinality({t \in Tasks : status[t] = "none"})
     /\ \E um \in manages :
          req' = [req EXCEPT ![s] = Call("createTask", "insert", None, um[1], um[2], NoRow)]
     /\ UNCHANGED <<tables, screen>>
  \/ InsertTask(s)

\* What the assignee does.
StartTask(s) ==
  \/ \E t \in Tasks : /\ status[t] = "PENDING"
                      /\ Read(s, "startTask", "update", t, assignee[t], None)
  \/ Update(s, "startTask")

FlagTask(s) ==
  \/ \E t \in Tasks : /\ status[t] = "IN_PROGRESS"
                      /\ Read(s, "flagTask", "update", t, assignee[t], None)
  \/ Update(s, "flagTask")

\* Near enough to the task's location, if it has one.
CompleteTask(s) ==
  \/ \E t \in Tasks : /\ status[t] = "IN_PROGRESS"
                      /\ Read(s, "completeTask", "update", t, assignee[t], None)
  \/ Update(s, "completeTask")

ContinueTask(s) ==
  \/ \E t \in Tasks : /\ status[t] = "CONTINUE"
                      /\ Read(s, "continueTask", "update", t, assignee[t], None)
  \/ Update(s, "continueTask")

\* What the creator does.
NotCancelled(t) == status[t] # "CANCELLED_ON_PROBLEM"   \* mutant

\* A task CANCELLED already is cancelled and logged once more.
MayCancel(t) == status[t] \notin {"COMPLETED", "CANCELLED_ON_PROBLEM"}

CancelTask(s) ==
  \/ \E t \in Tasks : /\ MayCancel(t)
                      /\ Read(s, "cancelTask", "update", t, creator[t], None)
  \/ Update(s, "cancelTask")

CloseTask(s) ==
  \/ \E t \in Tasks : /\ status[t] \in Open
                      /\ Read(s, "closeTask", "update", t, creator[t], None)
  \/ Update(s, "closeTask")

ResolveFlag(s) ==
  \E op \in {"cancelFlagged", "approveFlagged"} :
    \/ \E t \in Tasks : /\ status[t] = "FLAGGED"
                        /\ Read(s, op, "update", t, creator[t], None)
    \/ Update(s, op)

\* isManagedBy
Supervised(s) ==
  /\ Running(s, "reassignTask", "supervised")
  /\ IF <<req[s].actor, req[s].target>> \in manages THEN GoTo(s, "update") ELSE Reply(s)
  /\ UNCHANGED <<tables, screen>>

NotReassigned(s) == req[s].copy.assignee   \* mutant

NewAssignee(s) == req[s].target

WriteAssignee(s) ==
  /\ Running(s, "reassignTask", "update")
  /\ status' = [status EXCEPT ![req[s].task] = "PENDING"]
  /\ assignee' = [assignee EXCEPT ![req[s].task] = NewAssignee(s)]
  /\ GoTo(s, "reread")
  /\ UNCHANGED <<creator, deleted, manages, log, screen>>

ReassignTask(s) ==
  \/ \E t \in Tasks, m \in Managers :
       /\ status[t] \in Open
       /\ Read(s, "reassignTask", "supervised", t, creator[t], m)
  \/ Supervised(s)
  \/ WriteAssignee(s)

-----------------------------------------------------------------------------
(* deleteTask: announced with the task as first read, one user at a time *)

SoftDelete(s) == /\ Running(s, "deleteTask", "delete")
                 /\ deleted' = deleted \cup {req[s].task}
                 /\ GoTo(s, "log")
                 /\ UNCHANGED <<status, creator, assignee, manages, log, screen>>

LogDeleted(s) == /\ Running(s, "deleteTask", "log")
                 /\ log' = [log EXCEPT ![req[s].task] = LogRow(req[s].seen.status, "none")]
                 /\ GoTo(s, "tellCreator")
                 /\ UNCHANGED <<taskVars, manages, screen>>

TellCreator(s) ==
  /\ Running(s, "deleteTask", "tellCreator")
  /\ Push({req[s].actor}, req[s].task, req[s].seen)
  /\ IF req[s].actor = req[s].seen.assignee THEN Reply(s) ELSE GoTo(s, "tellAssignee")
  /\ UNCHANGED tables

TellAssignee(s) == /\ Running(s, "deleteTask", "tellAssignee")
                   /\ Push({req[s].seen.assignee}, req[s].task, req[s].seen)
                   /\ Reply(s)
                   /\ UNCHANGED tables

DeleteTask(s) ==
  \/ \E t \in Tasks : Read(s, "deleteTask", "delete", t, creator[t], None)
  \/ SoftDelete(s) \/ LogDeleted(s) \/ TellCreator(s) \/ TellAssignee(s)

-----------------------------------------------------------------------------
Init == /\ status = [t \in Tasks |-> "none"]
        /\ creator = [t \in Tasks |-> None] /\ assignee = [t \in Tasks |-> None]
        /\ deleted = {} /\ manages = {}
        /\ log = [t \in Tasks |-> LogRow("none", "none")]
        /\ screen = [u \in Users |-> [t \in Tasks |-> NoRow]]
        /\ req = [s \in Sessions |-> NoCall]

Serve(s) == \/ AssignManager(s) \/ UnassignManager(s)
            \/ CreateTask(s) \/ StartTask(s) \/ FlagTask(s) \/ CompleteTask(s)
            \/ ContinueTask(s) \/ CancelTask(s) \/ CloseTask(s) \/ ResolveFlag(s)
            \/ ReassignTask(s) \/ DeleteTask(s)
            \/ Reread(s) \/ LogMove(s) \/ Emit(s)

Next == \E s \in Sessions : Serve(s)

Spec == Init /\ [][Next]_vars

-----------------------------------------------------------------------------
Rows == [status : Statuses \cup {"none"}, assignee : Managers \cup {None}]

Calls == [op : DOMAIN To \cup {"idle", "deleteTask"},
          at : {"idle", "insert", "supervised", "update", "reread", "log", "emit",
                "delete", "tellCreator", "tellAssignee"},
          task : Tasks \cup {None}, actor : Users \cup {None},
          target : Managers \cup {None}, seen : Rows, copy : Rows]

\* Past its first statement a request has its parameters, and names a task
\* that was inserted.
NamesItsRows(r) ==
  /\ r.at \in {"supervised", "update"} => status[r.task] # "none"
  /\ r.at = "insert" => r.actor \in Users /\ r.target \in Managers
  /\ r.at \in {"supervised", "update", "delete", "reread", "log"} => r.task \in Tasks
  /\ r.op = "reassignTask" => r.target \in Managers
  /\ r.at \in {"reread", "log"} => r.op # "idle"

\* The columns are NOT NULL: a task has a creator and an assignee.
RowsOK ==
  /\ status \in [Tasks -> Statuses \cup {"none"}]
  /\ creator \in [Tasks -> Users \cup {None}]
  /\ assignee \in [Tasks -> Managers \cup {None}]
  /\ \A t \in Tasks : status[t] # "none" => creator[t] \in Users /\ assignee[t] \in Managers
  /\ deleted \subseteq Tasks /\ manages \subseteq Users \X Managers

LogOK == log \in [Tasks -> [from : Statuses \cup {"none"}, to : Statuses \cup {"none"}]]

ScreensOK == screen \in [Users -> [Tasks -> Rows]]

CallsOK == /\ req \in [Sessions -> Calls]
           /\ \A s \in Sessions : NamesItsRows(req[s])

TaskTypeOK == RowsOK /\ LogOK /\ ScreensOK /\ CallsOK

-----------------------------------------------------------------------------
Quiet(t) == \A s \in Sessions : req[s].task # t

Flow == INSTANCE TaskFlow

\* With requests served one by one the handlers keep the flow: nothing moves a
\* task that has ended or is deleted, and a flagged one waits for its creator
\* (tasks.service, "A flagged task isn't finished").
TasksKeepTheFlow == Flow!Spec

\* Its inductive form: when a request served alone comes to write, what it has
\* tested still holds.
Tested == [createTask |-> {}, startTask |-> {"PENDING"}, flagTask |-> {"IN_PROGRESS"},
           completeTask |-> {"IN_PROGRESS"}, cancelTask |-> Open \cup {"CANCELLED"},
           reassignTask |-> Open, closeTask |-> Open, cancelFlagged |-> {"FLAGGED"},
           approveFlagged |-> {"FLAGGED"}, continueTask |-> {"CONTINUE"}]

StillTrue(r) ==
  /\ r.at \in {"supervised", "update"} =>
       /\ r.op \in DOMAIN Tested
       /\ r.task \notin deleted /\ status[r.task] \in Tested[r.op]
       /\ r.op = "reassignTask" => r.actor = creator[r.task]
  /\ r.at = "insert" \/ (r.op = "reassignTask" /\ r.at = "update") =>
       <<r.actor, r.target>> \in manages

NothingStale == \A s \in Sessions : StillTrue(req[s])

\* "Cannot reassign a completed task": a completed task stays completed.
CompletedStays ==
  [][\A t \in Tasks : status[t] = "COMPLETED" => status'[t] = "COMPLETED"]_vars

\* The last row of a task nobody is working on tells the task's status; of a deleted one, the
\* status it was deleted in.
LogTellsTheTask ==
  \A t \in Tasks : Quiet(t) =>
    IF t \in deleted THEN log[t] = LogRow(status[t], "none") ELSE log[t].to = status[t]

\* With requests served one by one the activity log has no gap, a row starting where the row
\* before it ended, and ends where the task is.
LogFollowsTheTask ==
  [][/\ \A t \in Tasks : log'[t] # log[t] => log'[t].from = log[t].to
     /\ LogTellsTheTask']_vars

\* "Everyone gets the socket event so the actor's other devices stay in sync":
\* with requests served one by one, what was last pushed to the creator and the
\* assignee of a task is the task.
ScreensInSync ==
  \A t \in Tasks : Found(t) /\ Quiet(t) =>
    \A u \in {creator[t], assignee[t]} : screen[u][t] \in {NoRow, Row(t)}

=============================================================================
