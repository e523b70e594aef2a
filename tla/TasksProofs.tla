----------------------------- MODULE TasksProofs -----------------------------
(***************************************************************************)
(* Theorems about Tasks: its types for any number of sessions, and that    *)
(* requests served one by one keep TaskFlow.                               *)
(***************************************************************************)
EXTENDS Tasks, TLAPS

-----------------------------------------------------------------------------
(* Types *)

USE UsersAssumption

LEMMA NoRowType == NoRow \in Rows
  BY DEF NoRow, Rows

LEMMA RowType ==
  ASSUME RowsOK, NEW t \in Tasks
  PROVE  Row(t) \in Rows
  BY DEF RowsOK, Row, Rows

LEMMA NoCallType == NoCall \in Calls /\ NamesItsRows(NoCall)
  BY NoRowType DEF NoCall, Call, Calls, NamesItsRows

\* Rows are inserted and never go.
Kept == \A t \in Tasks : status[t] # "none" => status'[t] # "none"

LEMMA ReplyType ==
  ASSUME CallsOK, Kept, NEW s \in Sessions, Reply(s)
  PROVE  CallsOK'
  BY NoCallType DEF CallsOK, Reply, Kept, NamesItsRows, NoCall, Call

\* A request goes on to a statement it has the parameters of.
LEMMA GoToType ==
  ASSUME CallsOK, Kept, NEW s \in Sessions, NEW at, GoTo(s, at),
         at \in {"update", "reread", "log", "emit", "tellCreator", "tellAssignee"},
         req[s].task \in Tasks, req[s].op # "idle",
         at = "update" => status[req[s].task] # "none"
  PROVE  CallsOK'
  BY DEF CallsOK, GoTo, Calls, NamesItsRows, Kept

LEMMA ReadType ==
  ASSUME TaskTypeOK, NEW s \in Sessions, NEW op \in DOMAIN To \cup {"deleteTask"},
         NEW at \in {"supervised", "update", "delete"},
         NEW t \in Tasks, NEW u \in Users \cup {None}, NEW m \in Managers \cup {None},
         op = "reassignTask" => m \in Managers,
         Read(s, op, at, t, u, m)
  PROVE  TaskTypeOK'
  <1> DEFINE call == Call(op, at, t, u, m, Row(t))
  <1>1. Row(t) \in Rows /\ NoRow \in Rows BY RowType, NoRowType DEF TaskTypeOK
  <1>2. call \in Calls BY <1>1 DEF Call, Calls
  <1>3. NamesItsRows(call) BY DEF Call, NamesItsRows, Read, Found
  <1>4. CallsOK'
    BY <1>2, <1>3 DEF Read, TaskTypeOK, CallsOK, NamesItsRows, tables, taskVars
  <1> QED BY <1>4 DEF Read, TaskTypeOK, RowsOK, LogOK, ScreensOK, tables, taskVars

LEMMA UpdateType ==
  ASSUME TaskTypeOK, NEW s \in Sessions, NEW op \in DOMAIN To, Update(s, op)
  PROVE  TaskTypeOK'
  <1>1. req[s] \in Calls /\ NamesItsRows(req[s]) BY DEF TaskTypeOK, CallsOK
  <1> DEFINE t == req[s].task
  <1>2. t \in Tasks /\ req[s].op # "idle" /\ status[t] # "none"
    BY <1>1 DEF Update, Running, NamesItsRows, To
  <1>3. To[op] \in Statuses BY DEF To, Statuses, Open
  <1>4. "none" \notin Statuses BY DEF Statuses, Open
  <1>5. Kept BY <1>2, <1>3, <1>4 DEF Update, Kept, TaskTypeOK, RowsOK
  <1>6. CallsOK' BY <1>2, <1>5, GoToType DEF Update, TaskTypeOK
  <1>7. RowsOK' BY <1>2, <1>3 DEF Update, TaskTypeOK, RowsOK
  <1> QED BY <1>6, <1>7 DEF Update, TaskTypeOK, LogOK, ScreensOK

LEMMA RereadType ==
  ASSUME TaskTypeOK, NEW s \in Sessions, Reread(s)
  PROVE  TaskTypeOK'
  <1> DEFINE t == req[s].task
  <1>1. req[s] \in Calls /\ NamesItsRows(req[s]) BY DEF TaskTypeOK, CallsOK
  <1>2. t \in Tasks /\ req[s].op # "idle" BY <1>1 DEF Reread, NamesItsRows
  <1>3. Kept BY DEF Reread, Kept, tables, taskVars
  <1>4. CallsOK'
    <2>1. CASE req' = [req EXCEPT ![s].at = "log", ![s].copy = Row(t)]
      <3> DEFINE call == [req[s] EXCEPT !.at = "log", !.copy = Row(t)]
      <3>1. Row(t) \in Rows BY <1>2, RowType DEF TaskTypeOK
      <3>2. call \in Calls BY <1>1, <3>1 DEF Calls
      <3>3. NamesItsRows(call) BY <1>1, <1>2 DEF NamesItsRows, Calls
      <3>4. req' = [req EXCEPT ![s] = call] BY <2>1 DEF TaskTypeOK, CallsOK
      <3> HIDE DEF call
      <3> QED BY <3>2, <3>3, <3>4 DEF Reread, TaskTypeOK, CallsOK, NamesItsRows,
                                      tables, taskVars
    <2>2. CASE Reply(s) BY <2>2, <1>3, ReplyType DEF TaskTypeOK
    <2>3. CASE GoTo(s, "log") BY <2>3, <1>2, <1>3, GoToType DEF TaskTypeOK
    <2> QED BY <2>1, <2>2, <2>3 DEF Reread
  <1> QED BY <1>4 DEF Reread, TaskTypeOK, RowsOK, LogOK, ScreensOK, tables, taskVars

LEMMA LogMoveType ==
  ASSUME TaskTypeOK, NEW s \in Sessions, LogMove(s)
  PROVE  TaskTypeOK'
  <1>1. req[s] \in Calls /\ NamesItsRows(req[s]) BY DEF TaskTypeOK, CallsOK
  <1>2. req[s].task \in Tasks /\ req[s].op \in DOMAIN To
    BY <1>1 DEF LogMove, NamesItsRows, Calls
  <1>3. Kept BY DEF LogMove, Kept, taskVars
  <1>4. CallsOK'
    <2>1. CASE Reply(s) BY <2>1, <1>3, ReplyType DEF TaskTypeOK
    <2>2. CASE GoTo(s, "emit") BY <2>2, <1>2, <1>3, GoToType DEF TaskTypeOK, To
    <2> QED BY <2>1, <2>2 DEF LogMove
  <1>5. LogOK'
    <2>1. To[req[s].op] \in Statuses BY <1>2 DEF To, Statuses, Open
    <2>2. req[s].seen.status \in Statuses \cup {"none"} BY <1>1 DEF Calls, Rows
    <2> QED BY <1>2, <2>1, <2>2 DEF LogMove, TaskTypeOK, LogOK, Logged, LogRow
  <1> QED BY <1>4, <1>5 DEF LogMove, TaskTypeOK, RowsOK, ScreensOK, taskVars

LEMMA PushType ==
  ASSUME ScreensOK, NEW U, NEW t, NEW row \in Rows, Push(U, t, row)
  PROVE  ScreensOK'
  BY DEF ScreensOK, Push

LEMMA EmitType ==
  ASSUME TaskTypeOK, NEW s \in Sessions, Emit(s)
  PROVE  TaskTypeOK'
  <1>1. Shown(s) \in Rows BY DEF TaskTypeOK, CallsOK, Calls, Shown
  <1>2. ScreensOK' BY <1>1, PushType DEF Emit, TaskTypeOK
  <1>3. Kept BY DEF Emit, Kept, tables, taskVars
  <1>4. CallsOK' BY <1>3, ReplyType DEF Emit, TaskTypeOK
  <1> QED BY <1>2, <1>4 DEF Emit, TaskTypeOK, RowsOK, LogOK, tables, taskVars

LEMMA InsertTaskType ==
  ASSUME TaskTypeOK, NEW s \in Sessions, InsertTask(s)
  PROVE  TaskTypeOK'
  <1>1. req[s] \in Calls /\ NamesItsRows(req[s]) BY DEF TaskTypeOK, CallsOK
  <1>2. req[s].actor \in Users /\ req[s].target \in Managers /\ req[s].op = "createTask"
    BY <1>1 DEF InsertTask, Running, NamesItsRows
  <1>3. PICK t \in Tasks : /\ status[t] = "none"
                           /\ status' = [status EXCEPT ![t] = "PENDING"]
                           /\ creator' = [creator EXCEPT ![t] = req[s].actor]
                           /\ assignee' = [assignee EXCEPT ![t] = req[s].target]
                           /\ req' = [req EXCEPT ![s].at = "reread", ![s].task = t]
    BY DEF InsertTask
  <1>4. Kept BY <1>3 DEF Kept, TaskTypeOK, RowsOK
  <1>5. RowsOK' BY <1>2, <1>3 DEF InsertTask, TaskTypeOK, RowsOK, Statuses, Open
  <1>6. CallsOK'
    <2> DEFINE call == [req[s] EXCEPT !.at = "reread", !.task = t]
    <2>1. call \in Calls BY <1>1 DEF Calls
    <2>2. NamesItsRows(call) BY <1>1, <1>2 DEF NamesItsRows, Calls
    <2>3. req' = [req EXCEPT ![s] = call] BY <1>3 DEF TaskTypeOK, CallsOK
    <2> HIDE DEF call
    <2> QED BY <2>1, <2>2, <2>3, <1>4 DEF TaskTypeOK, CallsOK, NamesItsRows, Kept, Calls
  <1> QED BY <1>5, <1>6 DEF InsertTask, TaskTypeOK, LogOK, ScreensOK

LEMMA CreateTaskType ==
  ASSUME TaskTypeOK, NEW s \in Sessions, CreateTask(s)
  PROVE  TaskTypeOK'
  <1>1. CASE InsertTask(s) BY <1>1, InsertTaskType
  <1>2. CASE ~ InsertTask(s)
    <2>1. PICK um \in manages :
            req' = [req EXCEPT ![s] = Call("createTask", "insert", None, um[1], um[2], NoRow)]
      BY <1>2 DEF CreateTask
    <2>2. um[1] \in Users /\ um[2] \in Managers BY DEF TaskTypeOK, RowsOK
    <2> DEFINE call == Call("createTask", "insert", None, um[1], um[2], NoRow)
    <2>3. call \in Calls BY <2>2, NoRowType DEF Call, Calls, To
    <2>4. NamesItsRows(call) BY <2>2 DEF Call, NamesItsRows
    <2>5. UNCHANGED <<tables, screen>> BY <1>2 DEF CreateTask
    <2> HIDE DEF call
    <2> QED BY <2>1, <2>3, <2>4, <2>5 DEF call, TaskTypeOK, CallsOK, NamesItsRows, RowsOK,
                                         LogOK, ScreensOK, tables, taskVars
  <1> QED BY <1>1, <1>2

LEMMA SupervisedType ==
  ASSUME TaskTypeOK, NEW s \in Sessions, Supervised(s)
  PROVE  TaskTypeOK'
  <1>1. req[s] \in Calls /\ NamesItsRows(req[s]) BY DEF TaskTypeOK, CallsOK
  <1>2. req[s].task \in Tasks /\ req[s].op # "idle" /\ status[req[s].task] # "none"
    BY <1>1 DEF Supervised, Running, NamesItsRows
  <1>3. Kept BY DEF Supervised, Kept, tables, taskVars
  <1>4. CallsOK'
    <2>1. CASE Reply(s) BY <2>1, <1>3, ReplyType DEF TaskTypeOK
    <2>2. CASE GoTo(s, "update") BY <2>2, <1>2, <1>3, GoToType DEF TaskTypeOK
    <2> QED BY <2>1, <2>2 DEF Supervised
  <1> QED BY <1>4 DEF Supervised, TaskTypeOK, RowsOK, LogOK, ScreensOK, tables, taskVars

LEMMA WriteAssigneeType ==
  ASSUME TaskTypeOK, NEW s \in Sessions, WriteAssignee(s)
  PROVE  TaskTypeOK'
  <1>1. req[s] \in Calls /\ NamesItsRows(req[s]) BY DEF TaskTypeOK, CallsOK
  <1> DEFINE t == req[s].task
  <1>2. t \in Tasks /\ req[s].op # "idle" /\ status[t] # "none" /\ req[s].target \in Managers
    BY <1>1 DEF WriteAssignee, Running, NamesItsRows
  <1>3. Kept BY <1>2 DEF WriteAssignee, Kept, TaskTypeOK, RowsOK
  <1>4. CallsOK' BY <1>2, <1>3, GoToType DEF WriteAssignee, TaskTypeOK
  <1>5. RowsOK'
    BY <1>2 DEF WriteAssignee, NewAssignee, TaskTypeOK, RowsOK, Statuses, Open
  <1> QED BY <1>4, <1>5 DEF WriteAssignee, TaskTypeOK, LogOK, ScreensOK

LEMMA DeletionType ==
  ASSUME TaskTypeOK, NEW s \in Sessions,
         SoftDelete(s) \/ LogDeleted(s) \/ TellCreator(s) \/ TellAssignee(s)
  PROVE  TaskTypeOK'
  <1>1. req[s] \in Calls /\ NamesItsRows(req[s]) BY DEF TaskTypeOK, CallsOK
  <1>2. req[s].seen \in Rows /\ NoRow \in Rows BY <1>1, NoRowType DEF Calls
  <1>3. Kept BY DEF SoftDelete, LogDeleted, TellCreator, TellAssignee, Kept, tables, taskVars
  <1>4. Reply(s) => CallsOK' BY <1>3, ReplyType DEF TaskTypeOK
  <1>5. CASE SoftDelete(s)
    <2>1. req[s].task \in Tasks /\ req[s].op # "idle"
      BY <1>1, <1>5 DEF SoftDelete, Running, NamesItsRows
    <2>2. CallsOK' BY <1>3, <1>5, <2>1, GoToType DEF SoftDelete, TaskTypeOK
    <2> QED BY <1>5, <2>1, <2>2 DEF SoftDelete, TaskTypeOK, RowsOK, LogOK, ScreensOK
  <1>6. CASE LogDeleted(s)
    <2>1. req[s].task \in Tasks /\ req[s].op # "idle"
      BY <1>1, <1>6 DEF LogDeleted, Running, NamesItsRows
    <2>2. CallsOK' BY <1>3, <1>6, <2>1, GoToType DEF LogDeleted, TaskTypeOK
    <2>3. LogOK' BY <1>2, <1>6 DEF LogDeleted, LogRow, TaskTypeOK, LogOK, Rows
    <2> QED BY <1>6, <2>2, <2>3 DEF LogDeleted, TaskTypeOK, RowsOK, ScreensOK, taskVars
  <1>7. CASE TellCreator(s)
    <2>1. ScreensOK' BY <1>2, <1>7, PushType DEF TellCreator, TaskTypeOK
    <2>2. CallsOK' BY <1>1, <1>3, <1>4, <1>7 DEF TellCreator, GoTo, Running, TaskTypeOK,
                                                 CallsOK, Calls, NamesItsRows, Kept
    <2> QED BY <1>7, <2>1, <2>2 DEF TellCreator, TaskTypeOK, RowsOK, LogOK, tables, taskVars
  <1>8. CASE TellAssignee(s)
    <2>1. ScreensOK' BY <1>2, <1>8, PushType DEF TellAssignee, TaskTypeOK
    <2> QED BY <1>4, <1>8, <2>1 DEF TellAssignee, TaskTypeOK, RowsOK, LogOK, tables, taskVars
  <1> QED BY <1>5, <1>6, <1>7, <1>8

\* An operation on a task that exists begins with a reading of it; its creator
\* and assignee are users.
LEMMA PartiesType ==
  ASSUME RowsOK, NEW t \in Tasks
  PROVE  creator[t] \in Users \cup {None} /\ assignee[t] \in Users \cup {None}
  BY DEF RowsOK

Operation(s) == \/ StartTask(s) \/ FlagTask(s) \/ CompleteTask(s) \/ ContinueTask(s)
                \/ CancelTask(s) \/ CloseTask(s) \/ ResolveFlag(s)

\* What these have in common: a reading, or the update that follows it.
Simple == {"startTask", "flagTask", "completeTask", "continueTask", "cancelTask",
           "closeTask", "cancelFlagged", "approveFlagged"}

LEMMA OperationType ==
  ASSUME TaskTypeOK, NEW s \in Sessions, Operation(s)
  PROVE  TaskTypeOK'
  <1> Simple \subseteq DOMAIN To /\ "reassignTask" \notin Simple BY DEF Simple, To
  <1>1. CASE \E op \in Simple : Update(s, op) BY <1>1, UpdateType
  <1>2. CASE \E op \in Simple, t \in Tasks, u \in Users \cup {None} :
               Read(s, op, "update", t, u, None)
    BY <1>2, ReadType
  <1>3. \A t \in Tasks : creator[t] \in Users \cup {None} /\ assignee[t] \in Users \cup {None}
    BY PartiesType DEF TaskTypeOK
  <1>4. CASE ~ \E op \in Simple : Update(s, op)
    <2> QED BY <1>2, <1>3, <1>4
        DEF Operation, Simple, StartTask, FlagTask, CompleteTask, ContinueTask, CancelTask,
            CloseTask, ResolveFlag
  <1> QED BY <1>1, <1>4

LEMMA ManagersType ==
  ASSUME TaskTypeOK, NEW s \in Sessions, AssignManager(s) \/ UnassignManager(s)
  PROVE  TaskTypeOK'
  <1>1. manages' \subseteq Users \X Managers
    BY DEF AssignManager, UnassignManager, TaskTypeOK, RowsOK
  <1> QED BY <1>1 DEF AssignManager, UnassignManager, TaskTypeOK, RowsOK, LogOK, ScreensOK,
                      CallsOK, NamesItsRows, taskVars

LEMMA InitType == Init => TaskTypeOK
  BY NoRowType, NoCallType DEF Init, TaskTypeOK, RowsOK, LogOK, LogRow, ScreensOK, CallsOK

LEMMA StepType == TaskTypeOK /\ [Next]_vars => TaskTypeOK'
  <1> SUFFICES ASSUME TaskTypeOK, [Next]_vars PROVE TaskTypeOK'
    OBVIOUS
  <1>1. CASE UNCHANGED vars
    BY <1>1 DEF TaskTypeOK, RowsOK, LogOK, ScreensOK, CallsOK, NamesItsRows,
                vars, tables, taskVars
  <1>2. ASSUME NEW s \in Sessions, Serve(s) PROVE TaskTypeOK'
    <2>1. CASE AssignManager(s) \/ UnassignManager(s) BY <2>1, ManagersType
    <2>2. CASE CreateTask(s) BY <2>2, CreateTaskType
    <2>3. CASE Operation(s) BY <2>3, OperationType
    <2>4. CASE ReassignTask(s)
      <3>1. CASE Supervised(s) BY <3>1, SupervisedType
      <3>2. CASE WriteAssignee(s) BY <3>2, WriteAssigneeType
      <3>3. CASE \E t \in Tasks, m \in Managers :
                   Read(s, "reassignTask", "supervised", t, creator[t], m)
        <4> "reassignTask" \in DOMAIN To BY DEF To
        <4> QED BY <3>3, ReadType, PartiesType DEF TaskTypeOK
      <3> QED BY <2>4, <3>1, <3>2, <3>3 DEF ReassignTask
    <2>5. CASE DeleteTask(s)
      <3>1. CASE \E t \in Tasks : Read(s, "deleteTask", "delete", t, creator[t], None)
        BY <3>1, ReadType, PartiesType DEF TaskTypeOK
      <3> QED BY <2>5, <3>1, DeletionType DEF DeleteTask
    <2>6. CASE Reread(s) BY <2>6, RereadType
    <2>7. CASE LogMove(s) BY <2>7, LogMoveType
    <2>8. CASE Emit(s) BY <2>8, EmitType
    <2> QED BY <1>2, <2>1, <2>2, <2>3, <2>4, <2>5, <2>6, <2>7, <2>8 DEF Serve, Operation
  <1> QED BY <1>1, <1>2 DEF Next

\* Every row, log entry, screen and request in flight keeps its type, however
\* many requests the server handles at a time: no statement of a handler names
\* a task that was never inserted, and an inserted task never loses its creator
\* or assignee.
THEOREM TasksTypeCorrect == Spec => []TaskTypeOK
  BY InitType, StepType, PTL DEF Spec

-----------------------------------------------------------------------------
(* Requests served one by one *)

\* Only a request about to write has anything to remember.
LEMMA Harmless ==
  ASSUME NEW r, r.at \notin {"insert", "supervised", "update"}
  PROVE  StillTrue(r)
  BY DEF StillTrue

\* An operation writes, or has just tested what it read.
TestsFirst(s, op) == \/ Update(s, op)
                     \/ \E t \in Tasks, u \in Users \cup {None} :
                          /\ Read(s, op, "update", t, u, None)
                          /\ status[t] \in Tested[op]

LEMMA OperationTests ==
  ASSUME TaskTypeOK, NEW s \in Sessions, Operation(s)
  PROVE  \E op \in Simple : TestsFirst(s, op)
  <1>1. \A t \in Tasks : MayCancel(t) /\ status[t] # "none"
                          => status[t] \in Open \cup {"CANCELLED"}
    BY DEF MayCancel, TaskTypeOK, RowsOK, Statuses
  <1>2. \A t \in Tasks : creator[t] \in Users \cup {None} /\ assignee[t] \in Users \cup {None}
    BY PartiesType DEF TaskTypeOK
  <1>3. StartTask(s) => TestsFirst(s, "startTask")
    BY <1>2 DEF StartTask, TestsFirst, Tested
  <1>4. FlagTask(s) => TestsFirst(s, "flagTask")
    BY <1>2 DEF FlagTask, TestsFirst, Tested
  <1>5. CompleteTask(s) => TestsFirst(s, "completeTask")
    BY <1>2 DEF CompleteTask, TestsFirst, Tested
  <1>6. ContinueTask(s) => TestsFirst(s, "continueTask")
    BY <1>2 DEF ContinueTask, TestsFirst, Tested
  <1>7. CancelTask(s) => TestsFirst(s, "cancelTask")
    BY <1>1, <1>2 DEF CancelTask, TestsFirst, Tested, Read, Found
  <1>8. CloseTask(s) => TestsFirst(s, "closeTask")
    BY <1>2 DEF CloseTask, TestsFirst, Tested
  <1>9. ResolveFlag(s) => \E op \in {"cancelFlagged", "approveFlagged"} : TestsFirst(s, op)
    BY <1>2 DEF ResolveFlag, TestsFirst, Tested
  <1> QED BY <1>3, <1>4, <1>5, <1>6, <1>7, <1>8, <1>9 DEF Operation, Simple

\* With a single session every statement that is not one of the handlers' reads
\* leaves the request with nothing stale: nobody else could have come between.
LEMMA AloneNothingStale ==
  ASSUME NEW s, Sessions = {s}, TaskTypeOK, NothingStale, [Next]_vars
  PROVE  NothingStale'
  <1>1. s \in Sessions /\ req[s] \in Calls /\ StillTrue(req[s])
    BY DEF TaskTypeOK, CallsOK, NothingStale
  <1>2. SUFFICES StillTrue(req[s])' BY DEF NothingStale
  <1>3. CASE UNCHANGED vars BY <1>1, <1>3 DEF StillTrue, vars, tables, taskVars
  <1>4. CASE Serve(s)
    <2>1. ASSUME NEW at, GoTo(s, at), at \notin {"insert", "supervised", "update"}
          PROVE  StillTrue(req[s])'
      <3>1. req'[s].at = at BY <1>1, <2>1 DEF GoTo, TaskTypeOK, CallsOK, Calls
      <3> QED BY <2>1, <3>1 DEF StillTrue
    <2>2. CASE Reply(s)
      <3>1. req'[s] = NoCall BY <1>1, <2>2 DEF Reply, TaskTypeOK, CallsOK
      <3> QED BY <3>1 DEF StillTrue, NoCall, Call
    <2>3. ASSUME NEW op, NEW t \in Tasks, NEW u, NEW m,
                 NEW at \in {"supervised", "update", "delete"},
                 Read(s, op, at, t, u, m),
                 at # "delete" => op \in DOMAIN Tested /\ status[t] \in Tested[op],
                 op = "reassignTask" => at = "supervised" /\ u = creator[t]
          PROVE  StillTrue(req[s])'
      <3>1. req'[s] = Call(op, at, t, u, m, Row(t))
        BY <1>1, <2>3 DEF Read, TaskTypeOK, CallsOK
      <3>2. t \notin deleted BY <2>3 DEF Read, Found
      <3> QED BY <2>3, <3>1, <3>2 DEF Read, StillTrue, Call, tables, taskVars
    <2>4. CASE AssignManager(s) \/ UnassignManager(s)
      BY <2>4 DEF AssignManager, UnassignManager, StillTrue, NoCall, Call
    <2>5. CASE CreateTask(s)
      <3>1. CASE InsertTask(s)
        <4>1. req'[s].at = "reread" BY <1>1, <3>1 DEF InsertTask, TaskTypeOK, CallsOK, Calls
        <4> QED BY <4>1 DEF StillTrue
      <3>2. CASE ~ InsertTask(s)
        <4>1. PICK um \in manages : req'[s] =
                Call("createTask", "insert", None, um[1], um[2], NoRow)
          BY <1>1, <2>5, <3>2 DEF CreateTask, TaskTypeOK, CallsOK
        <4>2. um = <<um[1], um[2]>> BY DEF TaskTypeOK, RowsOK
        <4>3. manages' = manages BY <2>5, <3>2 DEF CreateTask, tables
        <4> QED BY <4>1, <4>2, <4>3 DEF StillTrue, Call
      <3> QED BY <3>1, <3>2
    <2>6. CASE \E op \in Simple : Update(s, op) BY <2>1, <2>6 DEF Update
    <2>7. CASE Operation(s) /\ ~ \E op \in Simple : Update(s, op)
      <3>1. \E op \in Simple, t \in Tasks, u \in Users \cup {None} :
              Read(s, op, "update", t, u, None) /\ status[t] \in Tested[op]
        BY <2>7, OperationTests DEF TestsFirst
      <3>2. Simple \subseteq DOMAIN Tested /\ "reassignTask" \notin Simple
        BY DEF Simple, Tested
      <3> QED BY <2>3, <3>1, <3>2
    <2>8. CASE ReassignTask(s)
      <3>1. CASE Supervised(s)
        <4>1. CASE GoTo(s, "update")
          <5>1. req'[s] = [req[s] EXCEPT !.at = "update"]
            BY <1>1, <4>1 DEF GoTo, TaskTypeOK, CallsOK
          <5>2. <<req[s].actor, req[s].target>> \in manages \/ Reply(s)
            BY <3>1 DEF Supervised
          <5> QED BY <1>1, <2>2, <3>1, <5>1, <5>2
              DEF Supervised, Running, StillTrue, Calls, tables, taskVars
        <4> QED BY <2>2, <3>1, <4>1 DEF Supervised
      <3>2. CASE WriteAssignee(s) BY <2>1, <3>2 DEF WriteAssignee
      <3>3. CASE \E t \in Tasks, m \in Managers :
                   /\ status[t] \in Open
                   /\ Read(s, "reassignTask", "supervised", t, creator[t], m)
        <4> "reassignTask" \in DOMAIN Tested /\ Tested["reassignTask"] = Open BY DEF Tested
        <4> QED BY <2>3, <3>3
      <3> QED BY <2>8, <3>1, <3>2, <3>3 DEF ReassignTask
    <2>9. CASE DeleteTask(s)
      <3>1. CASE \E t \in Tasks : Read(s, "deleteTask", "delete", t, creator[t], None)
        BY <2>3, <3>1
      <3> QED BY <2>1, <2>2, <2>9, <3>1
          DEF DeleteTask, SoftDelete, LogDeleted, TellCreator, TellAssignee
    <2>10. CASE Reread(s)
      <3>1. CASE req' = [req EXCEPT ![s].at = "log", ![s].copy = Row(req[s].task)]
        <4>1. req'[s].at = "log" BY <1>1, <3>1 DEF TaskTypeOK, CallsOK, Calls
        <4> QED BY <4>1 DEF StillTrue
      <3> QED BY <2>1, <2>2, <2>10, <3>1 DEF Reread
    <2>11. CASE LogMove(s) \/ Emit(s) BY <2>1, <2>2, <2>11 DEF LogMove, Emit
    <2> QED BY <1>4, <2>4, <2>5, <2>6, <2>7, <2>8, <2>9, <2>10, <2>11 DEF Serve, Operation
  <1> QED BY <1>3, <1>4 DEF Next

LEMMA AloneKeepsTheFlow ==
  ASSUME NEW s, Sessions = {s}, TaskTypeOK, NothingStale, [Next]_vars
  PROVE  [Flow!Next]_<<Flow!rows, manages>>
  <1>1. s \in Sessions /\ req[s] \in Calls /\ NamesItsRows(req[s]) /\ StillTrue(req[s])
    BY DEF TaskTypeOK, CallsOK, NothingStale
  <1> DEFINE t == req[s].task
  <1>2. CASE UNCHANGED <<taskVars, manages>> BY <1>2 DEF taskVars, Flow!rows
  <1>3. CASE AssignManager(s) \/ UnassignManager(s)
    <2>1. manages' \in SUBSET (Users \X Users)
      BY <1>3 DEF AssignManager, UnassignManager, TaskTypeOK, RowsOK
    <2> QED BY <1>3, <2>1
        DEF AssignManager, UnassignManager, taskVars, Flow!Next, Flow!Supervise, Flow!rows
  <1>4. CASE InsertTask(s)
    <2>1. PICK x \in Tasks : Flow!Create(x, req[s].actor, req[s].target)
      BY <1>1, <1>4 DEF InsertTask, Running, StillTrue, Flow!Create, Flow!Give
    <2>2. req[s].actor \in Users /\ req[s].target \in Users
      BY <1>1, <1>4 DEF InsertTask, Running, NamesItsRows
    <2> QED BY <2>1, <2>2 DEF Flow!Next
  <1>5. ASSUME NEW op \in Simple, Update(s, op) PROVE [Flow!Next]_<<Flow!rows, manages>>
    <2>1. t \in Tasks /\ t \notin deleted /\ status[t] \in Tested[op]
      BY <1>1, <1>5 DEF Update, Running, NamesItsRows, StillTrue
    <2>2. CASE status[t] = "CANCELLED"
      <3>1. op = "cancelTask" BY <2>1, <2>2, <1>5 DEF Tested, Simple, Open
      <3>2. status' = status
        BY <1>5, <2>1, <2>2, <3>1 DEF Update, To, TaskTypeOK, RowsOK
      <3> QED BY <1>5, <3>2 DEF Update, Flow!rows
    <2>3. CASE status[t] # "CANCELLED"
      <3>1. Flow!Move(t, Tested[op] \ {"CANCELLED"}, To[op])
        BY <1>5, <2>1, <2>3 DEF Update, Flow!Move
      <3> USE DEF Tested, To, Flow!Start, Flow!Flag, Flow!Approve, Flow!Resume, Flow!End
      <3>2. CASE op = "startTask" BY <2>1, <3>1, <3>2 DEF Flow!Next
      <3>3. CASE op = "flagTask" BY <2>1, <3>1, <3>3 DEF Flow!Next
      <3>4. CASE op = "approveFlagged" BY <2>1, <3>1, <3>4 DEF Flow!Next
      <3>5. CASE op = "continueTask" BY <2>1, <3>1, <3>5 DEF Flow!Next
      <3>6. CASE op \in {"completeTask", "closeTask", "cancelTask", "cancelFlagged"}
        <4>1. /\ t \notin deleted /\ status' = [status EXCEPT ![t] = To[op]]
              /\ UNCHANGED <<creator, assignee, deleted, manages>>
          BY <1>5, <2>1 DEF Update
        <4>2. op = "cancelFlagged" => Flow!Move(t, {"FLAGGED"}, "CANCELLED_ON_PROBLEM")
          BY <2>1, <4>1 DEF Flow!Move
        <4>3. op # "cancelFlagged" => status[t] \in Flow!Open /\ To[op] \in {"COMPLETED", "CANCELLED"}
          BY <2>1, <2>3, <3>6 DEF Open, Flow!Open
        <4>4. op # "cancelFlagged" => Flow!Move(t, Flow!Open, To[op])
          BY <4>1, <4>3 DEF Flow!Move
        <4>5. Flow!End(t) BY <4>2, <4>3, <4>4
        <4> QED BY <2>1, <4>5 DEF Flow!Next
      <3> QED BY <3>2, <3>3, <3>4, <3>5, <3>6 DEF Simple
    <2> QED BY <2>2, <2>3
  <1>6. CASE WriteAssignee(s)
    <2>1. /\ t \in Tasks /\ t \notin deleted /\ status[t] \in Open
          /\ req[s].target \in Users /\ <<creator[t], req[s].target>> \in manages
      BY <1>1, <1>6 DEF WriteAssignee, Running, NamesItsRows, StillTrue, Tested
    <2>2. creator' = [creator EXCEPT ![t] = creator[t]]
      BY <1>6 DEF WriteAssignee, TaskTypeOK, RowsOK
    <2>3. Flow!Reassign(t, req[s].target)
      BY <1>6, <2>1, <2>2
      DEF WriteAssignee, NewAssignee, Open, Flow!Reassign, Flow!Give, Flow!Open
    <2> QED BY <2>1, <2>3 DEF Flow!Next
  <1>7. CASE SoftDelete(s)
    <2>1. t \in Tasks BY <1>1, <1>7 DEF SoftDelete, Running, NamesItsRows
    <2>2. Flow!Delete(t) BY <1>7 DEF SoftDelete, Flow!Delete
    <2> QED BY <2>1, <2>2 DEF Flow!Next
  <1>8. CASE UNCHANGED vars BY <1>2, <1>8 DEF vars, tables
  <1>9. CASE Serve(s)
    <2>1. CASE CreateTask(s) /\ ~ InsertTask(s) BY <1>2, <2>1 DEF CreateTask, tables
    <2>2. CASE Operation(s)
      <3>1. (\E op \in Simple : Update(s, op)) \/ UNCHANGED tables
        BY <1>1, <2>2, OperationTests DEF TestsFirst, Read
      <3> QED BY <1>2, <1>5, <3>1 DEF tables
    <2>3. CASE ReassignTask(s)
      BY <1>2, <1>6, <2>3 DEF ReassignTask, Supervised, Read, tables
    <2>4. CASE DeleteTask(s)
      BY <1>2, <1>7, <2>4 DEF DeleteTask, LogDeleted, TellCreator, TellAssignee, Read, tables
    <2>5. CASE Reread(s) \/ LogMove(s) \/ Emit(s)
      BY <1>2, <2>5 DEF Reread, LogMove, Emit, tables
    <2> QED BY <1>3, <1>4, <1>9, <2>1, <2>2, <2>3, <2>4, <2>5 DEF Serve, Operation
  <1> QED BY <1>8, <1>9 DEF Next

\* Served one by one, the handlers implement the life of a task as supervisors
\* and managers see it: nothing moves a task that has ended or is deleted, a
\* flagged one waits for its creator, and only a supervised manager gets one.
THEOREM AloneTasksImplementTheFlow ==
  ASSUME NEW s, Sessions = {s}
  PROVE  Spec => TasksKeepTheFlow
  <1> DEFINE Inv == TaskTypeOK /\ NothingStale
  <1>1. Init => Inv
    BY InitType DEF Init, NothingStale, StillTrue, NoCall, Call
  <1>2. Inv /\ [Next]_vars => Inv'
    BY StepType, AloneNothingStale
  <1>3. Inv /\ [Next]_vars => [Flow!Next]_<<Flow!rows, manages>>
    BY AloneKeepsTheFlow
  <1>4. Init => Flow!Init
    BY DEF Init, Flow!Init
  <1> QED BY <1>1, <1>2, <1>3, <1>4, PTL DEF Spec, TasksKeepTheFlow, Flow!Spec

-----------------------------------------------------------------------------
(* What the log and the screens tell, with requests served one by one *)

\* What LogTellsTheTask and ScreensInSync say of one task.
LogTells(t) == IF t \in deleted THEN log[t] = LogRow(status[t], "none")
               ELSE log[t].to = status[t]

ScreensTell(t) ==
  Found(t) => \A u \in {creator[t], assignee[t]} : screen[u][t] \in {NoRow, Row(t)}

Unshown(t) == \A u \in Users : screen[u][t] = NoRow

\* Before its write the request has read the task as it is; between the write
\* and the log row the log still ends where the request has read the task; and
\* what it pushes is the task.
InStep(r) ==
  LET t == r.task IN
  /\ r.at \in {"supervised", "update", "delete"} =>
       /\ t \in Tasks /\ Found(t) /\ r.seen = Row(t)
       /\ log[t].to = status[t] /\ ScreensTell(t)
  /\ r.at \in {"update", "reread"} => r.op # "deleteTask"
  /\ r.at \in {"reread", "log"} => log[t].to = r.seen.status
  /\ r.at \in {"reread", "emit"} \/ (r.at = "log" /\ r.op # "deleteTask") =>
       /\ t \in Tasks /\ Found(t) /\ status[t] = To[r.op]
       /\ r.op = "createTask" => Unshown(t)
  /\ (r.at = "log" /\ r.op # "deleteTask") \/ r.at = "emit" => r.copy = Row(t)
  /\ r.at = "emit" => r.op # "deleteTask" /\ log[t].to = status[t]
  /\ r.at = "log" /\ r.op = "deleteTask" => t \in deleted /\ r.seen.status = status[t]
  /\ r.at \in {"tellCreator", "tellAssignee"} =>
       t \in deleted /\ log[t] = LogRow(status[t], "none")
  /\ r.at = "insert" => r.seen = NoRow /\ r.task = None /\ r.op = "createTask"
  /\ r.op = "createTask" => r.at \in {"insert", "reread", "log", "emit"}

\* Everything any other task has been through is told.
AllTold(s) ==
  /\ \A t \in Tasks : /\ req[s].task # t => LogTells(t) /\ ScreensTell(t)
                      /\ status[t] = "none" => Unshown(t) /\ t \notin deleted
  /\ InStep(req[s])

LEMMA ToldKept ==
  ASSUME TaskTypeOK, NEW t \in Tasks,
         status'[t] = status[t], creator'[t] = creator[t], assignee'[t] = assignee[t],
         (t \in deleted') <=> (t \in deleted), log'[t] = log[t],
         \A u \in Users : screen'[u][t] = screen[u][t]
  PROVE  /\ LogTells(t) => LogTells(t)'
         /\ ScreensTell(t) => ScreensTell(t)'
         /\ Unshown(t) => Unshown(t)'
  <1>1. Found(t) => creator[t] \in Users /\ assignee[t] \in Users
    BY DEF TaskTypeOK, RowsOK, Found
  <1>2. ScreensTell(t) => ScreensTell(t)' BY <1>1 DEF ScreensTell, Found, Row, NoRow
  <1>3. LogTells(t) => LogTells(t)' BY DEF LogTells
  <1> QED BY <1>2, <1>3 DEF Unshown, NoRow

\* A step that moves at most the task of its request, and still has it as its
\* task or leaves it told, has only that request to look at.
OnlyMoves(T) ==
  \A t \in Tasks \ T : /\ status'[t] = status[t]
                       /\ creator'[t] = creator[t] /\ assignee'[t] = assignee[t]
                       /\ (t \in deleted') <=> (t \in deleted)
                       /\ log'[t] = log[t]
                       /\ \A u \in Users : screen'[u][t] = screen[u][t]

LEMMA OthersTold ==
  ASSUME NEW s, TaskTypeOK, AllTold(s), OnlyMoves({req[s].task}),
         InStep(req[s])',
         \A t \in Tasks :
           t = req[s].task =>
             /\ status'[t] # "none"
             /\ req'[s].task # t => LogTells(t)' /\ ScreensTell(t)'
  PROVE  AllTold(s)'
  <1>1. ASSUME NEW t \in Tasks, t # req[s].task
        PROVE  /\ LogTells(t)' /\ ScreensTell(t)'
               /\ status'[t] = "none" => Unshown(t)' /\ t \notin deleted'
    BY <1>1, ToldKept DEF AllTold, OnlyMoves
  <1> QED BY <1>1 DEF AllTold

LEMMA NothingMoves ==
  ASSUME UNCHANGED <<taskVars, log, screen>>, NEW T
  PROVE  OnlyMoves(T)
  BY DEF OnlyMoves, taskVars

\* A request that is answered leaves nothing to look at.
LEMMA IdleInStep ==
  ASSUME NEW s \in Sessions, TaskTypeOK, Reply(s)
  PROVE  req'[s] = NoCall /\ req'[s].task = None /\ InStep(req[s])'
  <1>1. req'[s] = NoCall BY DEF Reply, TaskTypeOK, CallsOK
  <1> QED BY <1>1 DEF InStep, NoCall, Call

LEMMA GoToCall ==
  ASSUME NEW s \in Sessions, TaskTypeOK, NEW at, GoTo(s, at)
  PROVE  /\ req'[s].op = req[s].op /\ req'[s].at = at /\ req'[s].task = req[s].task
         /\ req'[s].seen = req[s].seen /\ req'[s].copy = req[s].copy
  BY DEF GoTo, TaskTypeOK, CallsOK, Calls

LEMMA ReadTold ==
  ASSUME NEW s \in Sessions, TaskTypeOK, AllTold(s), NEW op, NEW t \in Tasks, NEW u, NEW m,
         NEW at \in {"supervised", "update", "delete"},
         Read(s, op, at, t, u, m), op # "createTask", op = "deleteTask" => at = "delete"
  PROVE  AllTold(s)'
  <1>1. req[s].task = None BY DEF Read, NoCall, Call
  <1>2. req'[s] = Call(op, at, t, u, m, Row(t)) BY DEF Read, TaskTypeOK, CallsOK
  <1>3. t # None BY UsersAssumption
  <1>4. LogTells(t) /\ ScreensTell(t) BY <1>1, <1>3 DEF AllTold
  <1>5. UNCHANGED <<tables, screen>> /\ Found(t) BY DEF Read
  <1>6. log[t].to = status[t] BY <1>4, <1>5 DEF LogTells, Found
  <1>7. ScreensTell(t)' BY <1>4, <1>5 DEF ScreensTell, Found, Row, tables, taskVars
  <1>8. Found(t)' /\ Row(t)' = Row(t) BY <1>5 DEF Found, Row, tables, taskVars
  <1>9. InStep(req[s])'
    <2>1. (log[t].to = status[t])' BY <1>5, <1>6 DEF tables, taskVars
    <2>2. /\ req'[s].op = op /\ req'[s].at = at /\ req'[s].task = t
          /\ req'[s].seen = Row(t)'
      BY <1>2, <1>8 DEF Call
    <2> QED BY <1>7, <1>8, <2>1, <2>2 DEF InStep
  <1>10. OnlyMoves({req[s].task}) BY <1>5, NothingMoves DEF tables
  <1> QED BY <1>1, <1>9, <1>10, OthersTold, UsersAssumption

LEMMA SupervisedTold ==
  ASSUME NEW s \in Sessions, TaskTypeOK, AllTold(s), Supervised(s)
  PROVE  AllTold(s)'
  <1>1. UNCHANGED <<tables, screen>> /\ req[s].at = "supervised" /\ req[s].op = "reassignTask"
    BY DEF Supervised, Running
  <1>0. PICK t : t = req[s].task OBVIOUS
  <1>2. /\ t \in Tasks /\ Found(t) /\ req[s].seen = Row(t) /\ log[t].to = status[t]
        /\ ScreensTell(t)
    BY <1>0, <1>1 DEF AllTold, InStep
  <1>3. LogTells(t) BY <1>2 DEF LogTells, Found
  <1>4. OnlyMoves({t}) BY <1>1, NothingMoves DEF tables
  <1>5. Found(t)' /\ Row(t)' = Row(t) /\ (log[t].to = status[t])'
    BY <1>1, <1>2 DEF Found, Row, tables, taskVars
  <1>6. ScreensTell(t)' /\ LogTells(t)'
    BY <1>1, <1>2, <1>3 DEF ScreensTell, LogTells, Found, Row, tables, taskVars
  <1>7. InStep(req[s])'
    <2>1. CASE Reply(s) BY <2>1, IdleInStep
    <2>2. CASE GoTo(s, "update")
      BY <1>0, <1>1, <1>2, <1>5, <1>6, <2>2, GoToCall DEF InStep
    <2> QED BY <2>1, <2>2 DEF Supervised
  <1>8. status'[t] # "none" BY <1>5 DEF Found
  <1> QED BY <1>0, <1>4, <1>6, <1>7, <1>8, OthersTold

LEMMA RereadTold ==
  ASSUME NEW s \in Sessions, TaskTypeOK, AllTold(s), Reread(s)
  PROVE  AllTold(s)'
  <1>0. PICK t : t = req[s].task OBVIOUS
  <1>1. UNCHANGED <<tables, screen>> /\ req[s].at = "reread" BY DEF Reread
  <1>2. /\ t \in Tasks /\ Found(t) /\ status[t] = To[req[s].op]
        /\ log[t].to = req[s].seen.status /\ req[s].op # "deleteTask"
        /\ req[s].op = "createTask" => Unshown(t)
    BY <1>0, <1>1 DEF AllTold, InStep
  <1>3. req' = [req EXCEPT ![s].at = "log", ![s].copy = Row(t)] BY <1>0, <1>2 DEF Reread
  <1>4. /\ req'[s].op = req[s].op /\ req'[s].at = "log" /\ req'[s].task = t
        /\ req'[s].seen = req[s].seen /\ req'[s].copy = Row(t)
    BY <1>0, <1>3 DEF TaskTypeOK, CallsOK, Calls
  <1>5. OnlyMoves({t}) BY <1>1, NothingMoves DEF tables
  <1>6. /\ Found(t)' /\ Row(t)' = Row(t) /\ (Unshown(t) => Unshown(t)')
        /\ status'[t] = status[t] /\ log'[t] = log[t]
    BY <1>1, <1>2 DEF Found, Row, Unshown, tables, taskVars
  <1>7. InStep(req[s])' BY <1>2, <1>4, <1>6 DEF InStep
  <1>8. status'[t] # "none" BY <1>6 DEF Found
  <1> QED BY <1>0, <1>4, <1>5, <1>7, <1>8, OthersTold

\* The write moves the request's own task and leaves log and screens behind.
LEMMA WriteTold ==
  ASSUME NEW s \in Sessions, TaskTypeOK, AllTold(s), NEW op \in DOMAIN To,
         Running(s, op, "update"), op # "createTask",
         status' = [status EXCEPT ![req[s].task] = To[op]],
         OnlyMoves({req[s].task}), GoTo(s, "reread"), UNCHANGED <<deleted, log>>
  PROVE  AllTold(s)'
  <1>0. PICK t : t = req[s].task OBVIOUS
  <1>1. req[s].at = "update" /\ req[s].op = op BY DEF Running
  <1>2. t \in Tasks /\ Found(t) /\ req[s].seen = Row(t) /\ log[t].to = status[t]
    BY <1>0, <1>1 DEF AllTold, InStep
  <1>3. op # "deleteTask" /\ To[op] # "none" BY DEF To
  <1>4. status'[t] = To[op] BY <1>0, <1>2 DEF TaskTypeOK, RowsOK
  <1>5. log'[t].to = req[s].seen.status BY <1>2 DEF Row
  <1>6. Found(t)' BY <1>2, <1>3, <1>4 DEF Found
  <1>7. InStep(req[s])'
    BY <1>0, <1>1, <1>2, <1>3, <1>4, <1>5, <1>6, GoToCall DEF InStep
  <1>8. req'[s].task = t /\ status'[t] # "none" BY <1>0, <1>3, <1>4, GoToCall
  <1> QED BY <1>0, <1>7, <1>8, OthersTold

LEMMA UpdateTold ==
  ASSUME NEW s \in Sessions, TaskTypeOK, AllTold(s), NEW op \in Simple \cup {"reassignTask"},
         Update(s, op) \/ (op = "reassignTask" /\ WriteAssignee(s))
  PROVE  AllTold(s)'
  <1>1. op \in DOMAIN To /\ op # "createTask" BY DEF Simple, To
  <1>2. /\ Running(s, op, "update") /\ GoTo(s, "reread") /\ UNCHANGED <<deleted, log>>
        /\ status' = [status EXCEPT ![req[s].task] = To[op]]
    BY DEF Update, WriteAssignee, To
  <1>3. OnlyMoves({req[s].task})
    BY DEF Update, WriteAssignee, OnlyMoves, TaskTypeOK, RowsOK
  <1> QED BY <1>1, <1>2, <1>3, WriteTold

LEMMA InsertTold ==
  ASSUME NEW s \in Sessions, TaskTypeOK, AllTold(s), InsertTask(s)
  PROVE  AllTold(s)'
  <1>1. /\ req[s].at = "insert" /\ req[s].op = "createTask" /\ req[s].seen = NoRow
        /\ req[s].task = None
    BY DEF InsertTask, Running, AllTold, InStep
  <1>2. PICK t \in Tasks : /\ status[t] = "none"
                           /\ status' = [status EXCEPT ![t] = "PENDING"]
                           /\ creator' = [creator EXCEPT ![t] = req[s].actor]
                           /\ assignee' = [assignee EXCEPT ![t] = req[s].target]
                           /\ req' = [req EXCEPT ![s].at = "reread", ![s].task = t]
    BY DEF InsertTask
  <1>3. UNCHANGED <<deleted, log, screen>> BY DEF InsertTask
  <1>4. /\ req'[s].op = "createTask" /\ req'[s].at = "reread" /\ req'[s].task = t
        /\ req'[s].seen = NoRow
    BY <1>1, <1>2 DEF TaskTypeOK, CallsOK, Calls
  <1>5. t \notin deleted /\ log[t].to = "none" /\ Unshown(t)
    BY <1>1, <1>2, UsersAssumption DEF AllTold, LogTells
  <1>6. status'[t] = "PENDING" /\ To["createTask"] = "PENDING"
    BY <1>2 DEF TaskTypeOK, RowsOK, To
  <1>7. InStep(req[s])'
    <2>1. Found(t)' /\ Unshown(t)' BY <1>3, <1>5, <1>6 DEF Found, Unshown, NoRow
    <2>2. log'[t].to = "none" BY <1>3, <1>5
    <2> QED BY <1>4, <1>6, <2>1, <2>2 DEF InStep, NoRow
  <1>8. OnlyMoves({t}) BY <1>2, <1>3 DEF OnlyMoves, TaskTypeOK, RowsOK
  <1>9. ASSUME NEW x \in Tasks, x # t
        PROVE  /\ LogTells(x)' /\ ScreensTell(x)'
               /\ status'[x] = "none" => Unshown(x)' /\ x \notin deleted'
    <2>1. /\ status'[x] = status[x] /\ creator'[x] = creator[x]
          /\ assignee'[x] = assignee[x]
          /\ (x \in deleted') <=> (x \in deleted)
          /\ log'[x] = log[x] /\ \A u \in Users : screen'[u][x] = screen[u][x]
      BY <1>8, <1>9 DEF OnlyMoves
    <2>2. LogTells(x) /\ ScreensTell(x) /\ (status[x] = "none" => Unshown(x) /\ x \notin deleted)
      BY <1>1, UsersAssumption DEF AllTold
    <2> QED BY <2>1, <2>2, ToldKept
  <1> QED BY <1>4, <1>6, <1>7, <1>9 DEF AllTold

LEMMA LogMoveTold ==
  ASSUME NEW s \in Sessions, TaskTypeOK, AllTold(s), LogMove(s)
  PROVE  AllTold(s)' /\ \A x \in Tasks : log'[x] # log[x] => log'[x].from = log[x].to
  <1>0. PICK t : t = req[s].task OBVIOUS
  <1>1. /\ req[s].at = "log" /\ req[s].op # "deleteTask"
        /\ UNCHANGED <<status, creator, assignee, deleted, screen>>
    BY DEF LogMove, taskVars
  <1>2. /\ t \in Tasks /\ Found(t) /\ status[t] = To[req[s].op] /\ req[s].copy = Row(t)
        /\ log[t].to = req[s].seen.status
        /\ req[s].op = "createTask" => Unshown(t)
    BY <1>0, <1>1 DEF AllTold, InStep
  <1>3. req[s].copy # NoRow BY <1>2 DEF Row, NoRow, Found
  <1>4. GoTo(s, "emit") BY <1>3 DEF LogMove
  <1>5. log' = [log EXCEPT ![t] = LogRow(req[s].seen.status, status[t])]
    BY <1>0, <1>2 DEF LogMove, Logged
  <1>6. log'[t] = LogRow(req[s].seen.status, status[t])
    BY <1>2, <1>5 DEF TaskTypeOK, LogOK
  <1>7. OnlyMoves({t}) BY <1>1, <1>5 DEF OnlyMoves, TaskTypeOK, LogOK
  <1>8. Found(t)' /\ Row(t)' = Row(t) /\ (Unshown(t) => Unshown(t)')
    BY <1>1, <1>2 DEF Found, Row, Unshown
  <1>9. InStep(req[s])'
    BY <1>0, <1>1, <1>2, <1>4, <1>6, <1>8, GoToCall DEF InStep, LogRow
  <1>10. status'[t] # "none" /\ req'[s].task = t BY <1>0, <1>4, <1>8, GoToCall DEF Found
  <1>11. AllTold(s)' BY <1>0, <1>7, <1>9, <1>10, OthersTold
  <1>12. \A x \in Tasks : log'[x] # log[x] => log'[x].from = log[x].to
    BY <1>2, <1>6, <1>7 DEF OnlyMoves, LogRow
  <1> QED BY <1>11, <1>12

\* Everyone who shows the task is told, or has been shown nothing.
LEMMA EmitTold ==
  ASSUME NEW s \in Sessions, TaskTypeOK, AllTold(s), Emit(s)
  PROVE  AllTold(s)'
  <1>0. PICK t : t = req[s].task OBVIOUS
  <1>1. req[s].at = "emit" /\ Reply(s) /\ UNCHANGED tables BY DEF Emit
  <1>2. /\ t \in Tasks /\ Found(t) /\ req[s].copy = Row(t)
        /\ log[t].to = status[t]
        /\ req[s].op = "createTask" => Unshown(t)
    BY <1>0, <1>1 DEF AllTold, InStep
  <1>3. PICK R : R = Recipients(s) OBVIOUS
  <1>4. screen' = [u \in Users |-> IF u \in R THEN [screen[u] EXCEPT ![t] = Row(t)]
                                   ELSE screen[u]]
    BY <1>0, <1>2, <1>3 DEF Emit, Push, Shown
  <1>5. \A u \in Users : screen[u] \in [Tasks -> Rows] BY DEF TaskTypeOK, ScreensOK
  <1>6. \A u \in Users : screen'[u][t] = IF u \in R THEN Row(t) ELSE screen[u][t]
    BY <1>2, <1>4, <1>5
  <1>7. \A u \in {creator[t], assignee[t]} : u \in R \/ (req[s].op = "createTask")
    BY <1>0, <1>2, <1>3 DEF Recipients, Row
  <1>8. creator[t] \in Users /\ assignee[t] \in Users
    BY <1>2 DEF Found, TaskTypeOK, RowsOK
  <1>9. Found(t)' /\ Row(t)' = Row(t) /\ UNCHANGED <<status, creator, assignee, deleted, log>>
    BY <1>1, <1>2 DEF Found, Row, tables, taskVars
  <1>10. ScreensTell(t)'
    BY <1>2, <1>6, <1>7, <1>8, <1>9 DEF ScreensTell, Unshown, NoRow
  <1>11. LogTells(t)' BY <1>2, <1>9 DEF LogTells, Found
  <1>12. OnlyMoves({t}) BY <1>4, <1>5, <1>9 DEF OnlyMoves
  <1>13. status'[t] # "none" BY <1>9 DEF Found
  <1> QED BY <1>0, <1>1, <1>10, <1>11, <1>12, <1>13, IdleInStep, OthersTold

LEMMA DeletionTold ==
  ASSUME NEW s \in Sessions, TaskTypeOK, AllTold(s),
         SoftDelete(s) \/ LogDeleted(s) \/ TellCreator(s) \/ TellAssignee(s)
  PROVE  AllTold(s)' /\ \A x \in Tasks : log'[x] # log[x] => log'[x].from = log[x].to
  <1>0. PICK t : t = req[s].task OBVIOUS
  <1>1. CASE SoftDelete(s)
    <2>1. /\ req[s].at = "delete" /\ req[s].op = "deleteTask" /\ GoTo(s, "log")
          /\ UNCHANGED <<status, creator, assignee, log, screen>>
          /\ deleted' = deleted \cup {t}
      BY <1>0, <1>1 DEF SoftDelete, Running
    <2>2. t \in Tasks /\ Found(t) /\ req[s].seen = Row(t) /\ log[t].to = status[t]
      BY <1>0, <2>1 DEF AllTold, InStep
    <2>3. OnlyMoves({t}) BY <2>1 DEF OnlyMoves
    <2>4. t \in deleted' /\ log'[t].to = req[s].seen.status /\ req[s].seen.status = status'[t]
      BY <2>1, <2>2 DEF Row
    <2>5. InStep(req[s])' BY <1>0, <2>1, <2>4, GoToCall DEF InStep
    <2>6. status'[t] # "none" /\ req'[s].task = t
      BY <1>0, <2>1, <2>2, GoToCall DEF Found
    <2> QED BY <1>0, <2>1, <2>3, <2>5, <2>6, OthersTold
  <1>2. CASE LogDeleted(s)
    <2>1. /\ req[s].at = "log" /\ req[s].op = "deleteTask" /\ GoTo(s, "tellCreator")
          /\ UNCHANGED <<status, creator, assignee, deleted, screen>>
          /\ log' = [log EXCEPT ![t] = LogRow(req[s].seen.status, "none")]
      BY <1>0, <1>2 DEF LogDeleted, Running, taskVars
    <2>2. t \in deleted /\ req[s].seen.status = status[t] /\ log[t].to = req[s].seen.status
      BY <1>0, <2>1 DEF AllTold, InStep
    <2>3. t \in Tasks /\ status[t] # "none" BY <2>2 DEF AllTold, TaskTypeOK, RowsOK
    <2>4. log'[t] = LogRow(status'[t], "none") /\ log'[t].from = log[t].to
      BY <2>1, <2>2, <2>3 DEF TaskTypeOK, LogOK, LogRow
    <2>5. OnlyMoves({t}) BY <2>1 DEF OnlyMoves, TaskTypeOK, LogOK
    <2>6. InStep(req[s])' BY <1>0, <2>1, <2>2, <2>4, GoToCall DEF InStep, LogRow
    <2>7. status'[t] # "none" /\ req'[s].task = t BY <1>0, <2>1, <2>3, GoToCall
    <2>8. AllTold(s)' BY <1>0, <2>5, <2>6, <2>7, OthersTold
    <2>9. \A x \in Tasks : log'[x] # log[x] => log'[x].from = log[x].to
      BY <2>4, <2>5 DEF OnlyMoves
    <2> QED BY <2>8, <2>9
  <1>3. CASE TellCreator(s) \/ TellAssignee(s)
    <2>1. /\ req[s].at \in {"tellCreator", "tellAssignee"} /\ UNCHANGED tables
          /\ Reply(s) \/ GoTo(s, "tellAssignee")
      BY <1>3 DEF TellCreator, TellAssignee, Running
    <2>2. t \in deleted /\ log[t] = LogRow(status[t], "none")
      BY <1>0, <2>1 DEF AllTold, InStep
    <2>3. t \in Tasks /\ status[t] # "none" BY <2>2 DEF AllTold, TaskTypeOK, RowsOK
    <2>4. UNCHANGED <<status, creator, assignee, deleted, log>>
      BY <2>1 DEF tables, taskVars
    <2>5. \E U : Push(U, t, req[s].seen) BY <1>0, <1>3 DEF TellCreator, TellAssignee
    <2>6. OnlyMoves({t})
      <3>1. PICK U : Push(U, t, req[s].seen) BY <2>5
      <3>2. \A u \in Users : screen[u] \in [Tasks -> Rows] BY DEF TaskTypeOK, ScreensOK
      <3>3. \A x \in Tasks \ {t} : \A u \in Users : screen'[u][x] = screen[u][x]
        BY <3>1, <3>2 DEF Push
      <3> QED BY <2>4, <3>3 DEF OnlyMoves
    <2>7. LogTells(t)' /\ ScreensTell(t)' BY <2>2, <2>4 DEF LogTells, ScreensTell, Found
    <2>8. InStep(req[s])'
      <3>1. CASE Reply(s) BY <3>1, IdleInStep
      <3>2. CASE GoTo(s, "tellAssignee")
        <4>1. req[s].op # "createTask" BY <2>1 DEF AllTold, InStep
        <4> QED BY <1>0, <2>2, <2>4, <3>2, <4>1, GoToCall DEF InStep
      <3> QED BY <2>1, <3>1, <3>2
    <2>9. status'[t] # "none" BY <2>3, <2>4
    <2> QED BY <1>0, <2>4, <2>6, <2>7, <2>8, <2>9, OthersTold
  <1> QED BY <1>1, <1>2, <1>3

LEMMA AskTold ==
  ASSUME NEW s \in Sessions, TaskTypeOK, AllTold(s), CreateTask(s), ~ InsertTask(s)
  PROVE  AllTold(s)' /\ UNCHANGED log
  <1>1. req[s] = NoCall /\ UNCHANGED <<tables, screen>> BY DEF CreateTask
  <1>2. PICK um \in manages :
          req' = [req EXCEPT ![s] = Call("createTask", "insert", None, um[1], um[2], NoRow)]
    BY DEF CreateTask
  <1>3. req'[s] = Call("createTask", "insert", None, um[1], um[2], NoRow)
    BY <1>2 DEF TaskTypeOK, CallsOK
  <1>4. /\ req'[s].op = "createTask" /\ req'[s].at = "insert" /\ req'[s].task = None
        /\ req'[s].seen = NoRow
    BY <1>3 DEF Call
  <1>5. InStep(req[s])' BY <1>4 DEF InStep, NoRow
  <1>6. req[s].task = None BY <1>1 DEF NoCall, Call
  <1>7. OnlyMoves({req[s].task}) BY <1>1, NothingMoves DEF tables
  <1> QED BY <1>1, <1>5, <1>6, <1>7, OthersTold, UsersAssumption DEF tables

LEMMA ManagersTold ==
  ASSUME NEW s \in Sessions, TaskTypeOK, AllTold(s),
         UNCHANGED <<taskVars, log, screen, req>>
  PROVE  AllTold(s)'
  BY DEF AllTold, InStep, LogTells, ScreensTell, Unshown, Found, Row, NoRow, taskVars

LEMMA AloneAllTold ==
  ASSUME NEW s, Sessions = {s}, TaskTypeOK, AllTold(s), [Next]_vars
  PROVE  AllTold(s)' /\ \A x \in Tasks : log'[x] # log[x] => log'[x].from = log[x].to
  <1> DEFINE Goal == AllTold(s)' /\ \A x \in Tasks : log'[x] # log[x] => log'[x].from = log[x].to
  <1>1. s \in Sessions OBVIOUS
  <1>2. CASE UNCHANGED vars BY <1>1, <1>2, ManagersTold DEF vars, tables
  <1>3. CASE Serve(s)
    <2>1. CASE AssignManager(s) \/ UnassignManager(s)
      BY <1>1, <2>1, ManagersTold DEF AssignManager, UnassignManager
    <2>2. CASE CreateTask(s)
      <3>1. CASE InsertTask(s) BY <1>1, <3>1, InsertTold DEF InsertTask
      <3> QED BY <1>1, <2>2, <3>1, AskTold
    <2>3. CASE Operation(s)
      <3>1. PICK op \in Simple : TestsFirst(s, op) BY <1>1, <2>3, OperationTests
      <3>2. CASE Update(s, op) BY <1>1, <3>2, UpdateTold DEF Update
      <3>3. CASE ~ Update(s, op)
        <4>1. PICK t \in Tasks, u \in Users \cup {None} : Read(s, op, "update", t, u, None)
          BY <3>1, <3>3 DEF TestsFirst
        <4>2. op # "createTask" /\ op # "deleteTask" BY DEF Simple
        <4> QED BY <1>1, <4>1, <4>2, ReadTold DEF Read, tables
      <3> QED BY <3>2, <3>3
    <2>4. CASE ReassignTask(s)
      <3>1. CASE Supervised(s) BY <1>1, <3>1, SupervisedTold DEF Supervised, tables
      <3>2. CASE WriteAssignee(s) BY <1>1, <3>2, UpdateTold DEF WriteAssignee
      <3>3. CASE \E t \in Tasks, m \in Managers :
                   Read(s, "reassignTask", "supervised", t, creator[t], m)
        <4>1. PICK t \in Tasks, m \in Managers :
                Read(s, "reassignTask", "supervised", t, creator[t], m)
          BY <3>3
        <4>2. UNCHANGED log BY <4>1 DEF Read, tables
        <4>3. AllTold(s)'
          <5>1. \A u : Read(s, "reassignTask", "supervised", t, u, m) => AllTold(s)'
            BY <1>1, ReadTold
          <5> QED BY <4>1, <5>1
        <4> QED BY <4>2, <4>3
      <3> QED BY <2>4, <3>1, <3>2, <3>3 DEF ReassignTask
    <2>5. CASE DeleteTask(s)
      <3>1. CASE \E t \in Tasks : Read(s, "deleteTask", "delete", t, creator[t], None)
        BY <1>1, <3>1, ReadTold DEF Read, tables
      <3> QED BY <1>1, <2>5, <3>1, DeletionTold DEF DeleteTask
    <2>6. CASE Reread(s) BY <1>1, <2>6, RereadTold DEF Reread, tables
    <2>7. CASE LogMove(s) BY <1>1, <2>7, LogMoveTold
    <2>8. CASE Emit(s) BY <1>1, <2>8, EmitTold DEF Emit, tables
    <2> QED BY <1>3, <2>1, <2>2, <2>3, <2>4, <2>5, <2>6, <2>7, <2>8 DEF Serve, Operation
  <1> QED BY <1>2, <1>3 DEF Next

LEMMA InitTold ==
  ASSUME NEW s, Sessions = {s}, Init
  PROVE  AllTold(s)
  <1>1. \A t \in Tasks : /\ status[t] = "none" /\ t \notin deleted
                         /\ LogTells(t) /\ ScreensTell(t) /\ Unshown(t)
    BY DEF Init, LogTells, LogRow, ScreensTell, Found, Unshown
  <1>2. req[s] = NoCall BY DEF Init
  <1>3. InStep(req[s]) BY <1>2 DEF InStep, NoCall, Call
  <1> QED BY <1>1, <1>3 DEF AllTold

LEMMA AlwaysTold ==
  ASSUME NEW s, Sessions = {s}
  PROVE  Spec => [](TaskTypeOK /\ AllTold(s))
  <1>1. Init => TaskTypeOK /\ AllTold(s) BY InitType, InitTold
  <1>2. TaskTypeOK /\ AllTold(s) /\ [Next]_vars => (TaskTypeOK /\ AllTold(s))'
    BY StepType, AloneAllTold
  <1> QED BY <1>1, <1>2, PTL DEF Spec

LEMMA ToldIsTheLog ==
  ASSUME NEW s, Sessions = {s}, AllTold(s)
  PROVE  LogTellsTheTask /\ ScreensInSync
  <1>1. \A t \in Tasks : Quiet(t) => LogTells(t) /\ ScreensTell(t) BY DEF AllTold, Quiet
  <1>2. LogTellsTheTask BY <1>1 DEF LogTells, LogTellsTheTask
  <1>3. ScreensInSync BY <1>1 DEF ScreensTell, ScreensInSync
  <1> QED BY <1>2, <1>3

\* Served one by one, the handlers write an activity log without a gap: every
\* row starts in the status the row before it ended in, and the last row of a
\* task nobody is working on ends in the status the task has, or in the one it
\* was deleted in.
THEOREM AloneLogFollows ==
  ASSUME NEW s, Sessions = {s}
  PROVE  Spec => LogFollowsTheTask
  <1> DEFINE I == TaskTypeOK /\ AllTold(s)
  <1>1. ASSUME I, [Next]_vars
        PROVE  \A t \in Tasks : log'[t] # log[t] => log'[t].from = log[t].to
    BY <1>1, AloneAllTold
  <1>2. I => LogTellsTheTask BY ToldIsTheLog
  <1> HIDE DEF I
  <1>3. Spec => []I BY AlwaysTold DEF I
  <1> QED BY <1>1, <1>2, <1>3, PTL DEF Spec, LogFollowsTheTask

\* Served one by one, the handlers leave the creator and the assignee of a task
\* with what it is on their screens, or with nothing: the task is read again
\* after the write and both are told, whoever made the change.
THEOREM AloneScreensInSync ==
  ASSUME NEW s, Sessions = {s}
  PROVE  Spec => []ScreensInSync
  <1>1. TaskTypeOK /\ AllTold(s) => ScreensInSync BY ToldIsTheLog
  <1> QED BY <1>1, AlwaysTold, PTL

=============================================================================
