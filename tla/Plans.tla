------------------------------- MODULE Plans -------------------------------
(***************************************************************************)
(* The plans of a group, their procedures by day, and who has confirmed    *)
(* which procedure: agencies/plans.service, mobile/plans.service and their *)
(* DAOs.  The mobile app confirms offline and replays what it has not been *)
(* told is confirmed.                                                      *)
(*                                                                         *)
(* No handler opens a transaction: a step is one statement with the test   *)
(* the handler makes of its result, and others run in between.  Rows are   *)
(* soft-deleted, so what they refer to is always there.                    *)
(***************************************************************************)
EXTENDS Naturals, FiniteSets

CONSTANTS
  Groups,           \* groups of one agency
  Pilgrims, Staff,  \* ids that confirm: pilgrims, and users of the agency
  Plans,            \* ids in the order of created_at
  Procedures,       \* ids, handed out once
  LastDay,          \* bound on total_days
  AskedOf,          \* the values of confirmation_by staff chooses from
  Sessions,         \* requests served at a time
  Ops,              \* the operations clients call in this instance
  None              \* SQL null

Roles == {"PILGRIM", "GUIDE"}

ASSUME PlansAssumption ==
  /\ Plans \subseteq Nat /\ LastDay \in Nat \ {0}
  /\ AskedOf \subseteq Roles \cup {"BOTH"}
  /\ IsFiniteSet(Sessions) /\ IsFiniteSet(Procedures)
  /\ None \notin Groups \cup Pilgrims \cup Staff \cup Procedures \cup Roles \cup {"BOTH"}

Days == 1 .. LastDay

VARIABLES
  plans,      \* live plans
  groupOfPlan,\* group_plans.group_id, None before the insert
  totalDays,  \* group_plans.total_days
  dated,      \* plans with a start_date
  procedures, \* live procedures
  row,        \* the columns of a procedure
  confirmed,  \* live rows of group_plan_confirmations
  groupOf,    \* group_members
  guides,     \* pilgrims with is_guide
  told,       \* confirmations the app of a pilgrim knows to have succeeded
  req         \* the requests in flight

planVars == <<plans, groupOfPlan, totalDays, dated>>
procedureVars == <<procedures, row>>
memberVars == <<groupOf, guides>>
vars == <<planVars, procedureVars, confirmed, memberVars, told, req>>

\* requires_confirmation, confirmation_by, day_index and order_index.
NoRow == [plan |-> None, day |-> 0, place |-> 0, asks |-> FALSE, by |-> None]
Inserted == {x \in Procedures : row[x] # NoRow}

\* Whom a procedure asks: "unset" when it does not say.
Rule(x) == IF ~row[x].asks THEN "nobody"
           ELSE IF row[x].by = None THEN "unset" ELSE row[x].by

OnDay(pl, d) == {x \in Inserted : row[x].plan = pl /\ row[x].day = d}

-----------------------------------------------------------------------------
(* Requests *)

NoCall == [op |-> "idle", at |-> "idle", who |-> None, group |-> None, plan |-> None,
           procedure |-> None, day |-> 0, place |-> 0, role |-> None, rule |-> "nobody",
           left |-> {}, today |-> {}, seen |-> {}]

Running(s, op, at) == req[s].op = op /\ req[s].at = at
Begin(s, call) == /\ call.op \in Ops
                  /\ req[s] = NoCall
                  /\ req' = [req EXCEPT ![s] = call]
                  /\ UNCHANGED <<planVars, procedureVars, confirmed, memberVars, told>>
GoTo(s, at) == req' = [req EXCEPT ![s].at = at]
Reply(s) == req' = [req EXCEPT ![s] = NoCall]

Check(s, op, at, test, next) ==
  /\ Running(s, op, at)
  /\ IF test THEN GoTo(s, next) ELSE Reply(s)
  /\ UNCHANGED <<planVars, procedureVars, confirmed, memberVars, told>>

\* findById and what the handler keeps of the procedure.
ReadProcedure(s, op, next) ==
  /\ Running(s, op, "procedure")
  /\ IF req[s].procedure \in procedures
     THEN req' = [req EXCEPT ![s].at = next, ![s].rule = Rule(req[s].procedure)]
     ELSE Reply(s)
  /\ UNCHANGED <<planVars, procedureVars, confirmed, memberVars, told>>

PlanOf(x) == row[x].plan

-----------------------------------------------------------------------------
(* Members: GroupMembership's handlers as far as plans read them *)

MoveMember ==
  /\ "move" \in Ops
  /\ \E p \in Pilgrims : \E g \in IF groupOf[p] = None THEN Groups ELSE {None} :
       groupOf' = [groupOf EXCEPT ![p] = g]
  /\ UNCHANGED <<planVars, procedureVars, confirmed, guides, told, req>>

FlagGuide ==
  /\ \E p \in Pilgrims : guides' \in {guides \cup {p}, guides \ {p}}
  /\ UNCHANGED <<planVars, procedureVars, confirmed, groupOf, told, req>>

-----------------------------------------------------------------------------
(* Plans *)

CreatePlan ==
  /\ \E pl \in Plans, g \in Groups, n \in Days :
       /\ groupOfPlan[pl] = None
       /\ \A older \in Plans : older < pl => groupOfPlan[older] # None
       /\ plans' = plans \cup {pl}
       /\ groupOfPlan' = [groupOfPlan EXCEPT ![pl] = g]
       /\ totalDays' = [totalDays EXCEPT ![pl] = n]
       /\ dated' \in {dated, dated \cup {pl}}
  /\ UNCHANGED <<procedureVars, confirmed, memberVars, told, req>>

\* Procedures past a new last day stay.
WritePlan(s) ==
  /\ Running(s, "updatePlan", "update")
  /\ \E n \in Days : totalDays' = [totalDays EXCEPT ![req[s].plan] = n]
  /\ dated' \in {dated, dated \cup {req[s].plan}, dated \ {req[s].plan}}
  /\ Reply(s)
  /\ UNCHANGED <<plans, groupOfPlan, procedureVars, confirmed, memberVars, told>>

UpdatePlan(s) ==
  \/ \E pl \in plans :
       Begin(s, [NoCall EXCEPT !.op = "updatePlan", !.at = "update", !.plan = pl])
  \/ WritePlan(s)

DropPlan(s) ==
  /\ Running(s, "deletePlan", "delete")
  /\ plans' = plans \ {req[s].plan}
  /\ Reply(s)
  /\ UNCHANGED <<groupOfPlan, totalDays, dated, procedureVars, confirmed, memberVars, told>>

DeletePlan(s) ==
  \/ \E pl \in plans :
       Begin(s, [NoCall EXCEPT !.op = "deletePlan", !.at = "delete", !.plan = pl])
  \/ DropPlan(s)

-----------------------------------------------------------------------------
(* Procedures *)

PlaceOfLast(pl, d) == Cardinality(procedures \cap OnDay(pl, d)) - 1   \* mutant
CountFromOne(pl, d) == Cardinality(procedures \cap OnDay(pl, d)) + 1   \* mutant

\* countByPlanAndDay
CountOnDay(pl, d) == Cardinality(procedures \cap OnDay(pl, d))

\* order_index is the count of the day's procedures.
CountProcedures(s) ==
  /\ Running(s, "createProcedure", "count")
  /\ req' = [req EXCEPT ![s].at = "insert",
                        ![s].place = CountOnDay(req[s].plan, req[s].day)]
  /\ UNCHANGED <<planVars, procedureVars, confirmed, memberVars, told>>

\* Without requires_confirmation there is no confirmation_by.
InsertProcedure(s) ==
  LET Row(asks, by) == [plan |-> req[s].plan, day |-> req[s].day, place |-> req[s].place,
                        asks |-> asks, by |-> by]
  IN
  /\ Running(s, "createProcedure", "insert")
  /\ \E x \in Procedures \ Inserted :
       /\ \/ row' = [row EXCEPT ![x] = Row(FALSE, None)]
          \/ \E by \in AskedOf : row' = [row EXCEPT ![x] = Row(TRUE, by)]
       /\ procedures' = procedures \cup {x}
  /\ Reply(s)
  /\ UNCHANGED <<planVars, confirmed, memberVars, told>>

\* Ids are bounded: a request begins only while one is left.
CreateProcedure(s) ==
  \/ /\ Cardinality({r \in Sessions : req[r].op = "createProcedure"})
          < Cardinality(Procedures \ Inserted)
     /\ \E pl \in plans : \E d \in 1 .. totalDays[pl] :
          Begin(s, [NoCall EXCEPT !.op = "createProcedure", !.at = "count",
                                  !.plan = pl, !.day = d])
  \/ CountProcedures(s)
  \/ InsertProcedure(s)

\* An undefined confirmation_by is left out of the UPDATE: a procedure that
\* no longer asks keeps the column, and one that asks again may have none.
WriteProcedure(s) ==
  LET x == req[s].procedure IN
  /\ Running(s, "updateProcedure", "update")
  /\ \E asks \in BOOLEAN, by \in AskedOf \cup {row[x].by} :
       row' = [row EXCEPT ![x].asks = asks, ![x].by = by]
  /\ Reply(s)
  /\ UNCHANGED <<planVars, procedures, confirmed, memberVars, told>>

UpdateProcedure(s) ==
  \/ \E x \in Inserted :
       Begin(s, [NoCall EXCEPT !.op = "updateProcedure", !.at = "procedure",
                               !.procedure = x])
  \/ ReadProcedure(s, "updateProcedure", "plan")
  \/ Check(s, "updateProcedure", "plan", PlanOf(req[s].procedure) \in plans, "update")
  \/ WriteProcedure(s)

DropProcedure(s) ==
  /\ Running(s, "deleteProcedure", "delete")
  /\ procedures' = procedures \ {req[s].procedure}
  /\ Reply(s)
  /\ UNCHANGED <<planVars, row, confirmed, memberVars, told>>

DeleteProcedure(s) ==
  \/ \E x \in Inserted :
       Begin(s, [NoCall EXCEPT !.op = "deleteProcedure", !.at = "procedure",
                               !.procedure = x])
  \/ ReadProcedure(s, "deleteProcedure", "plan")
  \/ Check(s, "deleteProcedure", "plan", PlanOf(req[s].procedure) \in plans, "delete")
  \/ DropProcedure(s)

-----------------------------------------------------------------------------
(* Confirmations *)

ConfirmedByAnyone(s) ==   \* mutant
  \E c \in confirmed : c[1] = req[s].procedure /\ c[3] = req[s].role

\* findByProcedureAndUser
Existing(s) == <<req[s].procedure, req[s].who, req[s].role>> \in confirmed

\* The answer reaches the app or is lost; in that case the app asks again.
Succeed(s) == /\ told' \in {told, told \cup {<<req[s].who, req[s].procedure>>}}
              /\ Reply(s)

ReadMembership(s, op, next) ==
  /\ Running(s, op, "member")
  /\ req' = [req EXCEPT ![s].at = next, ![s].group = groupOf[req[s].who]]
  /\ UNCHANGED <<planVars, procedureVars, confirmed, memberVars, told>>

\* A live plan of the pilgrim's group, and a procedure that asks for the role.
MayConfirm(s) ==
  LET pl == PlanOf(req[s].procedure) IN
  /\ pl \in plans /\ groupOfPlan[pl] = req[s].group
  /\ req[s].rule \in {"BOTH", req[s].role}

FindConfirmation(s) ==
  /\ Running(s, "confirm", "existing")
  /\ IF Existing(s) THEN Succeed(s) ELSE GoTo(s, "insert") /\ UNCHANGED told
  /\ UNCHANGED <<planVars, procedureVars, confirmed, memberVars>>

\* An insert the unique index refuses has lost a race with a replay, and
\* succeeds all the same.
InsertConfirmation(s) ==
  /\ Running(s, "confirm", "insert")
  /\ confirmed' = confirmed \cup {<<req[s].procedure, req[s].who, req[s].role>>}
  /\ Succeed(s)
  /\ UNCHANGED <<planVars, procedureVars, memberVars>>

\* The app of p confirms x, or does so again.
Confirm(s) ==
  \/ \E p \in Pilgrims, x \in Inserted :
       Begin(s, [NoCall EXCEPT !.op = "confirm", !.at = "member", !.who = p,
                               !.procedure = x,
                               !.role = IF p \in guides THEN "GUIDE" ELSE "PILGRIM"])
  \/ ReadMembership(s, "confirm", "procedure")
  \/ ReadProcedure(s, "confirm", "plan")
  \/ Check(s, "confirm", "plan", MayConfirm(s), "existing")
  \/ FindConfirmation(s)
  \/ InsertConfirmation(s)

\* A second row is refused, by the test or by the index.
InsertStaffConfirmation(s) ==
  /\ Running(s, "confirmAsStaff", "insert")
  /\ confirmed' = confirmed \cup {<<req[s].procedure, req[s].who, req[s].role>>}
  /\ Reply(s)
  /\ UNCHANGED <<planVars, procedureVars, memberVars, told>>

\* The agency's side: a user confirms in either role.
ConfirmAsStaff(s) ==
  \/ \E u \in Staff, x \in Inserted, role \in Roles :
       Begin(s, [NoCall EXCEPT !.op = "confirmAsStaff", !.at = "procedure", !.who = u,
                               !.procedure = x, !.role = role])
  \/ ReadProcedure(s, "confirmAsStaff", "plan")
  \/ Check(s, "confirmAsStaff", "plan",
           /\ PlanOf(req[s].procedure) \in plans
           /\ req[s].rule \in {"unset", "BOTH", req[s].role}, "existing")
  \/ Check(s, "confirmAsStaff", "existing", ~Existing(s), "insert")
  \/ InsertStaffConfirmation(s)

-----------------------------------------------------------------------------
(* What a pilgrim is shown: getCurrentPlan *)

DatedPlans(g) == {pl \in plans \cap dated : groupOfPlan[pl] = g}
Newest(g) == {pl \in DatedPlans(g) : \A other \in DatedPlans(g) : other <= pl}

\* Without a plan, or with plans that have no date, no day is shown.
PickPlan(s) ==
  /\ Running(s, "getCurrentPlan", "plans")
  /\ IF DatedPlans(req[s].group) = {} THEN Reply(s)
     ELSE \E pl \in Newest(req[s].group) :
            req' = [req EXCEPT ![s].at = "procedures", ![s].plan = pl]
  /\ UNCHANGED <<planVars, procedureVars, confirmed, memberVars, told>>

\* The procedures of the day by the calendar of the app.
ReadToday(s) ==
  /\ Running(s, "getCurrentPlan", "procedures")
  /\ \E d \in Days :
       LET today == procedures \cap OnDay(req[s].plan, d) IN
       req' = [req EXCEPT ![s].at = "confirmations", ![s].left = today,
                          ![s].today = {<<x, Rule(x)>> : x \in today}]
  /\ UNCHANGED <<planVars, procedureVars, confirmed, memberVars, told>>

\* One query for each procedure, in any order.
ReadConfirmations(s) ==
  /\ Running(s, "getCurrentPlan", "confirmations")
  /\ \E x \in req[s].left :
       req' = [req EXCEPT ![s].left = @ \ {x},
                          ![s].seen = @ \cup {<<x, c[3]>> : c \in {c \in confirmed : c[1] = x}}]
  /\ UNCHANGED <<planVars, procedureVars, confirmed, memberVars, told>>

AnyoneDid(x, rule, by) ==   \* mutant
  rule \in Roles \cup {"BOTH"} => \E role \in Roles : rule \in {role, "BOTH"} /\ <<x, role>> \in by

\* Confirmed in every role that is asked for.
Done(x, rule, by) ==
  \A role \in Roles : rule \in {role, "BOTH"} => <<x, role>> \in by

\* Tomorrow is shown once today is complete.
FinishToday(s) ==
  /\ Running(s, "getCurrentPlan", "confirmations") /\ req[s].left = {}
  /\ IF \A t \in req[s].today : Done(t[1], t[2], req[s].seen)
     THEN GoTo(s, "tomorrow") ELSE Reply(s)
  /\ UNCHANGED <<planVars, procedureVars, confirmed, memberVars, told>>

ShowTomorrow(s) == /\ Running(s, "getCurrentPlan", "tomorrow")
                   /\ Reply(s)
                   /\ UNCHANGED <<planVars, procedureVars, confirmed, memberVars, told>>

GetCurrentPlan(s) ==
  \/ \E p \in Pilgrims :
       Begin(s, [NoCall EXCEPT !.op = "getCurrentPlan", !.at = "member", !.who = p])
  \/ ReadMembership(s, "getCurrentPlan", "plans")
  \/ PickPlan(s) \/ ReadToday(s) \/ ReadConfirmations(s) \/ FinishToday(s) \/ ShowTomorrow(s)

-----------------------------------------------------------------------------
Init == /\ plans = {} /\ groupOfPlan = [pl \in Plans |-> None]
        /\ totalDays = [pl \in Plans |-> 0] /\ dated = {}
        /\ procedures = {} /\ row = [x \in Procedures |-> NoRow]
        /\ confirmed = {} /\ told = {}
        /\ groupOf = [p \in Pilgrims |-> None] /\ guides = {}
        /\ req = [s \in Sessions |-> NoCall]

Serve(s) == \/ UpdatePlan(s) \/ DeletePlan(s)
            \/ CreateProcedure(s) \/ UpdateProcedure(s) \/ DeleteProcedure(s)
            \/ Confirm(s) \/ ConfirmAsStaff(s) \/ GetCurrentPlan(s)

Next == \/ MoveMember \/ FlagGuide \/ CreatePlan
        \/ \E s \in Sessions : Serve(s)

Spec == Init /\ [][Next]_vars

-----------------------------------------------------------------------------
ProcedureRows == [plan : Plans, day : Days, place : Nat, asks : BOOLEAN,
                  by : Roles \cup {"BOTH", None}]
Confirmations == Procedures \X (Pilgrims \cup Staff) \X Roles
Rules == {"nobody", "unset", "BOTH"} \cup Roles
RulesRead == SUBSET (Procedures \X Rules)
RolesRead == SUBSET (Procedures \X Roles)

Calls == [op : {"idle", "updatePlan", "deletePlan", "createProcedure", "updateProcedure",
                "deleteProcedure", "confirm", "confirmAsStaff", "getCurrentPlan"},
          at : {"idle", "update", "delete", "count", "insert", "procedure", "plan", "member",
                "existing", "plans", "procedures", "confirmations", "tomorrow"},
          who : Pilgrims \cup Staff \cup {None}, group : Groups \cup {None},
          plan : Plans \cup {None}, procedure : Procedures \cup {None},
          day : Days \cup {0}, place : Nat, role : Roles \cup {None}, rule : Rules,
          left : SUBSET Procedures, today : RulesRead, seen : RolesRead]

PlansTypeOK ==
  /\ plans \subseteq Plans /\ groupOfPlan \in [Plans -> Groups \cup {None}]
  /\ totalDays \in [Plans -> Days \cup {0}] /\ dated \subseteq Plans
  /\ procedures \subseteq Inserted /\ row \in [Procedures -> ProcedureRows \cup {NoRow}]
  /\ confirmed \subseteq Confirmations /\ told \subseteq Pilgrims \X Procedures
  /\ groupOf \in [Pilgrims -> Groups \cup {None}] /\ guides \subseteq Pilgrims
  /\ req \in [Sessions -> Calls]

-----------------------------------------------------------------------------
(* The order of a day.  createProcedure counts, then inserts: whoever       *)
(* counts in between gets the same place.                                   *)

Shared(pl, d, k) == {x \in OnDay(pl, d) : row[x].place = k}

\* However requests overlap, a day from which nothing has been deleted has its
\* procedures in places below their number, and no place is shared by more
\* procedures than requests are served at a time: served one by one, the order
\* is 0, 1, 2, ... (order_index of createProcedure).
PlacesInOrder ==
  \A pl \in Plans, d \in Days : OnDay(pl, d) \subseteq procedures =>
    \A x \in OnDay(pl, d) :
      /\ row[x].place < Cardinality(OnDay(pl, d))
      /\ Cardinality(Shared(pl, d, row[x].place)) <= Cardinality(Sessions)

\* "Idempotent: the app may replay the same confirmation": whatever replays,
\* edits and moves overlap, what an app has been told is confirmed is recorded
\* under its own pilgrim.
ToldIsRecorded ==
  \A t \in told : \E role \in Roles : <<t[2], t[1], role>> \in confirmed

\* getCurrentPlan reads procedures and confirmations one after the other while
\* others write both; tomorrow is shown only if every procedure it read for
\* today is confirmed in each role it asked for.
TomorrowIsEarned ==
  \A s \in Sessions : req[s].at = "tomorrow" =>
    \A t \in req[s].today, role \in Roles :
      t[2] \in {role, "BOTH"} => \E c \in confirmed : c[1] = t[1] /\ c[3] = role

=============================================================================
