----------------------------- MODULE PlansProofs -----------------------------
(***************************************************************************)
(* Theorems about Plans: its types, that what an app has been told is      *)
(* recorded, and that tomorrow is shown only after today, for any number   *)
(* of requests at a time.                                                  *)
(***************************************************************************)
EXTENDS Plans, TLAPS, FiniteSetTheorems

Shown == {<<c[1], c[3]>> : c \in confirmed}

\* A call with other values of some fields is a call.
LEMMA UpdatedCall ==
  ASSUME NEW c \in Calls
  PROVE  /\ \A r \in Rules : [c EXCEPT !.at = "plan", !.rule = r] \in Calls
         /\ \A g \in Groups \cup {None}, at \in {"procedure", "plans"} :
              [c EXCEPT !.at = at, !.group = g] \in Calls
         /\ \A k \in Nat : [c EXCEPT !.at = "insert", !.place = k] \in Calls
         /\ \A pl \in Plans : [c EXCEPT !.at = "procedures", !.plan = pl] \in Calls
         /\ \A X \in SUBSET Procedures, T \in RulesRead :
              [c EXCEPT !.at = "confirmations", !.left = X, !.today = T] \in Calls
         /\ \A X \in SUBSET Procedures, T \in RolesRead :
              [c EXCEPT !.left = X, !.seen = T] \in Calls
  <1>1. ASSUME NEW r \in Rules PROVE [c EXCEPT !.at = "plan", !.rule = r] \in Calls
    BY DEF Calls
  <1>2. ASSUME NEW g \in Groups \cup {None}, NEW at \in {"procedure", "plans"}
        PROVE  [c EXCEPT !.at = at, !.group = g] \in Calls
    <2>1. [c EXCEPT !.at = at] \in Calls BY DEF Calls
    <2>2. \A d \in Calls : [d EXCEPT !.group = g] \in Calls BY DEF Calls
    <2>3. [c EXCEPT !.at = at, !.group = g] = [[c EXCEPT !.at = at] EXCEPT !.group = g]
      BY DEF Calls
    <2> QED BY <2>1, <2>2, <2>3
  <1>3. ASSUME NEW k \in Nat PROVE [c EXCEPT !.at = "insert", !.place = k] \in Calls
    BY DEF Calls
  <1>4. ASSUME NEW pl \in Plans
        PROVE  [c EXCEPT !.at = "procedures", !.plan = pl] \in Calls
    BY DEF Calls
  <1>5. ASSUME NEW X \in SUBSET Procedures, NEW T \in RulesRead
        PROVE  [c EXCEPT !.at = "confirmations", !.left = X, !.today = T] \in Calls
    BY DEF Calls
  <1>6. ASSUME NEW X \in SUBSET Procedures, NEW T \in RolesRead
        PROVE  [c EXCEPT !.left = X, !.seen = T] \in Calls
    BY DEF Calls
  <1> QED BY <1>1, <1>2, <1>3, <1>4, <1>5, <1>6

\* What a request keeps from its earlier statements, with the procedures
\* inserted and the confirmations shown so far.
Keeps(c, inserted, shown) ==
  /\ c.op \in {"updatePlan", "deletePlan", "createProcedure"} => c.plan \in Plans
  /\ c.op = "createProcedure" => c.day \in Days
  /\ c.op \in {"updateProcedure", "deleteProcedure", "confirm", "confirmAsStaff"} =>
       c.procedure \in inserted
  /\ c.op = "confirm" => c.who \in Pilgrims /\ c.role \in Roles
  /\ c.op = "confirmAsStaff" => c.who \in Staff /\ c.role \in Roles
  /\ c.op = "getCurrentPlan" => c.who \in Pilgrims
  /\ c.seen \subseteq shown
  /\ c.at = "tomorrow" => \A t \in c.today : Done(t[1], t[2], c.seen)

CallsKept == \A s \in Sessions : Keeps(req[s], Inserted, Shown)

Inv == PlansTypeOK /\ CallsKept /\ ToldIsRecorded

\* Procedures stay inserted and confirmations stay.
Grows == Inserted \subseteq Inserted' /\ confirmed \subseteq confirmed'

LEMMA NoCallFine == NoCall \in Calls /\ Keeps(NoCall, Inserted, Shown)
  BY DEF NoCall, Calls, Keeps, Rules, RulesRead, RolesRead

LEMMA GrownShown == ASSUME Grows PROVE Shown \subseteq Shown'
  BY DEF Grows, Shown

LEMMA KeptWhenGrown ==
  ASSUME Grows, NEW c, Keeps(c, Inserted, Shown)
  PROVE  Keeps(c, Inserted', Shown')
  BY GrownShown DEF Grows, Keeps

\* One request goes on as c, the others stay where they are.
LEMMA OneMoves ==
  ASSUME Inv, Grows, NEW s \in Sessions, NEW c \in Calls, Keeps(c, Inserted', Shown'),
         req' = [req EXCEPT ![s] = c]
  PROVE  req' \in [Sessions -> Calls] /\ CallsKept'
  <1>1. req' \in [Sessions -> Calls] BY DEF Inv, PlansTypeOK
  <1>2. ASSUME NEW r \in Sessions PROVE Keeps(req'[r], Inserted', Shown')
    <2>1. CASE r = s BY <2>1 DEF Inv, PlansTypeOK
    <2>2. CASE r # s
      <3>1. req'[r] = req[r] BY <2>2 DEF Inv, PlansTypeOK
      <3>2. Keeps(req[r], Inserted, Shown) BY DEF Inv, CallsKept
      <3> QED BY <3>1, <3>2, GrownShown DEF Grows, Keeps
    <2> QED BY <2>1, <2>2
  <1> QED BY <1>1, <1>2 DEF CallsKept

LEMMA Replies ==
  ASSUME Inv, Grows, NEW s \in Sessions, Reply(s)
  PROVE  req' \in [Sessions -> Calls] /\ CallsKept'
  <1>1. Keeps(NoCall, Inserted', Shown') BY NoCallFine, KeptWhenGrown
  <1> QED BY <1>1, NoCallFine, OneMoves DEF Reply

\* A request that goes to its next statement, which is not "tomorrow".
LEMMA GoesTo ==
  ASSUME Inv, Grows, NEW s \in Sessions, NEW at,
         at \in {"update", "delete", "insert", "procedure", "plan", "existing"},
         GoTo(s, at)
  PROVE  req' \in [Sessions -> Calls] /\ CallsKept'
  <1> DEFINE c == [req[s] EXCEPT !.at = at]
  <1>1. req[s] \in Calls /\ Keeps(req[s], Inserted, Shown) BY DEF Inv, PlansTypeOK, CallsKept
  <1>2. c \in Calls BY <1>1 DEF Calls
  <1>3. Keeps(c, Inserted, Shown) BY <1>1 DEF Keeps, Calls
  <1>4. Keeps(c, Inserted', Shown') BY <1>3, KeptWhenGrown
  <1>5. req' = [req EXCEPT ![s] = c] BY DEF GoTo, Inv, PlansTypeOK
  <1> HIDE DEF c
  <1> QED BY <1>2, <1>4, <1>5, OneMoves

LEMMA RulesType ==
  ASSUME PlansTypeOK, NEW x \in Procedures
  PROVE  Rule(x) \in Rules
  BY DEF PlansTypeOK, Rule, Rules, ProcedureRows, NoRow

\* A step of a request that writes nothing but itself.
LEMMA OnlyRequests ==
  ASSUME Inv, UNCHANGED <<planVars, procedureVars, confirmed, memberVars, told>>,
         req' \in [Sessions -> Calls], CallsKept'
  PROVE  Inv'
  BY DEF Inv, PlansTypeOK, ToldIsRecorded, Inserted, planVars, procedureVars, memberVars

LEMMA Nothing ==
  ASSUME UNCHANGED <<planVars, procedureVars, confirmed, memberVars, told>>
  PROVE  Grows
  BY DEF Grows, Inserted, procedureVars

-----------------------------------------------------------------------------
(* The statements handlers share *)

LEMMA Begins ==
  ASSUME Inv, NEW s \in Sessions, NEW c \in Calls, Keeps(c, Inserted, Shown), Begin(s, c)
  PROVE  Inv'
  <1>1. Grows BY Nothing DEF Begin
  <1>2. Keeps(c, Inserted', Shown') BY <1>1, KeptWhenGrown
  <1> QED BY <1>1, <1>2, OneMoves, OnlyRequests DEF Begin

LEMMA Checks ==
  ASSUME Inv, NEW s \in Sessions, NEW op, NEW at, NEW test, NEW next,
         next \in {"update", "delete", "insert", "existing"},
         Check(s, op, at, test, next)
  PROVE  Inv'
  <1>1. Grows BY Nothing DEF Check
  <1>2. req' \in [Sessions -> Calls] /\ CallsKept'
    BY <1>1, GoesTo, Replies DEF Check
  <1> QED BY <1>2, OnlyRequests DEF Check

\* A request keeps what it has read.
LEMMA Reads ==
  ASSUME Inv, NEW s \in Sessions, NEW c \in Calls, Keeps(c, Inserted, Shown),
         req' = [req EXCEPT ![s] = c],
         UNCHANGED <<planVars, procedureVars, confirmed, memberVars, told>>
  PROVE  Inv'
  <1>1. Grows BY Nothing
  <1>2. Keeps(c, Inserted', Shown') BY <1>1, KeptWhenGrown
  <1> QED BY <1>1, <1>2, OneMoves, OnlyRequests

LEMMA Ends ==
  ASSUME Inv, NEW s \in Sessions, Reply(s),
         UNCHANGED <<planVars, procedureVars, confirmed, memberVars, told>>
  PROVE  Inv'
  BY NoCallFine, Reads DEF Reply

LEMMA ReadsProcedure ==
  ASSUME Inv, NEW s \in Sessions, NEW op, ReadProcedure(s, op, "plan")
  PROVE  Inv'
  <1> DEFINE x == req[s].procedure
             c == [req[s] EXCEPT !.at = "plan", !.rule = Rule(x)]
  <1>1. req[s] \in Calls /\ Keeps(req[s], Inserted, Shown) BY DEF Inv, PlansTypeOK, CallsKept
  <1>2. CASE x \in procedures
    <2>1. x \in Procedures BY <1>2 DEF Inv, PlansTypeOK, Inserted
    <2>2. Rule(x) \in Rules BY <2>1, RulesType DEF Inv
    <2>3. c \in Calls BY <1>1, <2>2, UpdatedCall
    <2>4. Keeps(c, Inserted, Shown) BY <1>1 DEF Keeps, Calls
    <2>5. req' = [req EXCEPT ![s] = c]
      BY <1>2 DEF ReadProcedure, Inv, PlansTypeOK
    <2> HIDE DEF c
    <2> QED BY <2>3, <2>4, <2>5, Reads DEF ReadProcedure
  <1>3. CASE x \notin procedures BY <1>3, Ends DEF ReadProcedure
  <1> QED BY <1>2, <1>3

LEMMA ReadsMembership ==
  ASSUME Inv, NEW s \in Sessions, NEW op \in {"confirm", "getCurrentPlan"},
         NEW next \in {"procedure", "plans"}, ReadMembership(s, op, next)
  PROVE  Inv'
  <1> DEFINE c == [req[s] EXCEPT !.at = next, !.group = groupOf[req[s].who]]
  <1>1. req[s] \in Calls /\ Keeps(req[s], Inserted, Shown) BY DEF Inv, PlansTypeOK, CallsKept
  <1>2. req[s].who \in Pilgrims BY <1>1 DEF Keeps, ReadMembership, Running
  <1>3. groupOf[req[s].who] \in Groups \cup {None} BY <1>2 DEF Inv, PlansTypeOK
  <1>4. c \in Calls BY <1>1, <1>3, UpdatedCall
  <1>5. Keeps(c, Inserted, Shown) BY <1>1 DEF Keeps, Calls
  <1>6. req' = [req EXCEPT ![s] = c] BY DEF ReadMembership, Inv, PlansTypeOK
  <1> HIDE DEF c
  <1> QED BY <1>4, <1>5, <1>6, Reads DEF ReadMembership

-----------------------------------------------------------------------------
(* What others do *)

LEMMA MoveMembers == ASSUME Inv, MoveMember PROVE Inv'
  <1>1. Grows BY DEF MoveMember, Grows, Inserted, procedureVars
  <1>2. CallsKept' /\ ToldIsRecorded'
    BY DEF MoveMember, Inv, CallsKept, ToldIsRecorded, Shown, Inserted, procedureVars
  <1>3. PlansTypeOK'
    BY DEF MoveMember, Inv, PlansTypeOK, Inserted, planVars, procedureVars
  <1> QED BY <1>2, <1>3 DEF Inv

LEMMA FlagGuides == ASSUME Inv, FlagGuide PROVE Inv'
  <1>1. CallsKept' /\ ToldIsRecorded'
    BY DEF FlagGuide, Inv, CallsKept, ToldIsRecorded, Shown, Inserted, procedureVars
  <1>2. PlansTypeOK'
    BY DEF FlagGuide, Inv, PlansTypeOK, Inserted, planVars, procedureVars
  <1> QED BY <1>1, <1>2 DEF Inv

LEMMA CreatesPlan == ASSUME Inv, CreatePlan PROVE Inv'
  <1>1. CallsKept' /\ ToldIsRecorded'
    BY DEF CreatePlan, Inv, CallsKept, ToldIsRecorded, Shown, Inserted, procedureVars
  <1>2. PlansTypeOK'
    BY DEF CreatePlan, Inv, PlansTypeOK, Inserted, memberVars, procedureVars
  <1> QED BY <1>1, <1>2 DEF Inv

-----------------------------------------------------------------------------
(* Plans *)

LEMMA UpdatesPlan == ASSUME Inv, NEW s \in Sessions, UpdatePlan(s) PROVE Inv'
  <1>1. ASSUME NEW pl \in plans,
               Begin(s, [NoCall EXCEPT !.op = "updatePlan", !.at = "update", !.plan = pl])
        PROVE  Inv'
    <2> DEFINE c == [NoCall EXCEPT !.op = "updatePlan", !.at = "update", !.plan = pl]
    <2>1. pl \in Plans BY DEF Inv, PlansTypeOK
    <2>2. c \in Calls BY <2>1 DEF NoCall, Calls, Rules, RulesRead, RolesRead
    <2>3. Keeps(c, Inserted, Shown) BY <2>1 DEF NoCall, Keeps
    <2> HIDE DEF c
    <2> QED BY <1>1, <2>2, <2>3, Begins DEF c
  <1>2. CASE WritePlan(s)
    <2>1. Grows BY <1>2 DEF WritePlan, Grows, Inserted, procedureVars
    <2>2. Keeps(req[s], Inserted, Shown) BY DEF Inv, CallsKept
    <2>3. req[s].plan \in Plans BY <1>2, <2>2 DEF WritePlan, Running, Keeps
    <2>4. req' \in [Sessions -> Calls] /\ CallsKept'
      BY <1>2, <2>1, Replies DEF WritePlan
    <2>5. PlansTypeOK'
      BY <1>2, <2>3, <2>4 DEF WritePlan, Inv, PlansTypeOK, Inserted, procedureVars, memberVars
    <2>6. ToldIsRecorded' BY <1>2 DEF WritePlan, Inv, ToldIsRecorded
    <2> QED BY <2>4, <2>5, <2>6 DEF Inv
  <1> QED BY <1>1, <1>2 DEF UpdatePlan

LEMMA DeletesPlan == ASSUME Inv, NEW s \in Sessions, DeletePlan(s) PROVE Inv'
  <1>1. ASSUME NEW pl \in plans,
               Begin(s, [NoCall EXCEPT !.op = "deletePlan", !.at = "delete", !.plan = pl])
        PROVE  Inv'
    <2> DEFINE c == [NoCall EXCEPT !.op = "deletePlan", !.at = "delete", !.plan = pl]
    <2>1. pl \in Plans BY DEF Inv, PlansTypeOK
    <2>2. c \in Calls BY <2>1 DEF NoCall, Calls, Rules, RulesRead, RolesRead
    <2>3. Keeps(c, Inserted, Shown) BY <2>1 DEF NoCall, Keeps
    <2> HIDE DEF c
    <2> QED BY <1>1, <2>2, <2>3, Begins DEF c
  <1>2. CASE DropPlan(s)
    <2>1. Grows BY <1>2 DEF DropPlan, Grows, Inserted, procedureVars
    <2>2. req' \in [Sessions -> Calls] /\ CallsKept'
      BY <1>2, <2>1, Replies DEF DropPlan
    <2>3. PlansTypeOK'
      BY <1>2, <2>2 DEF DropPlan, Inv, PlansTypeOK, Inserted, procedureVars, memberVars
    <2>4. ToldIsRecorded' BY <1>2 DEF DropPlan, Inv, ToldIsRecorded
    <2> QED BY <2>2, <2>3, <2>4 DEF Inv
  <1> QED BY <1>1, <1>2 DEF DeletePlan

-----------------------------------------------------------------------------
(* Procedures *)

LEMMA CountsProcedures == ASSUME Inv, NEW s \in Sessions, CountProcedures(s) PROVE Inv'
  <1> DEFINE k == CountOnDay(req[s].plan, req[s].day)
             c == [req[s] EXCEPT !.at = "insert", !.place = k]
  <1>1. req[s] \in Calls /\ Keeps(req[s], Inserted, Shown) BY DEF Inv, PlansTypeOK, CallsKept
  <1>2. k \in Nat
    <2>1. procedures \cap OnDay(req[s].plan, req[s].day) \subseteq Procedures
      BY DEF Inv, PlansTypeOK, Inserted
    <2> QED BY <2>1, PlansAssumption, FS_Subset, FS_CardinalityType DEF CountOnDay
  <1> HIDE DEF k
  <1>3. c \in Calls BY <1>1, <1>2, UpdatedCall
  <1>4. Keeps(c, Inserted, Shown) BY <1>1 DEF Keeps, Calls
  <1>5. req' = [req EXCEPT ![s] = c] BY DEF CountProcedures, Inv, PlansTypeOK, k
  <1> HIDE DEF c
  <1> QED BY <1>3, <1>4, <1>5, Reads DEF CountProcedures

LEMMA InsertsProcedure == ASSUME Inv, NEW s \in Sessions, InsertProcedure(s) PROVE Inv'
  <1> DEFINE Row(asks, by) == [plan |-> req[s].plan, day |-> req[s].day,
                               place |-> req[s].place, asks |-> asks, by |-> by]
  <1>1. req[s] \in Calls /\ Keeps(req[s], Inserted, Shown) BY DEF Inv, PlansTypeOK, CallsKept
  <1>2. PICK x \in Procedures \ Inserted : \E asks \in BOOLEAN, by \in AskedOf \cup {None} :
          /\ row' = [row EXCEPT ![x] = Row(asks, by)]
          /\ procedures' = procedures \cup {x}
    BY DEF InsertProcedure
  <1>3. PICK asks \in BOOLEAN, by \in AskedOf \cup {None} :
          /\ row' = [row EXCEPT ![x] = Row(asks, by)]
          /\ procedures' = procedures \cup {x}
    BY <1>2
  <1>4. Row(asks, by) \in ProcedureRows /\ Row(asks, by) # NoRow
    <2>1. req[s].plan \in Plans /\ req[s].day \in Days /\ req[s].place \in Nat
      BY <1>1 DEF InsertProcedure, Running, Keeps, Calls
    <2>2. by \in Roles \cup {"BOTH", None} BY PlansAssumption
    <2> QED BY <2>1, <2>2 DEF ProcedureRows, NoRow, Days
  <1>5. Inserted' = Inserted \cup {x}
    BY <1>3, <1>4 DEF Inserted, Inv, PlansTypeOK
  <1>6. Grows BY <1>5 DEF Grows, InsertProcedure
  <1>7. req' \in [Sessions -> Calls] /\ CallsKept' BY <1>6, Replies DEF InsertProcedure
  <1> HIDE DEF Row
  <1>8. row' \in [Procedures -> ProcedureRows \cup {NoRow}]
    BY <1>3, <1>4 DEF Inv, PlansTypeOK
  <1>9. PlansTypeOK'
    BY <1>3, <1>5, <1>7, <1>8 DEF InsertProcedure, Inv, PlansTypeOK, planVars, memberVars
  <1>10. ToldIsRecorded' BY DEF InsertProcedure, Inv, ToldIsRecorded
  <1> QED BY <1>7, <1>9, <1>10 DEF Inv

LEMMA CreatesProcedure == ASSUME Inv, NEW s \in Sessions, CreateProcedure(s) PROVE Inv'
  <1>1. ASSUME NEW pl \in plans, NEW d \in 1 .. totalDays[pl],
               Begin(s, [NoCall EXCEPT !.op = "createProcedure", !.at = "count",
                                       !.plan = pl, !.day = d])
        PROVE  Inv'
    <2> DEFINE c == [NoCall EXCEPT !.op = "createProcedure", !.at = "count",
                                   !.plan = pl, !.day = d]
    <2>1. pl \in Plans /\ totalDays[pl] \in Days \cup {0} BY DEF Inv, PlansTypeOK
    <2>2. d \in Days BY <2>1, PlansAssumption DEF Days
    <2>3. c \in Calls BY <2>1, <2>2 DEF NoCall, Calls, Rules, RulesRead, RolesRead
    <2>4. Keeps(c, Inserted, Shown) BY <2>1, <2>2 DEF NoCall, Keeps
    <2> HIDE DEF c
    <2> QED BY <1>1, <2>3, <2>4, Begins DEF c
  <1>2. CASE CountProcedures(s) BY <1>2, CountsProcedures
  <1>3. CASE InsertProcedure(s) BY <1>3, InsertsProcedure
  <1> QED BY <1>1, <1>2, <1>3 DEF CreateProcedure

LEMMA WritesProcedure == ASSUME Inv, NEW s \in Sessions, WriteProcedure(s) PROVE Inv'
  <1> DEFINE x == req[s].procedure
  <1>1. Keeps(req[s], Inserted, Shown) BY DEF Inv, CallsKept
  <1>2. x \in Inserted BY <1>1 DEF WriteProcedure, Running, Keeps
  <1>3. row[x] \in ProcedureRows /\ x \in Procedures
    BY <1>2 DEF Inv, PlansTypeOK, Inserted
  <1>4. PICK asks \in BOOLEAN, by \in AskedOf \cup {row[x].by} :
          row' = [row EXCEPT ![x].asks = asks, ![x].by = by]
    BY DEF WriteProcedure
  <1> DEFINE new == [row[x] EXCEPT !.asks = asks, !.by = by]
  <1>5. by \in Roles \cup {"BOTH", None} BY <1>3, PlansAssumption DEF ProcedureRows
  <1>6. new \in ProcedureRows BY <1>3, <1>5 DEF ProcedureRows
  <1>7. new # NoRow BY <1>6 DEF ProcedureRows, NoRow, Days
  <1>8. row' = [row EXCEPT ![x] = new] BY <1>3, <1>4 DEF Inv, PlansTypeOK
  <1> HIDE DEF new
  <1>9. Inserted' = Inserted BY <1>2, <1>3, <1>7, <1>8 DEF Inserted, Inv, PlansTypeOK
  <1>10. Grows BY <1>9 DEF Grows, WriteProcedure
  <1>11. req' \in [Sessions -> Calls] /\ CallsKept' BY <1>10, Replies DEF WriteProcedure
  <1>12. row' \in [Procedures -> ProcedureRows \cup {NoRow}]
    BY <1>3, <1>6, <1>8 DEF Inv, PlansTypeOK
  <1>13. PlansTypeOK'
    BY <1>9, <1>11, <1>12 DEF WriteProcedure, Inv, PlansTypeOK, planVars, memberVars
  <1>14. ToldIsRecorded' BY DEF WriteProcedure, Inv, ToldIsRecorded
  <1> QED BY <1>11, <1>13, <1>14 DEF Inv

\* A staff request about an inserted procedure.
LEMMA BeginsOnProcedure ==
  ASSUME Inv, NEW s \in Sessions, NEW x \in Inserted,
         NEW op \in {"updateProcedure", "deleteProcedure"},
         Begin(s, [NoCall EXCEPT !.op = op, !.at = "procedure", !.procedure = x])
  PROVE  Inv'
  <1> DEFINE c == [NoCall EXCEPT !.op = op, !.at = "procedure", !.procedure = x]
  <1>1. x \in Procedures BY DEF Inserted
  <1>2. c \in Calls BY <1>1 DEF NoCall, Calls, Rules, RulesRead, RolesRead
  <1>3. Keeps(c, Inserted, Shown) BY DEF NoCall, Keeps
  <1> HIDE DEF c
  <1> QED BY <1>2, <1>3, Begins DEF c

LEMMA UpdatesProcedure == ASSUME Inv, NEW s \in Sessions, UpdateProcedure(s) PROVE Inv'
  BY BeginsOnProcedure, ReadsProcedure, Checks, WritesProcedure DEF UpdateProcedure

LEMMA DropsProcedure == ASSUME Inv, NEW s \in Sessions, DropProcedure(s) PROVE Inv'
  <1>1. Grows BY DEF DropProcedure, Grows, Inserted
  <1>2. req' \in [Sessions -> Calls] /\ CallsKept' BY <1>1, Replies DEF DropProcedure
  <1>3. PlansTypeOK'
    BY <1>2 DEF DropProcedure, Inv, PlansTypeOK, Inserted, planVars, memberVars
  <1>4. ToldIsRecorded' BY DEF DropProcedure, Inv, ToldIsRecorded
  <1> QED BY <1>2, <1>3, <1>4 DEF Inv

LEMMA DeletesProcedure == ASSUME Inv, NEW s \in Sessions, DeleteProcedure(s) PROVE Inv'
  BY BeginsOnProcedure, ReadsProcedure, Checks, DropsProcedure DEF DeleteProcedure

-----------------------------------------------------------------------------
(* Confirmations *)

\* The caller and the procedure of a request to confirm.
Confirms(s) == /\ req[s].procedure \in Procedures
               /\ req[s].who \in Pilgrims \cup Staff
               /\ req[s].role \in Roles

LEMMA ConfirmsOne ==
  ASSUME Inv, NEW s \in Sessions, req[s].op \in {"confirm", "confirmAsStaff"}
  PROVE  Confirms(s) /\ (req[s].op = "confirm" => req[s].who \in Pilgrims)
  <1>1. Keeps(req[s], Inserted, Shown) BY DEF Inv, CallsKept
  <1> QED BY <1>1 DEF Keeps, Confirms, Inserted

\* What is told is recorded by the step itself, or was before it.
LEMMA Succeeds ==
  ASSUME Inv, NEW s \in Sessions, req[s].op = "confirm", Succeed(s),
         confirmed' \subseteq Confirmations, confirmed \subseteq confirmed',
         <<req[s].procedure, req[s].who, req[s].role>> \in confirmed',
         UNCHANGED <<planVars, procedureVars, memberVars>>
  PROVE  Inv'
  <1>1. Confirms(s) /\ req[s].who \in Pilgrims BY ConfirmsOne
  <1>2. Grows BY DEF Grows, Inserted, procedureVars
  <1>3. req' \in [Sessions -> Calls] /\ CallsKept' BY <1>2, Replies DEF Succeed
  <1>4. PlansTypeOK'
    BY <1>1, <1>3 DEF Succeed, Confirms, Inv, PlansTypeOK, Inserted, planVars,
                      procedureVars, memberVars
  <1>5. ASSUME NEW t \in told'
        PROVE  \E role \in Roles : <<t[2], t[1], role>> \in confirmed'
    <2>1. CASE t \in told BY <2>1 DEF Inv, ToldIsRecorded
    <2>2. CASE t = <<req[s].who, req[s].procedure>> BY <2>2, <1>1 DEF Confirms
    <2> QED BY <2>1, <2>2 DEF Succeed
  <1> QED BY <1>3, <1>4, <1>5 DEF Inv, ToldIsRecorded

LEMMA FindsConfirmation == ASSUME Inv, NEW s \in Sessions, FindConfirmation(s) PROVE Inv'
  <1>1. CASE Existing(s)
    <2>1. confirmed \subseteq Confirmations BY DEF Inv, PlansTypeOK
    <2> QED BY <1>1, <2>1, Succeeds DEF FindConfirmation, Running, Existing
  <1>2. CASE ~Existing(s)
    <2>1. GoTo(s, "insert") /\ UNCHANGED <<planVars, procedureVars, confirmed, memberVars, told>>
      BY <1>2 DEF FindConfirmation
    <2> QED BY <2>1, Nothing, GoesTo, OnlyRequests
  <1> QED BY <1>1, <1>2

LEMMA InsertsConfirmation == ASSUME Inv, NEW s \in Sessions, InsertConfirmation(s) PROVE Inv'
  <1>1. Confirms(s) BY ConfirmsOne DEF InsertConfirmation, Running
  <1>2. confirmed' \subseteq Confirmations
    BY <1>1 DEF InsertConfirmation, Confirms, Confirmations, Inv, PlansTypeOK
  <1> QED BY <1>2, Succeeds DEF InsertConfirmation, Running

LEMMA ConfirmsProcedure == ASSUME Inv, NEW s \in Sessions, Confirm(s) PROVE Inv'
  <1>1. ASSUME NEW p \in Pilgrims, NEW x \in Inserted, NEW role \in Roles,
               Begin(s, [NoCall EXCEPT !.op = "confirm", !.at = "member", !.who = p,
                                       !.procedure = x, !.role = role])
        PROVE  Inv'
    <2> DEFINE c == [NoCall EXCEPT !.op = "confirm", !.at = "member", !.who = p,
                                   !.procedure = x, !.role = role]
    <2>1. x \in Procedures BY DEF Inserted
    <2>2. c \in Calls BY <2>1 DEF NoCall, Calls, Rules, RulesRead, RolesRead
    <2>3. Keeps(c, Inserted, Shown) BY DEF NoCall, Keeps
    <2> HIDE DEF c
    <2> QED BY <1>1, <2>2, <2>3, Begins DEF c
  <1>2. CASE \E p \in Pilgrims, x \in Inserted :
               Begin(s, [NoCall EXCEPT !.op = "confirm", !.at = "member", !.who = p,
                                       !.procedure = x,
                                       !.role = IF p \in guides THEN "GUIDE" ELSE "PILGRIM"])
    <2>1. \A p \in Pilgrims : (IF p \in guides THEN "GUIDE" ELSE "PILGRIM") \in Roles
      BY DEF Roles
    <2> QED BY <1>1, <1>2, <2>1
  <1>3. CASE ~ \E p \in Pilgrims, x \in Inserted :
               Begin(s, [NoCall EXCEPT !.op = "confirm", !.at = "member", !.who = p,
                                       !.procedure = x,
                                       !.role = IF p \in guides THEN "GUIDE" ELSE "PILGRIM"])
    BY <1>3, ReadsMembership, ReadsProcedure, Checks, FindsConfirmation, InsertsConfirmation
       DEF Confirm
  <1> QED BY <1>2, <1>3

LEMMA InsertsStaffConfirmation ==
  ASSUME Inv, NEW s \in Sessions, InsertStaffConfirmation(s)
  PROVE  Inv'
  <1>1. Confirms(s) BY ConfirmsOne DEF InsertStaffConfirmation, Running
  <1>2. confirmed' \subseteq Confirmations
    BY <1>1 DEF InsertStaffConfirmation, Confirms, Confirmations, Inv, PlansTypeOK
  <1>3. Grows BY DEF InsertStaffConfirmation, Grows, Inserted, procedureVars
  <1>4. req' \in [Sessions -> Calls] /\ CallsKept'
    BY <1>3, Replies DEF InsertStaffConfirmation
  <1>5. PlansTypeOK'
    BY <1>2, <1>4 DEF InsertStaffConfirmation, Inv, PlansTypeOK, Inserted, planVars,
                      procedureVars, memberVars
  <1>6. ToldIsRecorded' BY DEF InsertStaffConfirmation, Inv, ToldIsRecorded
  <1> QED BY <1>4, <1>5, <1>6 DEF Inv

LEMMA StaffConfirms == ASSUME Inv, NEW s \in Sessions, ConfirmAsStaff(s) PROVE Inv'
  <1>1. ASSUME NEW u \in Staff, NEW x \in Inserted, NEW role \in Roles,
               Begin(s, [NoCall EXCEPT !.op = "confirmAsStaff", !.at = "procedure",
                                       !.who = u, !.procedure = x, !.role = role])
        PROVE  Inv'
    <2> DEFINE c == [NoCall EXCEPT !.op = "confirmAsStaff", !.at = "procedure",
                                   !.who = u, !.procedure = x, !.role = role]
    <2>1. x \in Procedures BY DEF Inserted
    <2>2. c \in Calls BY <2>1 DEF NoCall, Calls, Rules, RulesRead, RolesRead
    <2>3. Keeps(c, Inserted, Shown) BY DEF NoCall, Keeps
    <2> HIDE DEF c
    <2> QED BY <1>1, <2>2, <2>3, Begins DEF c
  <1> QED BY <1>1, ReadsProcedure, Checks, InsertsStaffConfirmation DEF ConfirmAsStaff

-----------------------------------------------------------------------------
(* What a pilgrim is shown *)

LEMMA PicksPlan == ASSUME Inv, NEW s \in Sessions, PickPlan(s) PROVE Inv'
  <1>1. req[s] \in Calls /\ Keeps(req[s], Inserted, Shown) BY DEF Inv, PlansTypeOK, CallsKept
  <1>2. CASE DatedPlans(req[s].group) = {} BY <1>2, Ends DEF PickPlan
  <1>3. CASE DatedPlans(req[s].group) # {}
    <2>1. PICK pl \in Newest(req[s].group) :
            req' = [req EXCEPT ![s].at = "procedures", ![s].plan = pl]
      BY <1>3 DEF PickPlan
    <2>2. pl \in Plans BY DEF Newest, DatedPlans, Inv, PlansTypeOK
    <2> DEFINE c == [req[s] EXCEPT !.at = "procedures", !.plan = pl]
    <2>3. c \in Calls BY <1>1, <2>2, UpdatedCall
    <2>4. Keeps(c, Inserted, Shown) BY <1>1, <2>2 DEF Keeps, Calls
    <2>5. req' = [req EXCEPT ![s] = c] BY <2>1 DEF Inv, PlansTypeOK
    <2> HIDE DEF c
    <2> QED BY <2>3, <2>4, <2>5, Reads DEF PickPlan
  <1> QED BY <1>2, <1>3

LEMMA ReadsToday == ASSUME Inv, NEW s \in Sessions, ReadToday(s) PROVE Inv'
  <1>1. req[s] \in Calls /\ Keeps(req[s], Inserted, Shown) BY DEF Inv, PlansTypeOK, CallsKept
  <1>2. PICK d \in Days :
          req' = [req EXCEPT ![s].at = "confirmations",
                             ![s].left = procedures \cap OnDay(req[s].plan, d),
                             ![s].today = {<<x, Rule(x)>> :
                                           x \in procedures \cap OnDay(req[s].plan, d)}]
    BY DEF ReadToday
  <1> DEFINE X == procedures \cap OnDay(req[s].plan, d)
             T == {<<x, Rule(x)>> : x \in X}
             c == [req[s] EXCEPT !.at = "confirmations", !.left = X, !.today = T]
  <1>3. X \in SUBSET Procedures BY DEF Inv, PlansTypeOK, Inserted
  <1>4. T \in RulesRead BY <1>3, RulesType DEF Inv, RulesRead
  <1>5. req' = [req EXCEPT ![s] = c] BY <1>2 DEF Inv, PlansTypeOK
  <1> HIDE DEF X, T
  <1>6. c \in Calls BY <1>1, <1>3, <1>4, UpdatedCall
  <1>7. Keeps(c, Inserted, Shown) BY <1>1 DEF Keeps, Calls
  <1> HIDE DEF c
  <1> QED BY <1>5, <1>6, <1>7, Reads DEF ReadToday

LEMMA ReadsConfirmations == ASSUME Inv, NEW s \in Sessions, ReadConfirmations(s) PROVE Inv'
  <1>1. req[s] \in Calls /\ Keeps(req[s], Inserted, Shown) BY DEF Inv, PlansTypeOK, CallsKept
  <1>2. PICK x \in req[s].left :
          req' = [req EXCEPT ![s].left = @ \ {x},
                             ![s].seen = @ \cup {<<x, k[3]>> : k \in {k \in confirmed : k[1] = x}}]
    BY DEF ReadConfirmations
  <1> DEFINE X == req[s].left \ {x}
             S == {<<x, k[3]>> : k \in {k \in confirmed : k[1] = x}}
             T == req[s].seen \cup S
             c == [req[s] EXCEPT !.left = X, !.seen = T]
  <1>3. X \in SUBSET Procedures /\ req[s].seen \in RolesRead /\ x \in Procedures
    BY <1>1 DEF Calls
  <1>4. S \subseteq Shown BY DEF Shown
  <1>5. T \in RolesRead
    BY <1>3 DEF RolesRead, Inv, PlansTypeOK, Confirmations
  <1>6. req' = [req EXCEPT ![s] = c] BY <1>2 DEF Inv, PlansTypeOK
  <1>7. T \subseteq Shown BY <1>1, <1>4 DEF Keeps
  <1>8. req[s].op = "getCurrentPlan" /\ req[s].at = "confirmations"
    BY DEF ReadConfirmations, Running
  <1> HIDE DEF X, T
  <1>9. c \in Calls BY <1>1, <1>3, <1>5, UpdatedCall
  <1>10. Keeps(c, Inserted, Shown) BY <1>1, <1>7, <1>8 DEF Keeps, Calls
  <1> HIDE DEF c
  <1> QED BY <1>6, <1>9, <1>10, Reads DEF ReadConfirmations

LEMMA FinishesToday == ASSUME Inv, NEW s \in Sessions, FinishToday(s) PROVE Inv'
  <1> DEFINE complete == \A t \in req[s].today : Done(t[1], t[2], req[s].seen)
             c == [req[s] EXCEPT !.at = "tomorrow"]
  <1>1. req[s] \in Calls /\ Keeps(req[s], Inserted, Shown) BY DEF Inv, PlansTypeOK, CallsKept
  <1>2. CASE complete
    <2>1. c \in Calls BY <1>1 DEF Calls
    <2>2. Keeps(c, Inserted, Shown) BY <1>1, <1>2 DEF Keeps, Calls
    <2>3. req' = [req EXCEPT ![s] = c] BY <1>2 DEF FinishToday, GoTo, Inv, PlansTypeOK
    <2> HIDE DEF c
    <2> QED BY <2>1, <2>2, <2>3, Reads DEF FinishToday
  <1>3. CASE ~complete BY <1>3, Ends DEF FinishToday
  <1> QED BY <1>2, <1>3

LEMMA GetsCurrentPlan == ASSUME Inv, NEW s \in Sessions, GetCurrentPlan(s) PROVE Inv'
  <1>1. ASSUME NEW p \in Pilgrims,
               Begin(s, [NoCall EXCEPT !.op = "getCurrentPlan", !.at = "member", !.who = p])
        PROVE  Inv'
    <2> DEFINE c == [NoCall EXCEPT !.op = "getCurrentPlan", !.at = "member", !.who = p]
    <2>1. c \in Calls BY DEF NoCall, Calls, Rules, RulesRead, RolesRead
    <2>2. Keeps(c, Inserted, Shown) BY DEF NoCall, Keeps
    <2> HIDE DEF c
    <2> QED BY <1>1, <2>1, <2>2, Begins DEF c
  <1>2. CASE ShowTomorrow(s) BY <1>2, Ends DEF ShowTomorrow
  <1> QED BY <1>1, <1>2, ReadsMembership, PicksPlan, ReadsToday, ReadsConfirmations,
             FinishesToday DEF GetCurrentPlan

-----------------------------------------------------------------------------
LEMMA InitInv == Init => Inv
  <1> SUFFICES ASSUME Init PROVE Inv OBVIOUS
  <1>1. Inserted = {} BY DEF Init, Inserted
  <1>2. PlansTypeOK BY <1>1, NoCallFine DEF Init, PlansTypeOK
  <1>3. Keeps(NoCall, Inserted, Shown) BY NoCallFine
  <1>4. CallsKept BY <1>3 DEF Init, CallsKept
  <1> QED BY <1>2, <1>4 DEF Init, Inv, ToldIsRecorded

LEMMA StepInv == Inv /\ [Next]_vars => Inv'
  <1> SUFFICES ASSUME Inv, [Next]_vars PROVE Inv' OBVIOUS
  <1>1. CASE UNCHANGED vars
    BY <1>1 DEF vars, planVars, procedureVars, memberVars, Inv, PlansTypeOK, CallsKept,
                ToldIsRecorded, Inserted, Shown
  <1>2. ASSUME NEW s \in Sessions, Serve(s) PROVE Inv'
    BY <1>2, UpdatesPlan, DeletesPlan, CreatesProcedure, UpdatesProcedure, DeletesProcedure,
       ConfirmsProcedure, StaffConfirms, GetsCurrentPlan DEF Serve
  <1> QED BY <1>1, <1>2, MoveMembers, FlagGuides, CreatesPlan DEF Next

\* What the theorems below rest on: the types, what each request keeps from its
\* earlier statements, and that what was told is recorded, hold together.
THEOREM PlansInvariant == Spec => []Inv
  BY InitInv, StepInv, PTL DEF Spec

\* Every table and every request keeps its type (PlansTypeOK).
THEOREM PlansTypeCorrect == Spec => []PlansTypeOK
  <1>1. Inv => PlansTypeOK BY DEF Inv
  <1> QED BY <1>1, PlansInvariant, PTL

\* However confirmations, replays, edits and moves overlap, what the app has
\* been told is confirmed is recorded (confirmProcedure of mobile/plans).
THEOREM ConfirmationsAreRecorded == Spec => []ToldIsRecorded
  <1>1. Inv => ToldIsRecorded BY DEF Inv
  <1> QED BY <1>1, PlansInvariant, PTL

\* getCurrentPlan shows tomorrow only when all it read for today is confirmed,
\* though it reads procedures and confirmations one by one.
THEOREM TomorrowComesAfterToday == Spec => []TomorrowIsEarned
  <1>1. ASSUME Inv PROVE TomorrowIsEarned
    <2> SUFFICES ASSUME NEW s \in Sessions, req[s].at = "tomorrow",
                        NEW t \in req[s].today, NEW role \in Roles, t[2] \in {role, "BOTH"}
                 PROVE  \E c \in confirmed : c[1] = t[1] /\ c[3] = role
      BY DEF TomorrowIsEarned
    <2>1. Keeps(req[s], Inserted, Shown) BY <1>1 DEF Inv, CallsKept
    <2>2. <<t[1], role>> \in Shown BY <2>1 DEF Keeps, Done
    <2> QED BY <2>2 DEF Shown
  <1> QED BY <1>1, PlansInvariant, PTL

-----------------------------------------------------------------------------
(* The order of a day *)

Waits(s) == Running(s, "createProcedure", "insert")

\* The requests that have counted k procedures on a day and not inserted theirs.
Counted(pl, d, k) ==
  {s \in Sessions : Waits(s) /\ req[s].plan = pl /\ req[s].day = d /\ req[s].place = k}

\* PlacesInOrder of one day, with the places that are still to be written.
DayInOrder(pl, d) == OnDay(pl, d) \subseteq procedures =>
  /\ \A x \in OnDay(pl, d) : row[x].place < Cardinality(OnDay(pl, d))
  /\ \A k \in Nat : /\ Counted(pl, d, k) # {} => k <= Cardinality(OnDay(pl, d))
                    /\ Cardinality(Shared(pl, d, k)) + Cardinality(Counted(pl, d, k))
                         <= Cardinality(Sessions)

DaysInOrder == \A pl \in Plans, d \in Days : DayInOrder(pl, d)

\* No procedure gets another day or place, none comes back, and no request gets a place.
Untouched ==
  /\ \A x \in Procedures : /\ row'[x] = NoRow <=> row[x] = NoRow
                           /\ row'[x].plan = row[x].plan
                           /\ row'[x].day = row[x].day
                           /\ row'[x].place = row[x].place
  /\ procedures' \subseteq procedures
  /\ \A s \in Sessions : Waits(s)' => req'[s] = req[s]

LEMMA Answered ==
  ASSUME Inv, NEW s \in Sessions, Reply(s)
  PROVE  \A t \in Sessions : Waits(t)' => req'[t] = req[t]
  BY DEF Inv, PlansTypeOK, Reply, Waits, Running, NoCall

LEMMA Begun ==
  ASSUME Inv, NEW s \in Sessions, NEW c, Begin(s, c), c.at # "insert"
  PROVE  Untouched
  BY DEF Inv, PlansTypeOK, Begin, Untouched, Waits, Running, procedureVars

LEMMA Checked ==
  ASSUME Inv, NEW s \in Sessions, NEW op, NEW at, NEW test, NEW next, op # "createProcedure",
         Check(s, op, at, test, next)
  PROVE  Untouched
  <1>1. UNCHANGED procedureVars BY DEF Check
  <1>2. \A t \in Sessions : Waits(t)' => req'[t] = req[t]
    <2>1. CASE Reply(s) BY <2>1, Answered
    <2>2. CASE GoTo(s, next)
      <3>1. req'[s].op # "createProcedure" /\ \A t \in Sessions \ {s} : req'[t] = req[t]
        BY <2>2 DEF Check, GoTo, Running, Inv, PlansTypeOK, Calls
      <3> QED BY <3>1 DEF Waits, Running
    <2> QED BY <2>1, <2>2 DEF Check
  <1> QED BY <1>1, <1>2 DEF Untouched, procedureVars

LEMMA ProcedureRead ==
  ASSUME Inv, NEW s \in Sessions, NEW op, NEW next, op # "createProcedure",
         ReadProcedure(s, op, next)
  PROVE  Untouched
  <1>1. UNCHANGED procedureVars BY DEF ReadProcedure
  <1>2. \A t \in Sessions : Waits(t)' => req'[t] = req[t]
    <2>1. CASE Reply(s) BY <2>1, Answered
    <2>2. CASE req' = [req EXCEPT ![s].at = next, ![s].rule = Rule(req[s].procedure)]
      <3>1. req'[s].op # "createProcedure" /\ \A t \in Sessions \ {s} : req'[t] = req[t]
        BY <2>2 DEF ReadProcedure, Running, Inv, PlansTypeOK, Calls
      <3> QED BY <3>1 DEF Waits, Running
    <2> QED BY <2>1, <2>2 DEF ReadProcedure
  <1> QED BY <1>1, <1>2 DEF Untouched, procedureVars

LEMMA MembershipRead ==
  ASSUME Inv, NEW s \in Sessions, NEW op, NEW next, op # "createProcedure",
         ReadMembership(s, op, next)
  PROVE  Untouched
  <1>1. req'[s].op # "createProcedure" /\ \A t \in Sessions \ {s} : req'[t] = req[t]
    BY DEF ReadMembership, Running, Inv, PlansTypeOK, Calls
  <1> QED BY <1>1 DEF ReadMembership, Untouched, procedureVars, Waits, Running

LEMMA ShowingStays ==
  ASSUME Inv, NEW s \in Sessions, GetCurrentPlan(s)
  PROVE  Untouched
  <1>1. CASE PickPlan(s)
    <2>1. \A t \in Sessions : Waits(t)' => req'[t] = req[t]
      <3>1. CASE Reply(s) BY <3>1, Answered
      <3>2. CASE ~Reply(s)
        <4>1. req'[s].op # "createProcedure" /\ \A t \in Sessions \ {s} : req'[t] = req[t]
          BY <1>1, <3>2 DEF PickPlan, Running, Inv, PlansTypeOK, Calls
        <4> QED BY <4>1 DEF Waits, Running
      <3> QED BY <3>1, <3>2
    <2> QED BY <1>1, <2>1 DEF PickPlan, Untouched, procedureVars
  <1>2. CASE ReadToday(s) \/ ReadConfirmations(s)
    <2>1. req'[s].op # "createProcedure" /\ \A t \in Sessions \ {s} : req'[t] = req[t]
      <3>1. req \in [Sessions -> Calls] /\ req[s].op = "getCurrentPlan"
        BY <1>2 DEF ReadToday, ReadConfirmations, Running, Inv, PlansTypeOK
      <3>2. CASE ReadToday(s)
        <4>1. PICK a, b : req' = [req EXCEPT ![s].at = "confirmations", ![s].left = a,
                                             ![s].today = b]
          BY <3>2 DEF ReadToday
        <4> QED BY ONLY s \in Sessions, <3>1, <4>1 DEF Calls
      <3>3. CASE ReadConfirmations(s)
        <4>1. PICK a, b : req' = [req EXCEPT ![s].left = a, ![s].seen = b]
          BY <3>3 DEF ReadConfirmations
        <4> QED BY ONLY s \in Sessions, <3>1, <4>1 DEF Calls
      <3> QED BY <1>2, <3>2, <3>3
    <2> QED BY <1>2, <2>1 DEF ReadToday, ReadConfirmations, Untouched, procedureVars, Waits,
                              Running
  <1>3. CASE FinishToday(s)
    <2>1. \A t \in Sessions : Waits(t)' => req'[t] = req[t]
      <3>1. CASE Reply(s) BY <3>1, Answered
      <3>2. CASE GoTo(s, "tomorrow")
        <4>1. req'[s].op # "createProcedure" /\ \A t \in Sessions \ {s} : req'[t] = req[t]
          BY <1>3, <3>2 DEF FinishToday, GoTo, Running, Inv, PlansTypeOK, Calls
        <4> QED BY <4>1 DEF Waits, Running
      <3> QED BY <1>3, <3>1, <3>2 DEF FinishToday
    <2> QED BY <1>3, <2>1 DEF FinishToday, Untouched, procedureVars
  <1>4. CASE ShowTomorrow(s)
    BY <1>4, Answered DEF ShowTomorrow, Untouched, procedureVars
  <1>5. ASSUME NEW p \in Pilgrims,
               Begin(s, [NoCall EXCEPT !.op = "getCurrentPlan", !.at = "member", !.who = p])
        PROVE  Untouched
    BY <1>5, Begun DEF NoCall
  <1> QED BY <1>1, <1>2, <1>3, <1>4, <1>5, MembershipRead DEF GetCurrentPlan

LEMMA ConfirmingStays ==
  ASSUME Inv, NEW s \in Sessions, Confirm(s) \/ ConfirmAsStaff(s)
  PROVE  Untouched
  <1>1. CASE FindConfirmation(s)
    <2>1. \A t \in Sessions : Waits(t)' => req'[t] = req[t]
      <3>1. CASE Reply(s) BY <3>1, Answered
      <3>2. CASE GoTo(s, "insert")
        <4>1. req'[s].op # "createProcedure" /\ \A t \in Sessions \ {s} : req'[t] = req[t]
          BY <1>1, <3>2 DEF FindConfirmation, GoTo, Running, Inv, PlansTypeOK, Calls
        <4> QED BY <4>1 DEF Waits, Running
      <3> QED BY <1>1, <3>1, <3>2 DEF FindConfirmation, Succeed
    <2> QED BY <1>1, <2>1 DEF FindConfirmation, Untouched, procedureVars
  <1>2. CASE InsertConfirmation(s) \/ InsertStaffConfirmation(s)
    BY <1>2, Answered DEF InsertConfirmation, InsertStaffConfirmation, Succeed, Untouched,
                          procedureVars
  <1>3. ASSUME NEW c, Begin(s, c), c.at \in {"member", "procedure"} PROVE Untouched
    BY <1>3, Begun
  <1>4. CASE Confirm(s)
    <2>1. ASSUME NEW p \in Pilgrims, NEW x \in Inserted, NEW role,
                 Begin(s, [NoCall EXCEPT !.op = "confirm", !.at = "member", !.who = p,
                                         !.procedure = x, !.role = role])
          PROVE  Untouched
      BY <2>1, Begun DEF NoCall
    <2> QED BY <1>1, <1>2, <1>4, <2>1, MembershipRead, ProcedureRead, Checked DEF Confirm
  <1>5. CASE ConfirmAsStaff(s)
    <2>1. ASSUME NEW u \in Staff, NEW x \in Inserted, NEW role \in Roles,
                 Begin(s, [NoCall EXCEPT !.op = "confirmAsStaff", !.at = "procedure", !.who = u,
                                         !.procedure = x, !.role = role])
          PROVE  Untouched
      BY <2>1, Begun DEF NoCall
    <2> QED BY <1>2, <1>5, <2>1, ProcedureRead, Checked DEF ConfirmAsStaff
  <1> QED BY <1>4, <1>5

LEMMA EditingStays ==
  ASSUME Inv, NEW s \in Sessions,
         UpdatePlan(s) \/ DeletePlan(s) \/ UpdateProcedure(s) \/ DeleteProcedure(s)
  PROVE  Untouched
  <1>1. CASE WritePlan(s) \/ DropPlan(s) \/ DropProcedure(s)
    BY <1>1, Answered DEF WritePlan, DropPlan, DropProcedure, Untouched, procedureVars
  <1>2. CASE WriteProcedure(s)
    <2>1. PICK x : x = req[s].procedure OBVIOUS
    <2>2. x \in Inserted BY <1>2, <2>1 DEF Inv, CallsKept, Keeps, WriteProcedure, Running
    <2>3. PICK asks, by : row' = [row EXCEPT ![x].asks = asks, ![x].by = by]
      BY <1>2, <2>1 DEF WriteProcedure
    <2>4. /\ row'[x].plan = row[x].plan /\ row'[x].day = row[x].day
          /\ row'[x].place = row[x].place
          /\ \A y \in Procedures \ {x} : row'[y] = row[y]
      BY <2>2, <2>3 DEF Inserted, Inv, PlansTypeOK, ProcedureRows
    <2>5. row[x].day # 0
      BY <2>2 DEF Inserted, Inv, PlansTypeOK, ProcedureRows, Days
    <2>6. row[x] # NoRow /\ row'[x] # NoRow BY <2>2, <2>4, <2>5 DEF NoRow, Inserted
    <2>7. procedures' = procedures /\ \A t \in Sessions : Waits(t)' => req'[t] = req[t]
      BY <1>2, Answered DEF WriteProcedure
    <2> QED BY <2>4, <2>6, <2>7 DEF Untouched
  <1>3. ASSUME NEW c, Begin(s, c), c.at \in {"update", "delete", "procedure"} PROVE Untouched
    BY <1>3, Begun
  <1>4. CASE UpdatePlan(s) \/ DeletePlan(s)
    BY <1>1, <1>3, <1>4 DEF UpdatePlan, DeletePlan, NoCall
  <1>5. CASE UpdateProcedure(s)
    BY <1>2, <1>3, <1>5, ProcedureRead, Checked DEF UpdateProcedure, NoCall
  <1>6. CASE DeleteProcedure(s)
    BY <1>1, <1>3, <1>6, ProcedureRead, Checked DEF DeleteProcedure, NoCall
  <1> QED BY <1>4, <1>5, <1>6

\* Only createProcedure's two statements are about places.
LEMMA PlaceSteps ==
  ASSUME Inv, [Next]_vars
  PROVE  Untouched \/ \E s \in Sessions : CountProcedures(s) \/ InsertProcedure(s)
  <1>1. CASE UNCHANGED <<procedureVars, req>>
    BY <1>1 DEF Untouched, procedureVars
  <1>2. ASSUME NEW s \in Sessions, CreateProcedure(s)
        PROVE  Untouched \/ CountProcedures(s) \/ InsertProcedure(s)
    <2>1. ASSUME NEW pl \in plans, NEW d \in 1 .. totalDays[pl],
                 Begin(s, [NoCall EXCEPT !.op = "createProcedure", !.at = "count",
                                         !.plan = pl, !.day = d])
          PROVE  Untouched
      BY <2>1, Begun DEF NoCall
    <2> QED BY <1>2, <2>1 DEF CreateProcedure
  <1> QED BY <1>1, <1>2, ShowingStays, ConfirmingStays, EditingStays
          DEF Next, Serve, MoveMember, FlagGuide, CreatePlan, vars, procedureVars

-----------------------------------------------------------------------------
(* Counting the day *)

LEMMA FiniteDay ==
  ASSUME NEW pl, NEW d
  PROVE  /\ IsFiniteSet(OnDay(pl, d)) /\ Cardinality(OnDay(pl, d)) \in Nat
         /\ \A k : /\ IsFiniteSet(Shared(pl, d, k)) /\ Cardinality(Shared(pl, d, k)) \in Nat
                   /\ IsFiniteSet(Counted(pl, d, k)) /\ Cardinality(Counted(pl, d, k)) \in Nat
  <1>1. IsFiniteSet(OnDay(pl, d))
    BY PlansAssumption, FS_Subset DEF OnDay, Inserted
  <1>2. ASSUME NEW k PROVE IsFiniteSet(Shared(pl, d, k)) /\ IsFiniteSet(Counted(pl, d, k))
    <2>1. Shared(pl, d, k) \subseteq OnDay(pl, d) BY DEF Shared
    <2>2. Counted(pl, d, k) \subseteq Sessions BY DEF Counted
    <2> QED BY <1>1, <2>1, <2>2, PlansAssumption, FS_Subset
  <1> QED BY <1>1, <1>2, FS_CardinalityType

LEMMA FewSessions ==
  /\ IsFiniteSet(Sessions) /\ Cardinality(Sessions) \in Nat
  /\ \A S \in SUBSET Sessions : Cardinality(S) \in Nat /\ Cardinality(S) <= Cardinality(Sessions)
  <1>1. IsFiniteSet(Sessions) BY PlansAssumption
  <1>2. \A S \in SUBSET Sessions : IsFiniteSet(S) /\ Cardinality(S) <= Cardinality(Sessions)
    BY <1>1, FS_Subset
  <1> QED BY <1>1, <1>2, FS_CardinalityType

LEMMA UntouchedDay ==
  ASSUME Inv, Untouched, NEW pl \in Plans, NEW d \in Days, DayInOrder(pl, d)
  PROVE  DayInOrder(pl, d)'
  <1>1. OnDay(pl, d)' = OnDay(pl, d) BY DEF Untouched, OnDay, Inserted
  <1>2. \A k \in Nat : Shared(pl, d, k)' = Shared(pl, d, k)
    BY <1>1 DEF Untouched, Shared, OnDay, Inserted
  <1>3. \A k \in Nat : Counted(pl, d, k)' \subseteq Counted(pl, d, k)
    BY DEF Untouched, Counted, Waits, Running
  <1> SUFFICES ASSUME OnDay(pl, d)' \subseteq procedures'
               PROVE  /\ \A x \in OnDay(pl, d) : row'[x].place < Cardinality(OnDay(pl, d))
                      /\ \A k \in Nat :
                           /\ Counted(pl, d, k)' # {} => k <= Cardinality(OnDay(pl, d))
                           /\ Cardinality(Shared(pl, d, k)) + Cardinality(Counted(pl, d, k)')
                                <= Cardinality(Sessions)
    BY <1>1, <1>2 DEF DayInOrder
  <1>4. OnDay(pl, d) \subseteq procedures BY <1>1 DEF Untouched
  <1>5. \A x \in OnDay(pl, d) : row'[x].place = row[x].place BY DEF Untouched, OnDay, Inserted
  <1>6. ASSUME NEW k \in Nat
        PROVE  /\ Counted(pl, d, k)' # {} => k <= Cardinality(OnDay(pl, d))
               /\ Cardinality(Shared(pl, d, k)) + Cardinality(Counted(pl, d, k)')
                    <= Cardinality(Sessions)
    <2>1. Cardinality(Counted(pl, d, k)') <= Cardinality(Counted(pl, d, k))
      BY <1>3, FiniteDay, FS_Subset
    <2>2. Cardinality(Counted(pl, d, k)') \in Nat
      BY <1>3, FiniteDay, FS_Subset, FS_CardinalityType
    <2>3. Cardinality(Shared(pl, d, k)) + Cardinality(Counted(pl, d, k)) <= Cardinality(Sessions)
      BY <1>4 DEF DayInOrder
    <2>4. Counted(pl, d, k)' # {} => k <= Cardinality(OnDay(pl, d))
      BY <1>3, <1>4 DEF DayInOrder
    <2> QED BY <2>1, <2>2, <2>3, <2>4, FiniteDay, FewSessions
  <1> QED BY <1>4, <1>5, <1>6 DEF DayInOrder

\* A request that has counted gets the next place of the day, which nobody has.
LEMMA CountedDay ==
  ASSUME Inv, NEW s \in Sessions, CountProcedures(s), NEW pl \in Plans, NEW d \in Days,
         DayInOrder(pl, d)
  PROVE  DayInOrder(pl, d)'
  <1>1. /\ UNCHANGED procedureVars
        /\ req'[s] = [req[s] EXCEPT !.at = "insert", !.place = CountOnDay(req[s].plan, req[s].day)]
        /\ \A t \in Sessions \ {s} : req'[t] = req[t]
        /\ req[s].op = "createProcedure" /\ req[s].at = "count"
    BY DEF CountProcedures, Running, Inv, PlansTypeOK
  <1>2. /\ OnDay(pl, d)' = OnDay(pl, d) /\ procedures' = procedures /\ row' = row
        /\ \A k : Shared(pl, d, k)' = Shared(pl, d, k)
    BY <1>1 DEF procedureVars, OnDay, Inserted, Shared
  <1> SUFFICES ASSUME OnDay(pl, d) \subseteq procedures, NEW k \in Nat
               PROVE  /\ Counted(pl, d, k)' # {} => k <= Cardinality(OnDay(pl, d))
                      /\ Cardinality(Shared(pl, d, k)) + Cardinality(Counted(pl, d, k)')
                           <= Cardinality(Sessions)
    BY <1>2 DEF DayInOrder
  <1>3. Counted(pl, d, k)' \subseteq Sessions BY DEF Counted
  <1>4. CASE req[s].plan = pl /\ req[s].day = d /\ k = Cardinality(OnDay(pl, d))
    <2>1. Shared(pl, d, k) = {}
      <3>1. \A x \in OnDay(pl, d) : row[x].place < Cardinality(OnDay(pl, d)) BY DEF DayInOrder
      <3>2. \A x \in OnDay(pl, d) : row[x].place # k
        BY <1>4, <3>1, FiniteDay
      <3> QED BY <3>2 DEF Shared
    <2>2. Cardinality(Shared(pl, d, k)) = 0 BY <2>1, FS_EmptySet
    <2>3. /\ Cardinality(Counted(pl, d, k)') \in Nat
          /\ Cardinality(Counted(pl, d, k)') <= Cardinality(Sessions)
      BY <1>3, FewSessions
    <2> QED BY <1>4, <2>2, <2>3, FewSessions
  <1>5. CASE ~(req[s].plan = pl /\ req[s].day = d /\ k = Cardinality(OnDay(pl, d)))
    <2>1. CountOnDay(pl, d) = Cardinality(OnDay(pl, d))
      <3>1. procedures \cap OnDay(pl, d) = OnDay(pl, d) OBVIOUS
      <3> QED BY <3>1 DEF CountOnDay
    <2>2. /\ req'[s].plan = req[s].plan /\ req'[s].day = req[s].day
          /\ req'[s].place = CountOnDay(req[s].plan, req[s].day)
      BY <1>1 DEF Inv, PlansTypeOK, Calls
    <2>3. s \notin Counted(pl, d, k)' BY <1>5, <2>1, <2>2 DEF Counted
    <2>4. Counted(pl, d, k)' \subseteq Counted(pl, d, k)
      BY <1>1, <2>3 DEF Counted, Waits, Running
    <2>5. /\ Cardinality(Counted(pl, d, k)') <= Cardinality(Counted(pl, d, k))
          /\ IsFiniteSet(Counted(pl, d, k)')
      BY <2>4, FiniteDay, FS_Subset
    <2>6. Cardinality(Counted(pl, d, k)') \in Nat BY <2>5, FS_CardinalityType
    <2>7. /\ Counted(pl, d, k) # {} => k <= Cardinality(OnDay(pl, d))
          /\ Cardinality(Shared(pl, d, k)) + Cardinality(Counted(pl, d, k)) <= Cardinality(Sessions)
      BY DEF DayInOrder
    <2> QED BY <2>4, <2>5, <2>6, <2>7, FiniteDay, FewSessions
  <1> QED BY <1>4, <1>5

\* An insert makes of a counted place a place of the day, which grows by one.
LEMMA InsertedDay ==
  ASSUME Inv, NEW s \in Sessions, InsertProcedure(s), NEW pl \in Plans, NEW d \in Days,
         DayInOrder(pl, d)
  PROVE  DayInOrder(pl, d)'
  <1>1. PICK x \in Procedures \ Inserted :
          /\ \E asks, by :
               row' = [row EXCEPT ![x] = [plan |-> req[s].plan, day |-> req[s].day,
                                          place |-> req[s].place, asks |-> asks, by |-> by]]
          /\ procedures' = procedures \cup {x}
    BY DEF InsertProcedure
  <1>2. /\ req[s].plan \in Plans /\ req[s].day \in Days /\ req[s].place \in Nat
        /\ Waits(s)
    BY DEF Inv, PlansTypeOK, CallsKept, Keeps, InsertProcedure, Running, Waits, Calls
  <1>3. /\ row'[x].plan = req[s].plan /\ row'[x].day = req[s].day
        /\ row'[x].place = req[s].place /\ row'[x] # NoRow
        /\ \A y \in Procedures \ {x} : row'[y] = row[y]
    BY <1>1, <1>2 DEF Inv, PlansTypeOK, NoRow, Days
  <1>4. Inserted' = Inserted \cup {x}
    BY <1>1, <1>3 DEF Inserted
  <1>5. \A t \in Sessions : req'[t] = IF t = s THEN NoCall ELSE req[t]
    BY DEF InsertProcedure, Reply, Inv, PlansTypeOK
  <1>6. \A k \in Nat : Counted(pl, d, k)' = Counted(pl, d, k) \ {s}
    BY <1>5 DEF Counted, Waits, Running, NoCall
  <1>7. CASE req[s].plan = pl /\ req[s].day = d
    <2>1. OnDay(pl, d)' = OnDay(pl, d) \cup {x} /\ x \notin OnDay(pl, d)
      BY <1>1, <1>3, <1>4, <1>7 DEF OnDay, Inserted
    <2>2. \A k \in Nat : Shared(pl, d, k)' = IF k = req[s].place THEN Shared(pl, d, k) \cup {x}
                                             ELSE Shared(pl, d, k)
      BY <1>1, <1>3, <2>1 DEF Shared, OnDay, Inserted
    <2>3. Cardinality(OnDay(pl, d)') = Cardinality(OnDay(pl, d)) + 1
      BY <2>1, FiniteDay, FS_AddElement
    <2> SUFFICES ASSUME OnDay(pl, d)' \subseteq procedures'
                 PROVE  /\ \A y \in OnDay(pl, d)' : row'[y].place < Cardinality(OnDay(pl, d)')
                        /\ \A k \in Nat :
                             /\ Counted(pl, d, k)' # {} => k <= Cardinality(OnDay(pl, d)')
                             /\ Cardinality(Shared(pl, d, k)') + Cardinality(Counted(pl, d, k)')
                                  <= Cardinality(Sessions)
      BY DEF DayInOrder
    <2>4. OnDay(pl, d) \subseteq procedures BY <1>1, <2>1 DEF Inserted
    <2>5. /\ \A y \in OnDay(pl, d) : row[y].place < Cardinality(OnDay(pl, d))
          /\ \A k \in Nat :
               /\ Counted(pl, d, k) # {} => k <= Cardinality(OnDay(pl, d))
               /\ Cardinality(Shared(pl, d, k)) + Cardinality(Counted(pl, d, k))
                    <= Cardinality(Sessions)
      BY <2>4 DEF DayInOrder
    <2>6. s \in Counted(pl, d, req[s].place) BY <1>2, <1>7 DEF Counted
    <2>7. req[s].place <= Cardinality(OnDay(pl, d)) BY <1>2, <2>5, <2>6
    <2>8. ASSUME NEW y \in OnDay(pl, d)' PROVE row'[y].place < Cardinality(OnDay(pl, d)')
      <3>1. CASE y = x BY <1>2, <1>3, <2>3, <2>7, <3>1, FiniteDay
      <3>2. CASE y # x
        <4>1. y \in OnDay(pl, d) /\ row'[y] = row[y] BY <1>3, <2>1, <3>2 DEF OnDay, Inserted
        <4>2. row[y].place \in Nat
          BY <4>1 DEF OnDay, Inserted, Inv, PlansTypeOK, ProcedureRows
        <4> QED BY <2>3, <2>5, <4>1, <4>2, FiniteDay
      <3> QED BY <3>1, <3>2
    <2>9. ASSUME NEW k \in Nat
          PROVE  /\ Counted(pl, d, k)' # {} => k <= Cardinality(OnDay(pl, d)')
                 /\ Cardinality(Shared(pl, d, k)') + Cardinality(Counted(pl, d, k)')
                      <= Cardinality(Sessions)
      <3>1. Counted(pl, d, k)' # {} => k <= Cardinality(OnDay(pl, d)')
        BY <1>6, <2>3, <2>5, FiniteDay
      <3>2. CASE k = req[s].place
        <4>1. x \notin Shared(pl, d, k) BY <2>1 DEF Shared
        <4>2. Cardinality(Shared(pl, d, k) \cup {x}) = Cardinality(Shared(pl, d, k)) + 1
          BY <4>1, FiniteDay, FS_AddElement
        <4>3. Shared(pl, d, k)' = Shared(pl, d, k) \cup {x} BY <2>2, <3>2
        <4>4. Cardinality(Counted(pl, d, k) \ {s}) = Cardinality(Counted(pl, d, k)) - 1
          BY <2>6, <3>2, FiniteDay, FS_RemoveElement
        <4>5. Counted(pl, d, k)' = Counted(pl, d, k) \ {s} BY <1>6
        <4> QED BY <2>5, <3>1, <4>2, <4>3, <4>4, <4>5, FiniteDay, FewSessions
      <3>3. CASE k # req[s].place
        <4>1. Shared(pl, d, k)' = Shared(pl, d, k) /\ Counted(pl, d, k)' = Counted(pl, d, k)
          BY <1>6, <2>2, <3>3 DEF Counted
        <4> QED BY <2>5, <3>1, <4>1
      <3> QED BY <3>1, <3>2, <3>3
    <2> QED BY <2>8, <2>9
  <1>8. CASE ~(req[s].plan = pl /\ req[s].day = d)
    <2>1. OnDay(pl, d)' = OnDay(pl, d)
      BY <1>1, <1>3, <1>4, <1>8 DEF OnDay, Inserted
    <2>2. \A y \in OnDay(pl, d) : row'[y] = row[y]
      BY <1>1, <1>3 DEF OnDay, Inserted
    <2>3. \A k \in Nat : Shared(pl, d, k)' = Shared(pl, d, k)
      BY <2>1, <2>2 DEF Shared
    <2>4. \A k \in Nat : Counted(pl, d, k)' = Counted(pl, d, k)
      BY <1>6, <1>8 DEF Counted
    <2>5. OnDay(pl, d)' \subseteq procedures' => OnDay(pl, d) \subseteq procedures
      BY <1>1, <2>1 DEF OnDay, Inserted
    <2> QED BY <2>1, <2>2, <2>3, <2>4, <2>5 DEF DayInOrder
  <1> QED BY <1>7, <1>8

LEMMA OrderInit == Init => DaysInOrder
  <1> SUFFICES ASSUME Init, NEW pl \in Plans, NEW d \in Days PROVE DayInOrder(pl, d)
    BY DEF DaysInOrder
  <1>1. OnDay(pl, d) = {} BY DEF Init, OnDay, Inserted
  <1>2. \A k \in Nat : Shared(pl, d, k) = {} BY <1>1 DEF Shared
  <1>3. \A k \in Nat : Counted(pl, d, k) = {} BY DEF Init, Counted, Waits, Running, NoCall
  <1> QED BY <1>1, <1>2, <1>3, FS_EmptySet, FewSessions DEF DayInOrder

LEMMA OrderStep == Inv /\ DaysInOrder /\ [Next]_vars => DaysInOrder'
  <1> SUFFICES ASSUME Inv, DaysInOrder, [Next]_vars, NEW pl \in Plans, NEW d \in Days
               PROVE  DayInOrder(pl, d)'
    BY DEF DaysInOrder
  <1>1. DayInOrder(pl, d) BY DEF DaysInOrder
  <1> QED BY <1>1, PlaceSteps, UntouchedDay, CountedDay, InsertedDay

\* However requests to create procedures overlap, a day from which nothing was deleted has its
\* places below its number of procedures, and no more than as many share one as are served at once.
THEOREM DaysAreInOrder == Spec => []PlacesInOrder
  <1>1. Inv /\ DaysInOrder => PlacesInOrder
    <2> SUFFICES ASSUME Inv, DaysInOrder, NEW pl \in Plans, NEW d \in Days,
                        OnDay(pl, d) \subseteq procedures, NEW x \in OnDay(pl, d)
                 PROVE  /\ row[x].place < Cardinality(OnDay(pl, d))
                        /\ Cardinality(Shared(pl, d, row[x].place)) <= Cardinality(Sessions)
      BY DEF PlacesInOrder
    <2>1. DayInOrder(pl, d) BY DEF DaysInOrder
    <2>2. row[x].place \in Nat BY DEF OnDay, Inserted, Inv, PlansTypeOK, ProcedureRows
    <2>3. PICK k \in Nat : k = row[x].place BY <2>2
    <2>4. Cardinality(Shared(pl, d, k)) + Cardinality(Counted(pl, d, k)) <= Cardinality(Sessions)
      BY <2>1 DEF DayInOrder
    <2>5. Cardinality(Shared(pl, d, k)) <= Cardinality(Sessions)
      BY <2>4, FiniteDay, FewSessions
    <2> QED BY <2>1, <2>3, <2>5 DEF DayInOrder
  <1> QED BY <1>1, OrderInit, OrderStep, PlansInvariant, PTL DEF Spec

=============================================================================
