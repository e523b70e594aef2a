------------------------------ MODULE TaskFlow ------------------------------
(***************************************************************************)
(* The life of a task as a supervisor and a manager see it: created for a  *)
(* manager, started, perhaps flagged and sent back, ended.  A task that    *)
(* has ended, or has been deleted, changes no more, and a flagged one is   *)
(* resumed only after its creator has let it continue.                     *)
(***************************************************************************)
CONSTANTS Tasks, Users, None

VARIABLES status, creator, assignee, deleted, manages

rows == <<status, creator, assignee, deleted>>

Ended == {"COMPLETED", "CANCELLED", "CANCELLED_ON_PROBLEM"}
Open == {"PENDING", "IN_PROGRESS", "FLAGGED", "CONTINUE"}

Init == /\ status = [t \in Tasks |-> "none"]
        /\ creator = [t \in Tasks |-> None] /\ assignee = [t \in Tasks |-> None]
        /\ deleted = {} /\ manages = {}

Supervise == /\ manages' \in SUBSET (Users \X Users)
             /\ UNCHANGED rows

\* A task is given only to a manager its creator supervises.
Give(t, c, m) == /\ <<c, m>> \in manages
                 /\ status' = [status EXCEPT ![t] = "PENDING"]
                 /\ creator' = [creator EXCEPT ![t] = c]
                 /\ assignee' = [assignee EXCEPT ![t] = m]
                 /\ UNCHANGED <<deleted, manages>>

Create(t, c, m) == status[t] = "none" /\ Give(t, c, m)

Reassign(t, m) == /\ t \notin deleted /\ status[t] \in Open
                  /\ Give(t, creator[t], m)

Move(t, from, to) == /\ t \notin deleted /\ status[t] \in from
                     /\ status' = [status EXCEPT ![t] = to]
                     /\ UNCHANGED <<creator, assignee, deleted, manages>>

Start(t) == Move(t, {"PENDING"}, "IN_PROGRESS")
Flag(t) == Move(t, {"IN_PROGRESS"}, "FLAGGED")
Approve(t) == Move(t, {"FLAGGED"}, "CONTINUE")
Resume(t) == Move(t, {"CONTINUE"}, "IN_PROGRESS")
End(t) == \/ Move(t, Open, "COMPLETED") \/ Move(t, Open, "CANCELLED")
          \/ Move(t, {"FLAGGED"}, "CANCELLED_ON_PROBLEM")

Delete(t) == /\ deleted' = deleted \cup {t}
             /\ UNCHANGED <<status, creator, assignee, manages>>

Next == \/ Supervise
        \/ \E t \in Tasks :
             \/ Start(t) \/ Flag(t) \/ Approve(t) \/ Resume(t) \/ End(t) \/ Delete(t)
             \/ \E m \in Users : Reassign(t, m) \/ \E c \in Users : Create(t, c, m)

Spec == Init /\ [][Next]_<<rows, manages>>

=============================================================================
