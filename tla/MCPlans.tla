------------------------------ MODULE MCPlans ------------------------------
(***************************************************************************)
(* A small instance of Plans.                                              *)
(***************************************************************************)
EXTENDS Plans, TLC

CONSTANTS Editors, Confirmers   \* operations of the two halves of the instance

\* Sessions and procedures are interchangeable.
SymmetricRows == Permutations(Sessions) \cup Permutations(Procedures)

Calling(ops) == \E s \in Sessions : req[s].op \in ops

\* The bound: a behaviour either edits a plan of two days and three procedures
\* that ask nobody, or has one procedure on one day that is confirmed, asked for
\* again, replayed and shown while members move (a day with no procedures is not
\* followed further).
OneHalf ==
  \/ /\ confirmed = {} /\ groupOf = [p \in Pilgrims |-> None] /\ guides = {} /\ dated = {}
     /\ ~Calling(Confirmers)
     /\ \A x \in Inserted : ~row[x].asks
  \/ /\ Cardinality(Inserted) <= 1 /\ \A pl \in Plans : totalDays[pl] <= 1
     /\ \A x \in Inserted : row[x].day = 1
     /\ Inserted \subseteq procedures /\ \A pl \in Plans \ plans : groupOfPlan[pl] = None
     /\ Inserted = {} \/ ~Calling({"createProcedure"})
     /\ ~Calling(Editors)
     /\ \A s \in Sessions : req[s].at \in {"confirmations", "tomorrow"} => req[s].today # {}

=============================================================================
