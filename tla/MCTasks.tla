------------------------------ MODULE MCTasks ------------------------------
(***************************************************************************)
(* A small instance of Tasks: one supervisor and two managers.             *)
(***************************************************************************)
EXTENDS Tasks, TLC

CONSTANTS m1, m2

=============================================================================
