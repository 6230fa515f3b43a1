------------------------ MODULE MCScheduledController ------------------------
(* Small instances of ScheduledController for TLC: tasks and locks.           *)
EXTENDS ScheduledController

CONSTANTS branch, sol, t1, t2, t3

\* Two tasks that change the branch, and one that reads it.
MCTasks ==
  << [id |-> t1, mutates |-> TRUE, resources |-> {branch}],
     [id |-> t2, mutates |-> TRUE, resources |-> {branch}],
     [id |-> t3, mutates |-> FALSE, resources |-> {branch}] >>

MCLocks ==
  { [scope |-> "SCOPED", resources |-> {branch}], [scope |-> "GLOBAL", resources |-> {}] }
=============================================================================
