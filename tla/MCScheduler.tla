---------------------------- MODULE MCScheduler -----------------------------
(* Three nodes and two ids: two threads can share an id, and one waits      *)
(* while another is preempted.  Timeslices 0 (never set up), 1 and 3.        *)
EXTENDS Scheduler

CONSTANTS n1, n2, n3, a, b

MCNodes == {n1, n2, n3}
MCThreadIds == {a, b}
MCTimeslices == {0, 1, 3}
=============================================================================
