----------------------------- MODULE MCListing -----------------------------
(* The instances of Listing that TLC checks. *)
EXTENDS ListingProps, MatchingProps, TLC

CONSTANTS r1, r2, r3, r4, r5, o1

Unleased == [ updateState |-> None, leaseOwner |-> None, leaseExpires |-> None ]
Leased(date) ==
  [ updateState |-> SCHEDULE_STATE_START_TASK, leaseOwner |-> o1, leaseExpires |-> date ]

Job(pasture, lease) == [ pk |-> None, pasture |-> pasture ] @@ lease
Task(state) == [ pk |-> None, state |-> state ]

Jobs == { Job(FALSE, Unleased), Job(TRUE, Unleased), Job(FALSE, Leased(0)) }
JobsAndTasks ==
  Jobs \cup { Task(s) : s \in { TASK_STATE_STARTED, TASK_STATE_FAILED, TASK_STATE_COMPLETED } }

Table(contents, pks) == [i \in 1..Len(pks) |-> [contents EXCEPT !.pk = pks[i]]]
FourRows ==
  { Table(Job(FALSE, Unleased), << r1, r2, r3, r4 >>), Table(Task(TASK_STATE_FAILED), << r1, r2, r3, r4 >>) }

JobAndTaskLists == { ActiveScheduledJobs, FinishedTasks }
==============================================================================
