------------------------------ MODULE DataStore ------------------------------
(***************************************************************************)
(* The row operations of the data store that the controllers call          *)
(* (packages/core/src/lib/datastore/db-impl.ts): for each conditional       *)
(* update of a scheduled-job row, the condition and the row it writes.      *)
(*                                                                         *)
(* A date is a number of seconds relative to the current time: 0 is now, a  *)
(* negative date is past.  Advancing the clock lowers every stored date, so *)
(* runs of any length have finitely many states.  Dates older than Past are *)
(* kept at Past: they are earlier than every date a live handler holds.     *)
(***************************************************************************)
EXTENDS Integers, TernModel

CONSTANTS
  StoreKind,      \* "sql" (datastore-sql) or "memory" (datastore/memory.ts)
  LeaseTime,      \* leaseTimeSeconds
  MaxAge          \* bound: a handler lives at most this many seconds

ASSUME StoreAssumption ==
  /\ StoreKind \in {"sql", "memory"}
  /\ LeaseTime \in Nat
  /\ MaxAge \in Nat

Past == -(MaxAge + 1)

Elapsed(date, floor) ==
  IF date = None THEN None ELSE IF date > floor THEN date - 1 ELSE floor

------------------------------------------------------------------------------
(* Conditionals *)

\* BeforeDateConditional.  SQL compares column < value; the memory store
\* compares value < column.
MutBeforeOrOn(date, when) == date # None /\ date <= when
Before(date, when) ==
  /\ date # None
  /\ IF StoreKind = "sql" THEN date < when ELSE when < date

\* updateDate(now, leaseTimeSeconds)
MutExpiryIsNow(now) == now
LeaseExpiry(now) == now + LeaseTime

------------------------------------------------------------------------------
(* Scheduled-job rows.  creation = None says that the row does not exist.  *)

NoSchedule ==
  [ creation |-> None, skip |-> FALSE, updateState |-> None, updateTaskPk |-> None,
    leaseOwner |-> None, leaseExpires |-> None, repairState |-> None, pasture |-> FALSE ]

\* addScheduledJobModel of the model that createScheduledJobAlone builds.
NewSchedule(creation, skip, task, leaseId, now) ==
  [ creation |-> creation, skip |-> skip,
    updateState |-> SCHEDULE_STATE_ADD_TASK, updateTaskPk |-> task,
    leaseOwner |-> leaseId, leaseExpires |-> LeaseExpiry(now),
    repairState |-> None, pasture |-> FALSE ]

\* leaseScheduledJob: no look at the expiry, the owner or the pasture flag.
MutCanLeaseActive(row) == row.updateState = None /\ ~row.pasture
CanLease(row) == row.updateState = None

Lease(row, operation, task, leaseId, now) ==
  [ row EXCEPT !.updateState = operation, !.updateTaskPk = task,
               !.leaseOwner = leaseId, !.leaseExpires = LeaseExpiry(now) ]

\* The condition of releaseScheduledJobLease and markLeasedScheduledJobNeedsRepair.
OwnsLease(row, leaseId) == row.updateState # None /\ row.leaseOwner = leaseId

\* The controllers always pass a boolean, so the pasture flag is always written.
Release(row, pasture) ==
  [ row EXCEPT !.updateState = None, !.updateTaskPk = None, !.leaseOwner = None,
               !.leaseExpires = None, !.repairState = None, !.pasture = pasture ]

NeedsRepair(row, now, pasture) ==
  [ row EXCEPT !.leaseExpires = now, !.pasture = pasture ]

\* repairExpiredLeaseForScheduledJob: the state to resume is computed from a row
\* that was read before the conditional update.
RepairSource(row) == IF row.repairState # None THEN row.repairState ELSE row.updateState

MutCanStealAny(row, now) == row.updateState # None
MutCanStealOnce(row, now) ==
  row.updateState \notin {None, SCHEDULE_STATE_REPAIR} /\ Before(row.leaseExpires, now)
CanSteal(row, now) == row.updateState # None /\ Before(row.leaseExpires, now)

Steal(row, source, leaseId, now) ==
  [ row EXCEPT !.updateState = SCHEDULE_STATE_REPAIR, !.leaseOwner = leaseId,
               !.leaseExpires = LeaseExpiry(now), !.repairState = source ]

==============================================================================
