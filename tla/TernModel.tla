------------------------------ MODULE TernModel ------------------------------
(***************************************************************************)
(* The names of the data model (packages/core/src/lib/model): the update   *)
(* states of a schedule's lease and the states of a task.                  *)
(***************************************************************************)
CONSTANT None               \* null in the code

SCHEDULE_STATE_ADD_TASK   == "add-task"
SCHEDULE_STATE_START_TASK == "start-task"
SCHEDULE_STATE_END_TASK   == "end-task"
SCHEDULE_STATE_PASTURE    == "pasture"
SCHEDULE_STATE_REPAIR     == "repair"

ScheduleUpdateStateType ==
  { SCHEDULE_STATE_ADD_TASK, SCHEDULE_STATE_START_TASK, SCHEDULE_STATE_END_TASK,
    SCHEDULE_STATE_PASTURE, SCHEDULE_STATE_REPAIR }

TASK_STATE_PENDING        == "pending"
TASK_STATE_QUEUED         == "queued"
TASK_STATE_STARTED        == "started"
TASK_STATE_START_ERROR    == "start-error"
TASK_STATE_COMPLETE_ERROR == "complete-error"
TASK_STATE_FAILED         == "failed"
TASK_STATE_COMPLETED      == "completed"

\* A task name that no row uses, or whose row was deleted.
TASK_ABSENT == "absent"

\* The states the code writes.  complete-queued and fail-restarted are declared
\* in model/task.ts and never written.
TaskStateType ==
  { TASK_STATE_PENDING, TASK_STATE_QUEUED, TASK_STATE_STARTED, TASK_STATE_START_ERROR,
    TASK_STATE_COMPLETE_ERROR, TASK_STATE_FAILED, TASK_STATE_COMPLETED }

FinishedTaskStates ==
  { TASK_STATE_COMPLETE_ERROR, TASK_STATE_FAILED, TASK_STATE_START_ERROR,
    TASK_STATE_COMPLETED }

==============================================================================
