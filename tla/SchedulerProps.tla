---------------------------- MODULE SchedulerProps ----------------------------
(***************************************************************************)
(* What the scheduler promises about one scheduled job.                    *)
(***************************************************************************)
EXTENDS Scheduler

\* Where a handler of runUpdateInLease, createScheduledJobAlone or
\* repairExpiredSchedule believes that it holds the lease.
LeasedPcs ==
  { "read", "queue", "dupCheck", "startJob", "markSkipped", "markStarted", "markCompleted",
    "markFailed", "markStartFailed", "finish", "addCheck", "addTask", "release",
    "needsRepair", "repairFind", "repairCheck", "abort" }

Pcs == LeasedPcs \cup { "idle", "addSchedule", "lookup", "lease", "repairRead", "steal" }

Holds(o) == op[o].pc \in LeasedPcs /\ sched.creation # None

Schedules ==
  [ creation     : Creations \cup {None},
    skip         : BOOLEAN,
    updateState  : ScheduleUpdateStateType \cup {None},
    updateTaskPk : Tasks \cup {None},
    leaseOwner   : Ops \cup {None},
    leaseExpires : Int \cup {None},
    repairState  : ScheduleUpdateStateType \cup {None},
    pasture      : BOOLEAN ]

TaskRows ==
  [ state     : TaskStateType \cup {TASK_ABSENT},
    executeAt : Int \cup {None},
    jobId     : BOOLEAN ]

Handlers ==
  [ pc      : Pcs,
    kind    : ScheduleUpdateStateType \cup {None},
    task    : Tasks \cup {None},
    now     : Int,
    attempt : 0..Len(RetryDelays),
    wait    : Int,
    owed    : Int,
    status  : JobReplies \cup {"none"} \cup ScheduleUpdateStateType \cup {None},
    delay   : Nat,
    pasture : BOOLEAN ]

\* Every variable keeps its type: the rows of model/schedule.ts and
\* model/task.ts, the handlers and the job framework.
TypeOK ==
  /\ sched \in Schedules
  /\ tasks \in [Tasks -> TaskRows]
  /\ op \in [Ops -> Handlers]
  /\ job \in [Tasks -> JobReplies \cup {"none"}]
  /\ notices \in [Tasks -> 0..MaxNotices]
  /\ starts \in [Tasks -> Nat]
  /\ crashes \in 0..MaxCrashes
  /\ faults \in Nat

------------------------------------------------------------------------------
(* Safety *)

\* startJob is called at most once for a task, whatever polls, lease take-overs,
\* crashes and lost answers interleave (startTask; README.md "double executions").
StartedOnce == \A t \in Tasks : starts[t] <= 1

\* While a handler that is no older than the lease time works inside its lease,
\* the row names it and the lease has not expired: nobody else is inside
\* (runUpdateInLease, repairExpiredSchedule).  Only a repair in its catch may have
\* lost the lease: the answer to its release was lost, and it releases once more.
LeaseExclusive ==
  \A o \in Ops : Holds(o) =>
    /\ op[o].pc = "abort" \/ OwnsLease(sched, o)
    /\ OwnsLease(sched, o) => sched.leaseExpires >= 0

\* "at most one queued task per scheduled job" (addTaskDuplicateCheck).
AtMostOnePending ==
  \A t, u \in TasksIn(TASK_STATE_PENDING) : t = u

\* Under always-skip the jobs of two tasks of a schedule never run at once
\* (shouldSkipTask with registerAlwaysSkipDuplicateTaskStrategy).
NoOverlap ==
  sched.skip => \A t, u \in Tasks : job[t] = RunningReply /\ job[u] = RunningReply => t = u

\* What a finished task records is what became of its job, and a job still
\* running has a task that is queued or started (startTask, taskFinished).  A failed
\* job is recorded as COMPLETE_ERROR (combined.ts:320), although model/task.ts:31-40
\* keeps that state for an error getting the status, and FAILED for a failed job.
RecordIsTrue ==
  \A t \in Tasks :
    /\ tasks[t].state = TASK_STATE_COMPLETE_ERROR => job[t] = "failed"
    /\ tasks[t].state = TASK_STATE_COMPLETED /\ tasks[t].jobId => job[t] = "completed"
    /\ job[t] = RunningReply => tasks[t].state \in {TASK_STATE_QUEUED, TASK_STATE_STARTED}

\* "A task is not directly locked.  Instead, the owning schedule is locked"
\* (model/task.ts): a step that changes a task's state belongs to a handler
\* that holds the schedule's lease.
TasksChangeUnderLease ==
  [][\A t \in Tasks :
       /\ tasks'[t].state # tasks[t].state
       /\ tasks'[t].state # TASK_ABSENT
       => \E o \in Ops : OwnsLease(sched, o) /\ Holds(o) /\ op'[o] # op[o]]_vars

\* The most calls of the store and the job framework that a handler at p still makes,
\* every retry counted.
CallsLeft(p) ==
  CASE p.pc \in { "needsRepair", "abort" } -> 1
    [] p.pc = "release" -> 2
    [] p.pc \in { "addTask", "repairCheck" } -> 3
    [] p.pc \in { "addCheck", "addSchedule", "repairFind" } -> 4
    [] p.pc \in { "markSkipped", "markCompleted", "markFailed", "markStartFailed",
                  "finish", "steal" } -> 5
    [] p.pc \in { "markStarted", "repairRead" } -> 6
    [] p.pc = "startJob" -> 7
    [] p.pc = "dupCheck" -> 8
    [] p.pc = "queue" -> 9
    [] p.pc = "read" -> 10
    [] p.pc = "lease" -> 11 + Len(RetryDelays) - p.attempt
    [] p.pc = "lookup" -> 12 + Len(RetryDelays)
    [] OTHER -> 0

\* Every handler ends, and after so many calls that their number is known when it
\* begins: whatever the store rejects and whoever overtakes it, each call it makes
\* brings it nearer to its end, the retries of the lease and of a repair's release
\* included (runUpdateInLease, repair.ts:60), nobody else sets it back, and no call
\* leaves it where it was.
HandlersAdvance ==
  [][/\ \A o \in Ops :
          op[o].pc # "idle" =>
            op'[o] \in { op[o], Aged(op[o]) } \/ CallsLeft(op'[o]) < CallsLeft(op[o])
     /\ op' = op => \A o \in Ops : ~Step(o)]_vars

\* The rows and handlers implement the abstract lease.
Attended == \E o \in Ops : OwnsLease(sched, o) /\ Holds(o)

Lock == INSTANCE LeaseLock
          WITH Clients <- Ops, Nobody <- None,
               holder <- sched.leaseOwner, attended <- Attended

LeaseIsLock == Lock!LockSpec

\* The rows of the tasks and their jobs implement the abstract life of a task, for
\* handlers that were overtaken too: no handler takes a task back or past a state
\* (markTaskState), and no notice finishes a task whose job is another one.
Life == INSTANCE TaskLife
          WITH Names <- Tasks, state <- [t \in Tasks |-> tasks[t].state]

TasksKeepTheirLife == Life!LifeSpec

==============================================================================
