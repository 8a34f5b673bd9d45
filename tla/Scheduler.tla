------------------------------ MODULE Scheduler ------------------------------
(***************************************************************************)
(* One scheduled job, its tasks, and the handlers that any number of        *)
(* scheduler instances run against the shared data store                   *)
(* (packages/core/src/lib/controller and wire).                            *)
(*                                                                         *)
(* A handler is one run of createScheduledJob, startTask, taskFinished,     *)
(* disableSchedule or repairExpiredSchedule.  It keeps its place in a       *)
(* slot of Ops; every call of the store or of the job framework is one      *)
(* step, because that is where the code awaits.  A slot is also the lease   *)
(* id of its handler: the code draws a fresh id for each lease, so a slot   *)
(* is reused only when no row carries its id.                              *)
(*                                                                         *)
(* A definition named Mut... is a plausible mistake in the one below it; no *)
(* specification uses it.                                                  *)
(***************************************************************************)
EXTENDS DataStore, FiniteSets, Sequences

CONSTANTS
  Ops,            \* handler slots
  Tasks,          \* task names
  RetryDelays,    \* retrySecondsDelay: one lease retry per element
  Creations,      \* task creation strategies in use, of {"new", "start", "finish"}
  Skips,          \* duplicate strategies in use: TRUE is always-skip, FALSE always-run
  NextActions,    \* what the strategy answers, of {"queue", "disable", "invalid"}
  Retries,        \* what the retry strategy answers: None or a number of seconds
  Period,         \* seconds from a handler's time to the next task's executeAt
  Responses,      \* what startJob answers
  Results,        \* what a finish notice reports
  MaxNotices,     \* copies of a finish notice that are delivered
  MaxCrashes,     \* bound: handlers that die
  MaxFaults,      \* bound: store calls that are rejected or whose answer is lost
  CanDisable,     \* whether the user calls disableScheduledJob
  CanDelete       \* whether the user calls deleteFinishedTask

RunningReply == "running"
JobReplies == { "running", "completed", "failed", "did-not-start", "unknown", "rejected" }
JobResults == { "completed", "failed", "unknown" }

\* The seconds that all lease retries of one handler wait.
RetryTotal ==
  LET sum[n \in 0..Len(RetryDelays)] ==
        IF n = 0 THEN 0 ELSE sum[n - 1] + RetryDelays[n]
  IN sum[Len(RetryDelays)]

ASSUME SchedulerAssumption ==
  /\ None \notin Ops \cup Tasks \cup Int \cup Creations \cup ScheduleUpdateStateType
  /\ RetryDelays \in Seq(Nat)
  /\ RetryTotal \in 0..MaxAge
  /\ Creations \subseteq {"new", "start", "finish"}
  /\ Skips \subseteq BOOLEAN
  /\ NextActions \subseteq {"queue", "disable", "invalid"}
  /\ Retries \subseteq Nat \cup {None}
  /\ Period \in Nat
  /\ Responses \subseteq JobReplies
  /\ Results \subseteq JobResults
  /\ MaxNotices \in Nat
  /\ MaxCrashes \in Nat
  /\ MaxFaults \in Nat
  /\ CanDisable \in BOOLEAN
  /\ CanDelete \in BOOLEAN

VARIABLES
  sched,          \* the row of the scheduled job
  tasks,          \* the task rows
  op,             \* what each slot's handler is doing
  job,            \* external: the job that startJob launched for a task
  notices,        \* external: copies of the finish notice not delivered yet
  starts,         \* history: how often startJob was called for a task
  crashes,        \* handlers that died so far
  faults          \* store calls that failed so far

vars == << sched, tasks, op, job, notices, starts, crashes, faults >>

------------------------------------------------------------------------------
(* Handlers *)

Idle ==
  [ pc |-> "idle", kind |-> None, task |-> None, now |-> 0, attempt |-> 0, wait |-> 0,
    owed |-> 0, status |-> None, delay |-> 0, pasture |-> FALSE ]

\* A handler that will lease the schedule for `kind` of update on task t.
Handler(pc, kind, t, status) ==
  [ Idle EXCEPT !.pc = pc, !.kind = kind, !.task = t, !.status = status,
                !.owed = RetryTotal ]

Free(o) == op[o].pc = "idle" /\ sched.leaseOwner # o

NoTask == [ state |-> TASK_ABSENT, executeAt |-> None, jobId |-> FALSE ]

\* Task names that createPrimaryKeyStrat may draw: a name is drawn again only
\* when nothing in the model refers to its deleted row.
Unused(t) ==
  /\ tasks[t].state = TASK_ABSENT
  /\ \A o \in Ops : op[o].task # t
  /\ job[t] # RunningReply
  /\ notices[t] = 0

TasksIn(state) == { t \in Tasks : tasks[t].state = state }

------------------------------------------------------------------------------
(* Store calls.  A call is applied and answered, or rejected by the store   *)
(* without effect, or applied with its answer lost.                        *)

Outcomes == IF faults < MaxFaults THEN { "answered", "refused", "unanswered" }
            ELSE { "answered" }

Charge(f) == faults' = IF f = "answered" THEN faults ELSE faults + 1

\* A read: the handler goes on as one of `found`, or as `rejected`.
ReadStore(o, found, rejected) ==
  \E f \in Outcomes \ {"unanswered"} :
    /\ IF f = "answered" THEN \E p \in found : op' = [op EXCEPT ![o] = p]
                         ELSE op' = [op EXCEPT ![o] = rejected]
    /\ Charge(f)
    /\ UNCHANGED << sched, tasks, job, notices, starts, crashes >>

\* A conditional update of the scheduled job's row.
UpdateSchedule(o, condition, row, accepted, rejected) ==
  \E f \in Outcomes :
    LET hit == condition /\ f # "refused"
    IN /\ sched' = IF hit THEN row ELSE sched
       /\ IF hit /\ f = "answered" THEN \E p \in accepted : op' = [op EXCEPT ![o] = p]
                                   ELSE op' = [op EXCEPT ![o] = rejected]
       /\ Charge(f)
       /\ UNCHANGED << tasks, job, notices, starts, crashes >>

\* A write of one task's row.
UpdateTask(o, t, condition, row, accepted, rejected) ==
  \E f \in Outcomes :
    LET hit == condition /\ f # "refused"
    IN /\ tasks' = IF hit THEN [tasks EXCEPT ![t] = row] ELSE tasks
       /\ IF hit /\ f = "answered" THEN \E p \in accepted : op' = [op EXCEPT ![o] = p]
                                   ELSE op' = [op EXCEPT ![o] = rejected]
       /\ Charge(f)
       /\ UNCHANGED << sched, notices, crashes >>

------------------------------------------------------------------------------
(* How a handler goes on *)

\* From here on a handler only gives up its lease, and forgets its task.
Exit(p, pc)        == [ Idle EXCEPT !.pc = pc, !.kind = p.kind, !.now = p.now ]
Failed(p)          == Exit(p, "needsRepair")
Leave(p, pastured) == [ Exit(p, "release") EXCEPT !.pasture = pastured ]
Queue(p, seconds)  == [ Exit(p, "addCheck") EXCEPT !.delay = seconds ]

\* What the task creation strategy answers.  It may queue while a task name is
\* left; a schedule that has used them all up is one whose strategy disables.
Answers ==
  LET room == IF \E t \in Tasks : Unused(t) THEN NextActions ELSE NextActions \ {"queue"}
  IN IF room = {} THEN {"disable"} ELSE room

Follow(p, answer, pastured) ==
  CASE answer = "queue"   -> Queue(p, Period)
    [] answer = "disable" -> Leave(p, pastured)
    [] answer = "invalid" -> Leave(p, TRUE)     \* InvalidScheduleDefinitionError

\* startTask's last step.  A disable from the strategy is dropped: the chain
\* ends in { value: null } whatever came before.
AfterStart(p) ==
  IF sched.creation = "start" THEN { Follow(p, a, FALSE) : a \in Answers }
  ELSE { Leave(p, FALSE) }

\* createAfterTaskFinishes, in taskFinished and in retryTask.
AfterFinish(p) ==
  IF sched.creation = "finish" THEN { Follow(p, a, TRUE) : a \in Answers }
  ELSE { Leave(p, FALSE) }

\* What the retry strategy answers, while a task name is left.
RetryAnswers ==
  LET again == IF \E t \in Tasks : Unused(t) THEN Retries ELSE Retries \cap {None}
  IN IF again = {} THEN {None} ELSE again

\* retryTask
AfterFailure(p) ==
  UNION { IF r = None THEN AfterFinish(p) ELSE { Queue(p, r) } : r \in RetryAnswers }

\* retryTask in startTask: here too a disable is dropped, and createAfterTaskStarts is
\* asked when there was no retry.  (When there was one, what it queues finds the retry
\* pending.)
AfterFailedStart(p) ==
  UNION { IF r # None THEN { Queue(p, r) }
          ELSE IF sched.creation = "finish" THEN { Follow(p, a, FALSE) : a \in Answers }
          ELSE AfterStart(p) : r \in RetryAnswers }

------------------------------------------------------------------------------
(* createScheduledJob *)

CreateScheduledJob(o) ==
  /\ Free(o)
  /\ sched.creation = None
  /\ \A p \in Ops : op[p].kind # SCHEDULE_STATE_ADD_TASK
  /\ \E t \in Tasks :
       /\ Unused(t)
       /\ op' = [op EXCEPT ![o] =
                  [ Handler("addSchedule", SCHEDULE_STATE_ADD_TASK, t, None) EXCEPT !.owed = 0 ]]
  /\ UNCHANGED << sched, tasks, job, notices, starts, crashes, faults >>

\* The row is created leased.  createFromNewSchedule then gives the first date
\* or finds the definition invalid.
AddScheduledJob(o) ==
  /\ op[o].pc = "addSchedule"
  /\ \E creation \in Creations, skip \in Skips :
       UpdateSchedule(o, TRUE,
         NewSchedule(creation, skip, op[o].task, o, op[o].now),
         { [ op[o] EXCEPT !.pc = "addTask" ] } \cup
           (IF "invalid" \in NextActions THEN { Leave(op[o], TRUE) } ELSE {}),
         Failed(op[o]))

------------------------------------------------------------------------------
(* What begins the other handlers *)

Begin(o, handler) ==
  /\ Free(o)
  /\ op' = [op EXCEPT ![o] = handler]
  /\ UNCHANGED << sched, tasks, job, starts, crashes, faults >>

\* pollExecutableTasks finds the task, and taskReadyToExecute runs startTask.
Ready(t) == tasks[t].state = TASK_STATE_PENDING /\ Before(tasks[t].executeAt, 0)

PollTask(o, t) ==
  /\ Ready(t)
  /\ Begin(o, Handler("lease", SCHEDULE_STATE_START_TASK, t, None))
  /\ UNCHANGED notices

\* jobExecutionFinished runs taskFinished.
FinishNotice(o, t) ==
  /\ notices[t] > 0
  /\ Begin(o, Handler("lookup", SCHEDULE_STATE_END_TASK, t, job[t]))
  /\ notices' = [notices EXCEPT ![t] = @ - 1]

Disable(o) ==
  /\ CanDisable
  /\ sched.creation # None
  /\ Begin(o, Handler("lease", SCHEDULE_STATE_PASTURE, None, None))
  /\ UNCHANGED notices

\* pollLeaseExpiredScheduledJobs finds the row, and scheduledJobLeaseExpired
\* runs repairExpiredSchedule.
PollExpired(o) ==
  /\ Before(sched.leaseExpires, 0)
  /\ Begin(o, [ Handler("repairRead", SCHEDULE_STATE_REPAIR, None, None) EXCEPT !.owed = 0 ])
  /\ UNCHANGED notices

------------------------------------------------------------------------------
(* runUpdateInLease *)

\* getTaskByExecutionJobId: a notice for an id that no row holds is an error.
Lookup(o) ==
  /\ op[o].pc = "lookup"
  /\ ReadStore(o, { IF tasks[op[o].task].jobId THEN [ op[o] EXCEPT !.pc = "lease" ] ELSE Idle },
               Idle)

MutRetryOneMore(p) ==
  IF p.attempt <= Len(RetryDelays)
  THEN [ p EXCEPT !.attempt = @ + 1,
                  !.wait = IF p.attempt < Len(RetryDelays) THEN RetryDelays[p.attempt + 1] ELSE 0 ]
  ELSE Idle
MutRetryNotCounted(p) ==
  IF p.attempt < Len(RetryDelays)
  THEN [ p EXCEPT !.wait = RetryDelays[p.attempt + 1] ]
  ELSE Idle
RetryLease(p) ==
  IF p.attempt < Len(RetryDelays)
  THEN [ p EXCEPT !.attempt = @ + 1, !.wait = RetryDelays[p.attempt + 1] ]
  ELSE Idle

\* Every attempt leases from the time the handler began.
TakeLease(o) ==
  /\ op[o].pc = "lease"
  /\ op[o].wait = 0
  /\ LET p == op[o]
     IN UpdateSchedule(o, CanLease(sched), Lease(sched, p.kind, p.task, o, p.now),
          { [ p EXCEPT !.pc = "read", !.attempt = 0, !.owed = 0 ] }, RetryLease(p))

\* getScheduledJob.  When this read fails the handler ends and keeps the lease.
ReadSchedule(o) ==
  /\ op[o].pc = "read"
  /\ LET p == op[o]
     IN ReadStore(o,
          { CASE p.kind = SCHEDULE_STATE_START_TASK -> [ p EXCEPT !.pc = "queue" ]
              [] p.kind = SCHEDULE_STATE_END_TASK   -> [ p EXCEPT !.pc = "finish" ]
              [] p.kind = SCHEDULE_STATE_PASTURE    -> Leave(p, TRUE) }, Idle)

\* releaseScheduledJobLease.  A repair whose release fails tries once more, with
\* the schedule out to pasture.
ReleaseLease(o) ==
  /\ op[o].pc = "release"
  /\ UpdateSchedule(o, OwnsLease(sched, o), Release(sched, op[o].pasture), { Idle },
       IF op[o].kind = SCHEDULE_STATE_REPAIR
       THEN Exit(op[o], "abort") ELSE Idle)

\* markLeasedScheduledJobNeedsRepair: the lease expires at the handler's time.
MarkNeedsRepair(o) ==
  /\ op[o].pc = "needsRepair"
  /\ UpdateSchedule(o, OwnsLease(sched, o), NeedsRepair(sched, op[o].now, FALSE), { Idle }, Idle)

------------------------------------------------------------------------------
(* startTask *)

\* markTaskState: conditional on the expected state, and rejected otherwise.
MutMarkTaskAnyState(o, expected, new, accepted, rejected) ==
  /\ UpdateTask(o, op[o].task, TRUE, [tasks[op[o].task] EXCEPT !.state = new], accepted, rejected)
  /\ UNCHANGED << job, starts >>
MarkTask(o, expected, new, accepted, rejected) ==
  LET t == op[o].task
  IN /\ UpdateTask(o, t, tasks[t].state = expected, [tasks[t] EXCEPT !.state = new],
                   accepted, rejected)
     /\ UNCHANGED << job, starts >>

MutQueueUnconditionally(o) ==
  /\ op[o].pc = "queue"
  /\ UpdateTask(o, op[o].task, TRUE, [tasks[op[o].task] EXCEPT !.state = TASK_STATE_QUEUED],
       { [ op[o] EXCEPT !.pc = "dupCheck" ] }, Failed(op[o]))
  /\ UNCHANGED << job, starts >>
MarkTaskQueued(o) ==
  /\ op[o].pc = "queue"
  /\ MarkTask(o, TASK_STATE_PENDING, TASK_STATE_QUEUED,
       { [ op[o] EXCEPT !.pc = "dupCheck" ] }, Failed(op[o]))

\* shouldSkipTask: looks at STARTED tasks only.
MutNeverSkip(o) ==
  /\ op[o].pc = "dupCheck"
  /\ ReadStore(o, { [ op[o] EXCEPT !.pc = "startJob" ] }, Failed(op[o]))
ShouldSkip(o) ==
  /\ op[o].pc = "dupCheck"
  /\ ReadStore(o,
       { IF sched.skip /\ TasksIn(TASK_STATE_STARTED) # {}
         THEN [ op[o] EXCEPT !.pc = "markSkipped" ]
         ELSE [ op[o] EXCEPT !.pc = "startJob" ] }, Failed(op[o]))

\* The call of the job framework and its answer.
StartJob(o) ==
  /\ op[o].pc = "startJob"
  /\ \E reply \in Responses :
       /\ job' = [job EXCEPT ![op[o].task] =
                   IF reply \in {"running", "completed", "failed"} THEN reply ELSE "none"]
       /\ op' = [op EXCEPT ![o] =
                  CASE reply \in {"running", "completed", "failed"} ->
                         [ op[o] EXCEPT !.pc = "markStarted", !.status = reply ]
                    [] reply \in {"did-not-start", "rejected"} ->
                         [ op[o] EXCEPT !.pc = "markStartFailed", !.status = reply ]
                    [] reply = "unknown" -> Failed(op[o]) ]
  /\ starts' = [starts EXCEPT ![op[o].task] = @ + 1]
  /\ UNCHANGED << sched, tasks, notices, crashes, faults >>

MutSkipThenStart(o) ==
  /\ op[o].pc = "markSkipped"
  /\ MarkTask(o, TASK_STATE_QUEUED, TASK_STATE_COMPLETED,
              { [ op[o] EXCEPT !.pc = "startJob" ] }, Failed(op[o]))
MarkTaskSkipped(o) ==
  /\ op[o].pc = "markSkipped"
  /\ MarkTask(o, TASK_STATE_QUEUED, TASK_STATE_COMPLETED, AfterStart(op[o]), Failed(op[o]))

MarkTaskStarted(o) ==
  /\ op[o].pc = "markStarted"
  /\ LET p == op[o]
         t == p.task
     IN UpdateTask(o, t, tasks[t].state = TASK_STATE_QUEUED,
          [tasks[t] EXCEPT !.state = TASK_STATE_STARTED, !.jobId = TRUE],
          CASE p.status = "running"   -> AfterStart(p)
            [] p.status = "completed" -> { [ p EXCEPT !.pc = "markCompleted" ] }
            [] p.status = "failed"    -> { [ p EXCEPT !.pc = "markFailed" ] },
          Failed(p))
  /\ UNCHANGED << job, starts >>

MarkTaskCompleted(o) ==
  /\ op[o].pc = "markCompleted"
  /\ MarkTask(o, TASK_STATE_STARTED, TASK_STATE_COMPLETED, AfterStart(op[o]), Failed(op[o]))

\* A job that failed at once: the task is STARTED by now, and the call expects
\* QUEUED, so that it is always rejected, nothing is retried and the task stays STARTED.
MarkTaskFailed(o) ==
  /\ op[o].pc = "markFailed"
  /\ MarkTask(o, TASK_STATE_QUEUED, TASK_STATE_FAILED, AfterFailedStart(op[o]), Failed(op[o]))

\* did-not-start ends the handler in { value: null }; a rejected startJob is an
\* error whether or not this write succeeds.
MarkTaskStartFailed(o) ==
  /\ op[o].pc = "markStartFailed"
  /\ MarkTask(o, TASK_STATE_QUEUED, TASK_STATE_START_ERROR,
       { IF op[o].status = "rejected" THEN Failed(op[o]) ELSE Leave(op[o], FALSE) },
       Failed(op[o]))

------------------------------------------------------------------------------
(* taskFinished *)

MarkTaskFinished(o) ==
  /\ op[o].pc = "finish"
  /\ LET p == op[o]
     IN \/ /\ p.status = "completed"
           /\ MarkTask(o, TASK_STATE_STARTED, TASK_STATE_COMPLETED, AfterFinish(p), Failed(p))
        \/ /\ p.status = "failed"
           /\ MarkTask(o, TASK_STATE_STARTED, TASK_STATE_COMPLETE_ERROR, AfterFailure(p), Failed(p))
        \/ /\ p.status = "unknown"
           /\ op' = [op EXCEPT ![o] = Failed(p)]
           /\ UNCHANGED << sched, tasks, job, notices, starts, crashes, faults >>

------------------------------------------------------------------------------
(* addTaskDuplicateCheck, and the first task of createScheduledJob *)

MutAddWithoutCheck(o) ==
  /\ op[o].pc = "addCheck"
  /\ ReadStore(o, { [ op[o] EXCEPT !.pc = "addTask" ] }, Failed(op[o]))
CheckPending(o) ==
  /\ op[o].pc = "addCheck"
  /\ ReadStore(o,
       { IF TasksIn(TASK_STATE_PENDING) # {} THEN Leave(op[o], FALSE)
         ELSE [ op[o] EXCEPT !.pc = "addTask" ] }, Failed(op[o]))

AddTask(o) ==
  /\ op[o].pc = "addTask"
  /\ \E t \in Tasks :
       /\ IF op[o].task # None THEN t = op[o].task ELSE Unused(t)
       /\ UpdateTask(o, t, TRUE,
            [ state |-> TASK_STATE_PENDING, executeAt |-> op[o].now + op[o].delay,
              jobId |-> FALSE ],
            { Leave(op[o], FALSE) }, Failed(op[o]))
       /\ job' = [job EXCEPT ![t] = "none"]
       /\ starts' = [starts EXCEPT ![t] = 0]

------------------------------------------------------------------------------
(* repairExpiredSchedule *)

RepairRead(o) ==
  /\ op[o].pc = "repairRead"
  /\ ReadStore(o, { [ op[o] EXCEPT !.pc = "steal", !.status = RepairSource(sched) ] }, Idle)

StealLease(o) ==
  /\ op[o].pc = "steal"
  /\ LET p == op[o]
     IN UpdateSchedule(o, CanSteal(sched, p.now), Steal(sched, p.status, o, p.now),
          { [ p EXCEPT !.pc = "repairFind", !.status = None ] }, Idle)

\* The row is read back, and performRepair goes by what it holds.  The repairs
\* of start-task, end-task and pasture are not implemented: they reject.
RepairFind(o) ==
  /\ op[o].pc = "repairFind"
  /\ LET p == op[o]
     IN ReadStore(o,
          { CASE sched.repairState = SCHEDULE_STATE_ADD_TASK ->
                   IF sched.pasture THEN Leave(p, TRUE)
                   ELSE [ p EXCEPT !.pc = "repairCheck", !.task = sched.updateTaskPk ]
              [] sched.repairState \in { SCHEDULE_STATE_START_TASK, SCHEDULE_STATE_END_TASK,
                                         SCHEDULE_STATE_PASTURE } ->
                   Exit(p, "abort")
              [] OTHER -> Leave(p, TRUE) }, Idle)

\* repairAddTask
RepairCheck(o) ==
  /\ op[o].pc = "repairCheck"
  /\ ReadStore(o,
       { IF op[o].task # None /\ TasksIn(TASK_STATE_PENDING) # {} THEN Leave(op[o], FALSE)
         ELSE Exit(op[o], "abort") },
       Exit(op[o], "abort"))

\* The catch of repairExpiredSchedule.
RepairAbort(o) ==
  /\ op[o].pc = "abort"
  /\ UpdateSchedule(o, OwnsLease(sched, o), Release(sched, TRUE), { Idle }, Idle)

------------------------------------------------------------------------------
(* The environment *)

\* A handler dies with its process; the lease stays in the row.
Crash(o) ==
  /\ op[o].pc # "idle"
  /\ crashes < MaxCrashes
  /\ op' = [op EXCEPT ![o] = Idle]
  /\ crashes' = crashes + 1
  /\ UNCHANGED << sched, tasks, job, notices, starts, faults >>

\* The job framework ends a job and sends the notice to every listener.
JobFinishes(t) ==
  /\ job[t] = RunningReply
  /\ \E result \in Results : job' = [job EXCEPT ![t] = result]
  /\ notices' = [notices EXCEPT ![t] = MaxNotices]
  /\ UNCHANGED << sched, tasks, op, starts, crashes, faults >>

MutDeleteAnyState(t) ==
  /\ CanDelete
  /\ tasks[t].state \notin { TASK_ABSENT, TASK_STATE_PENDING }
  /\ tasks' = [tasks EXCEPT ![t] = NoTask]
  /\ job' = IF notices[t] = 0 THEN [job EXCEPT ![t] = "none"] ELSE job
  /\ starts' = [starts EXCEPT ![t] = 0]
  /\ UNCHANGED << sched, op, notices, crashes, faults >>
DeleteFinishedTask(t) ==
  /\ CanDelete
  /\ tasks[t].state \in FinishedTaskStates
  /\ tasks' = [tasks EXCEPT ![t] = NoTask]
  /\ job' = IF notices[t] = 0 THEN [job EXCEPT ![t] = "none"] ELSE job
  /\ starts' = [starts EXCEPT ![t] = 0]
  /\ UNCHANGED << sched, op, notices, crashes, faults >>

\* A handler one second later.
Aged(p) ==
  IF p.pc = "idle" THEN p
  ELSE [ p EXCEPT !.now = @ - 1,
                  !.wait = IF p.wait > 0 THEN @ - 1 ELSE @,
                  !.owed = IF p.wait > 0 THEN @ - 1 ELSE @ ]

\* A second passes.  MaxAge bounds how long a handler lives, with room for the
\* lease retries it may still have to wait for.
Tick ==
  /\ op' = [o \in Ops |-> Aged(op[o])]
  /\ \A o \in Ops :
       LET age == -Aged(op[o]).now
       IN age <= MaxAge /\ age + Aged(op[o]).owed <= MaxAge
  /\ sched' = [sched EXCEPT !.leaseExpires = Elapsed(@, Past)]
  /\ tasks' = [t \in Tasks |-> [tasks[t] EXCEPT !.executeAt = Elapsed(@, -1)]]
  /\ UNCHANGED << job, notices, starts, crashes, faults >>

------------------------------------------------------------------------------
Init ==
  /\ sched = NoSchedule
  /\ tasks = [t \in Tasks |-> NoTask]
  /\ op = [o \in Ops |-> Idle]
  /\ job = [t \in Tasks |-> "none"]
  /\ notices = [t \in Tasks |-> 0]
  /\ starts = [t \in Tasks |-> 0]
  /\ crashes = 0
  /\ faults = 0

InLease(o)  == Lookup(o) \/ TakeLease(o) \/ ReadSchedule(o) \/ ReleaseLease(o) \/ MarkNeedsRepair(o)
StartTask(o) ==
  \/ MarkTaskQueued(o) \/ ShouldSkip(o) \/ StartJob(o) \/ MarkTaskSkipped(o)
  \/ MarkTaskStarted(o) \/ MarkTaskCompleted(o) \/ MarkTaskFailed(o) \/ MarkTaskStartFailed(o)
AddFollowUp(o) == CheckPending(o) \/ AddTask(o)
Repair(o) == RepairRead(o) \/ StealLease(o) \/ RepairFind(o) \/ RepairCheck(o) \/ RepairAbort(o)

\* The steps that a live handler takes on its own.
Step(o) ==
  \/ AddScheduledJob(o) \/ InLease(o) \/ StartTask(o) \/ MarkTaskFinished(o)
  \/ AddFollowUp(o) \/ Repair(o)

Next ==
  \/ Tick
  \/ \E o \in Ops :
       \/ CreateScheduledJob(o) \/ Disable(o) \/ PollExpired(o) \/ Step(o) \/ Crash(o)
       \/ \E t \in Tasks : PollTask(o, t) \/ FinishNotice(o, t)
  \/ \E t \in Tasks : JobFinishes(t) \/ DeleteFinishedTask(t)

Spec == Init /\ [][Next]_vars

==============================================================================
