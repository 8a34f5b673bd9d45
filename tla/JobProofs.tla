------------------------------ MODULE JobProofs ------------------------------
(***************************************************************************)
(* Why startJob is called at most once for a task, and why a finished task  *)
(* records what became of its job.                                         *)
(*                                                                         *)
(* Only the handler whose conditional update took the task from PENDING to  *)
(* QUEUED goes on to startJob.  While it is on its way the task stays       *)
(* QUEUED, because every other step that leaves QUEUED belongs to the same  *)
(* handler, and nothing ever takes a task back to PENDING.  The lease is    *)
(* not needed: the argument holds for handlers that were overtaken too.     *)
(*                                                                         *)
(* What a handler believes of its task's job when it goes to write the row  *)
(* is still true, because nobody else starts that job (StartInv), a job     *)
(* that ended does not change, and the name of a deleted task is not drawn  *)
(* again while a handler or a notice refers to it.                         *)
(***************************************************************************)
EXTENDS SchedulerProofs

------------------------------------------------------------------------------
(* A task is started once *)

\* The first task of a schedule has its name before it has a row.
CreatingHandler(p) == p.pc = "addSchedule" \/ (p.pc = "addTask" /\ p.task # None)
Creating(o) == CreatingHandler(op[o])

BeforeStartPcs == { "dupCheck", "startJob", "markSkipped" }
LaunchedPcs == { "markStarted", "markStartFailed" }

\* A handler on its way to startJob, or with its answer unrecorded, finds its
\* task QUEUED, and not yet started if it is still on its way.
LaunchOwnsTask ==
  \A o \in Ops :
    op[o].pc \in LaunchPcs =>
      /\ tasks[op[o].task].state = TASK_STATE_QUEUED
      /\ op[o].pc \in BeforeStartPcs => starts[op[o].task] = 0
      /\ op[o].pc \in LaunchedPcs => starts[op[o].task] = 1

\* No two handlers are on their way to start the same task.
OneLauncher ==
  \A o, q \in Ops :
    op[o].pc \in LaunchPcs /\ op[q].pc \in LaunchPcs /\ op[o].task = op[q].task => o = q

\* An immediate result is recorded for a task that was STARTED.
AnsweredLeftQueue ==
  \A o \in Ops :
    op[o].pc \in AnsweredPcs =>
      tasks[op[o].task].state \notin {TASK_STATE_PENDING, TASK_STATE_QUEUED}

\* Nobody but a repair that read the schedule's row knows the first task's name
\* before its row exists.
FirstTaskIsFresh ==
  \A o \in Ops :
    Creating(o) =>
      /\ tasks[op[o].task].state = TASK_ABSENT
      /\ notices[op[o].task] = 0
      /\ job[op[o].task] # RunningReply
      /\ \A q \in Ops : q # o /\ op[q].task = op[o].task => op[q].pc = "repairCheck"

PendingNotStarted == \A t \in Tasks : tasks[t].state = TASK_STATE_PENDING => starts[t] = 0

StartInv ==
  /\ StartedOnce
  /\ PendingNotStarted
  /\ LaunchOwnsTask
  /\ OneLauncher
  /\ AnsweredLeftQueue
  /\ FirstTaskIsFresh

USE DEF RunningReply

LEMMA StartInvInitially == Init => StartInv
BY NoneIsNone
   DEF Init, StartInv, StartedOnce, PendingNotStarted, LaunchOwnsTask, OneLauncher,
       AnsweredLeftQueue, FirstTaskIsFresh, Creating, CreatingHandler, Idle, NoTask, LaunchPcs,
       AnsweredPcs, TASK_ABSENT, TASK_STATE_PENDING

\* What a handler's place says of its task, from TypeInv.
LEMMA PlacedTask ==
  ASSUME TypeInv, NEW o \in Ops
  PROVE  /\ op[o] \in Handlers
         /\ op[o].task \in Tasks \cup {None}
         /\ op[o].pc \in TaskPcs => op[o].task \in Tasks
         /\ op[o].pc \in ExitPcs => op[o].task = None
         /\ Creating(o) => op[o].task \in Tasks
BY DEF TypeInv, TypeOK, PlacedHandlers, Placed, Handlers, Creating, CreatingHandler, TaskPcs

------------------------------------------------------------------------------
(* A step that changes no task.  The handler in slot o goes on as x.        *)

\* x stays on its way to startJob if it is on its way, and does not enter it.
Stays(p, x) ==
  /\ x.pc \in LaunchPcs => p.pc \in LaunchPcs /\ x.task = p.task
  /\ x.pc \in BeforeStartPcs => p.pc \in BeforeStartPcs
  /\ x.pc \in LaunchedPcs => p.pc \in LaunchedPcs
  /\ x.pc \notin AnsweredPcs
  /\ CreatingHandler(x) => CreatingHandler(p) /\ x.task = p.task

\* x does not learn the name of a first task that has no row yet.
LearnsNothing(o, x) ==
  \A q \in Ops : q # o /\ Creating(q) /\ x.task = op[q].task =>
    x.pc = "repairCheck" \/ (op[o].pc # "repairCheck" /\ op[o].task = x.task)

LEMMA QuietStep ==
  ASSUME TypeInv, StartInv, NEW o \in Ops, NEW x \in PlacedHandlers, Becomes(o, x),
         Stays(op[o], x), LearnsNothing(o, x),
         UNCHANGED << tasks, starts, job >>,
         \A t \in Tasks : notices[t] = 0 => notices'[t] = 0
  PROVE  StartInv'
<1>1. /\ op'[o] = x
      /\ \A q \in Ops : q # o => op'[q] = op[q]
  BY BecomesPlaced DEF TypeInv
<1>2. StartedOnce' /\ PendingNotStarted'
  BY DEF StartInv, StartedOnce, PendingNotStarted
<1>3. LaunchOwnsTask'
  BY <1>1 DEF StartInv, LaunchOwnsTask, Stays
<1>4. OneLauncher'
  BY <1>1 DEF StartInv, OneLauncher, Stays
<1>5. AnsweredLeftQueue'
  BY <1>1 DEF StartInv, AnsweredLeftQueue, Stays
<1>6. FirstTaskIsFresh'
  <2> SUFFICES ASSUME NEW c \in Ops, Creating(c)'
               PROVE  /\ tasks'[op'[c].task].state = TASK_ABSENT
                      /\ notices'[op'[c].task] = 0
                      /\ job'[op'[c].task] # RunningReply
                      /\ \A q \in Ops : q # c /\ op'[q].task = op'[c].task
                                        => op'[q].pc = "repairCheck"
    BY DEF FirstTaskIsFresh
  <2>1. Creating(c) /\ op'[c].task = op[c].task
    BY <1>1 DEF Creating, Stays
  <2>2. op[c].task \in Tasks
    BY <2>1, PlacedTask
  <2>3. ASSUME NEW q \in Ops, q # c, op'[q].task = op'[c].task PROVE op'[q].pc = "repairCheck"
    <3>1. CASE q = o
      BY <1>1, <2>1, <2>3, <3>1 DEF StartInv, FirstTaskIsFresh, LearnsNothing
    <3>2. CASE q # o
      BY <1>1, <2>1, <2>3, <3>2 DEF StartInv, FirstTaskIsFresh
    <3>3. QED
      BY <3>1, <3>2
  <2>4. QED
    BY <2>1, <2>2, <2>3 DEF StartInv, FirstTaskIsFresh
<1>7. QED
  BY <1>2, <1>3, <1>4, <1>5, <1>6 DEF StartInv

\* A handler that moves but keeps or forgets its task.
LEMMA ForgetfulStep ==
  ASSUME TypeInv, StartInv, NEW o \in Ops, NEW x \in PlacedHandlers, Becomes(o, x),
         x.pc \notin LaunchPcs \cup AnsweredPcs, ~CreatingHandler(x),
         x.task = None \/ (x.task = op[o].task /\ op[o].pc # "repairCheck"),
         UNCHANGED << tasks, starts, job, notices >>
  PROVE  StartInv'
<1>1. Stays(op[o], x)
  BY DEF Stays, BeforeStartPcs, LaunchedPcs, LaunchPcs
<1>2. LearnsNothing(o, x)
  BY PlacedTask, NoneIsNone DEF LearnsNothing
<1>3. QED
  BY <1>1, <1>2, QuietStep

LEMMA IdleFields == Idle \in PlacedHandlers /\ Idle.pc = "idle" /\ Idle.task = None
BY IdlePlaced DEF Idle

\* A handler that ends or departs.
LEMMA LeavingStep ==
  ASSUME TypeInv, StartInv, NEW o \in Ops, NEW x \in Departures \cup {Idle}, Becomes(o, x),
         UNCHANGED << tasks, starts, job, notices >>
  PROVE  StartInv'
BY ForgetfulStep, IdleFields
   DEF Departures, ExitPcs, LaunchPcs, AnsweredPcs, CreatingHandler

LEMMA BeginKeeps ==
  ASSUME TypeInv, StartInv, NEW o \in Ops,
         \/ Disable(o) \/ PollExpired(o)
         \/ \E t \in Tasks : PollTask(o, t) \/ FinishNotice(o, t)
  PROVE  StartInv'
<1>k. ScheduleUpdateStateType = { SCHEDULE_STATE_ADD_TASK, SCHEDULE_STATE_START_TASK,
        SCHEDULE_STATE_END_TASK, SCHEDULE_STATE_PASTURE, SCHEDULE_STATE_REPAIR }
  BY DEF ScheduleUpdateStateType
<1>1. CASE Disable(o)
  <2> DEFINE h == Handler("lease", SCHEDULE_STATE_PASTURE, None, None)
  <2>1. Becomes(o, h) /\ UNCHANGED << sched, tasks, job, notices, starts, crashes, faults >>
    BY <1>1 DEF Disable, Begin, Becomes
  <2>2. h \in PlacedHandlers /\ h.pc = "lease" /\ h.task = None
    BY <1>k, HandlerPlaced DEF UpdateKinds
  <2> HIDE DEF h
  <2>3. QED
    BY <2>1, <2>2, ForgetfulStep DEF LaunchPcs, AnsweredPcs, CreatingHandler
<1>2. CASE PollExpired(o)
  <2> DEFINE g == Handler("repairRead", SCHEDULE_STATE_REPAIR, None, None)
             h == [ g EXCEPT !.owed = 0 ]
  <2>1. Becomes(o, h) /\ UNCHANGED << sched, tasks, job, notices, starts, crashes, faults >>
    BY <1>2 DEF PollExpired, Begin, Becomes
  <2>2. g \in PlacedHandlers /\ g.pc = "repairRead" /\ g.task = None
    BY <1>k, HandlerPlaced
  <2> HIDE DEF g
  <2>3. h \in PlacedHandlers /\ h.pc = "repairRead" /\ h.task = None
    BY <2>2, UnhurriedHandler
  <2> HIDE DEF h
  <2>4. QED
    BY <2>1, <2>3, ForgetfulStep DEF LaunchPcs, AnsweredPcs, CreatingHandler
<1>3. ASSUME NEW t \in Tasks, PollTask(o, t) PROVE StartInv'
  <2> DEFINE h == Handler("lease", SCHEDULE_STATE_START_TASK, t, None)
  <2>1. Becomes(o, h) /\ UNCHANGED << sched, tasks, job, notices, starts, crashes, faults >>
    BY <1>3 DEF PollTask, Begin, Becomes
  <2>2. h \in PlacedHandlers /\ h.pc = "lease" /\ h.task = t
    BY <1>k, HandlerPlaced, NoneIsNone DEF UpdateKinds
  <2> HIDE DEF h
  <2>3. Stays(op[o], h)
    BY <2>2 DEF Stays, LaunchPcs, BeforeStartPcs, LaunchedPcs, AnsweredPcs,
           CreatingHandler
  <2>4. LearnsNothing(o, h)
    BY <1>3, <2>2
       DEF LearnsNothing, StartInv, FirstTaskIsFresh, PollTask, Ready, TASK_ABSENT,
           TASK_STATE_PENDING
  <2>5. QED
    BY <2>1, <2>2, <2>3, <2>4, QuietStep
<1>4. ASSUME NEW t \in Tasks, FinishNotice(o, t) PROVE StartInv'
  <2> DEFINE h == Handler("lookup", SCHEDULE_STATE_END_TASK, t, job[t])
  <2>0. job[t] \in JobReplies \cup {"none", None} /\ notices \in [Tasks -> 0..MaxNotices]
    BY DEF TypeInv, TypeOK
  <2>1. Becomes(o, h) /\ UNCHANGED << sched, tasks, job, starts, crashes, faults >>
    BY <1>4 DEF FinishNotice, Begin, Becomes
  <2>2. h \in PlacedHandlers /\ h.pc = "lookup" /\ h.task = t
    BY <1>k, <2>0, HandlerPlaced, NoneIsNone
  <2> HIDE DEF h
  <2>3. Stays(op[o], h)
    BY <2>2 DEF Stays, LaunchPcs, BeforeStartPcs, LaunchedPcs, AnsweredPcs,
           CreatingHandler
  <2>4. LearnsNothing(o, h)
    BY <1>4, <2>0, <2>2 DEF LearnsNothing, StartInv, FirstTaskIsFresh, FinishNotice
  <2>5. \A u \in Tasks : notices[u] = 0 => notices'[u] = 0
    BY <1>4, <2>0, ConstantTypes DEF FinishNotice
  <2>6. QED
    BY <2>1, <2>2, <2>3, <2>4, <2>5, QuietStep
<1>5. QED
  BY <1>1, <1>2, <1>3, <1>4

LEMMA ReadsKeep ==
  ASSUME TypeInv, StartInv, NEW o \in Ops,
         \/ Lookup(o) \/ ReadSchedule(o) \/ ShouldSkip(o) \/ CheckPending(o)
         \/ RepairRead(o) \/ RepairFind(o) \/ RepairCheck(o)
  PROVE  StartInv'
<1> DEFINE p == op[o]
<1>0. p \in Handlers /\ Placed(p) /\ sched \in Schedules
  BY DEF TypeInv, TypeOK, PlacedHandlers
<1>d. {Failed(p), Exit(p, "abort"), Leave(p, TRUE), Leave(p, FALSE)} \subseteq Departures
  BY <1>0, Departed DEF ExitPcs
<1>1. ASSUME NEW x, NEW y \in Departures \cup {Idle}, ReadStore(o, {x}, y)
      PROVE  /\ Becomes(o, x) \/ StartInv'
             /\ UNCHANGED << tasks, starts, job, notices >>
  <2>1. /\ Becomes(o, x) \/ Becomes(o, y)
        /\ UNCHANGED << sched, tasks, job, notices, starts, crashes >>
    BY <1>1 DEF ReadStore, Becomes
  <2>2. QED
    BY <1>1, <2>1, LeavingStep
<1>2. CASE Lookup(o)
  <2> DEFINE x == [ p EXCEPT !.pc = "lease" ]
             y == IF tasks[p.task].jobId THEN x ELSE Idle
  <2>1. ReadStore(o, {y}, Idle)
    BY <1>2 DEF Lookup
  <2>2. p.pc = "lookup" /\ x.pc = "lease" /\ x.task = p.task /\ x \in PlacedHandlers
    BY <1>0, <1>2, MovedHandler
       DEF Lookup, PlacedHandlers, Placed, TaskPcs, ExitPcs, LaunchPcs, AnsweredPcs, UpdateKinds, Pcs
  <2> HIDE DEF x
  <2>3. y = x \/ y = Idle
    OBVIOUS
  <2> HIDE DEF y
  <2>4. CASE y = x
    BY <1>1, <2>1, <2>2, <2>4, ForgetfulStep DEF LaunchPcs, AnsweredPcs, CreatingHandler
  <2>5. CASE y = Idle
    BY <1>1, <2>1, <2>5, LeavingStep
  <2>6. QED
    BY <2>3, <2>4, <2>5
<1>3. CASE ReadSchedule(o)
  <2> DEFINE x == CASE p.kind = SCHEDULE_STATE_START_TASK -> [ p EXCEPT !.pc = "queue" ]
                    [] p.kind = SCHEDULE_STATE_END_TASK   -> [ p EXCEPT !.pc = "finish" ]
                    [] p.kind = SCHEDULE_STATE_PASTURE    -> Leave(p, TRUE)
  <2>1. ReadStore(o, {x}, Idle) /\ p.pc = "read" /\ p.kind \in UpdateKinds
    BY <1>0, <1>3 DEF ReadSchedule, Placed
  <2>2. CASE p.kind = SCHEDULE_STATE_PASTURE
    <3>1. x = Leave(p, TRUE)
      BY <2>2 DEF SCHEDULE_STATE_START_TASK, SCHEDULE_STATE_END_TASK, SCHEDULE_STATE_PASTURE
    <3> HIDE DEF x
    <3>2. QED
      BY <1>1, <1>d, <2>1, <3>1, LeavingStep
  <2>3. ASSUME NEW pc \in {"queue", "finish"}, x = [ p EXCEPT !.pc = pc ],
               p.kind # SCHEDULE_STATE_PASTURE
        PROVE  StartInv'
    <3> HIDE DEF x
    <3>0. p.task \in Tasks /\ pc \in Pcs
      BY <1>0, <2>1, <2>3 DEF Placed, Pcs, LeasedPcs
    <3>1. x \in PlacedHandlers /\ x.pc = pc /\ x.task = p.task
      BY <1>0, <2>3, <3>0, MovedToTask, MovedHandler
    <3>2. QED
      BY <1>1, <2>1, <3>1, ForgetfulStep DEF LaunchPcs, AnsweredPcs, CreatingHandler
  <2>4. QED
    BY <2>1, <2>2, <2>3
       DEF UpdateKinds, SCHEDULE_STATE_START_TASK, SCHEDULE_STATE_END_TASK, SCHEDULE_STATE_PASTURE
<1>4. CASE ShouldSkip(o)
  <2> DEFINE x == IF sched.skip /\ TasksIn(TASK_STATE_STARTED) # {}
                  THEN [ p EXCEPT !.pc = "markSkipped" ] ELSE [ p EXCEPT !.pc = "startJob" ]
  <2>1. ReadStore(o, {x}, Failed(p)) /\ p.pc = "dupCheck" /\ p.task \in Tasks
    BY <1>0, <1>4 DEF ShouldSkip, Placed, TaskPcs, LaunchPcs
  <2>m. ASSUME NEW pc \in {"markSkipped", "startJob"}
        PROVE  /\ [ p EXCEPT !.pc = pc ] \in PlacedHandlers
               /\ [ p EXCEPT !.pc = pc ].pc = pc
               /\ [ p EXCEPT !.pc = pc ].task = p.task
    <3>1. pc \in Pcs
      BY DEF Pcs, LeasedPcs
    <3>2. QED
      BY <1>0, <2>1, <3>1, MovedToTask, MovedHandler
  <2>2. x \in PlacedHandlers /\ x.pc \in {"markSkipped", "startJob"} /\ x.task = p.task
    BY <2>m
  <2> HIDE DEF x
  <2>3. Stays(p, x) /\ LearnsNothing(o, x)
    BY <2>1, <2>2
       DEF Stays, LearnsNothing, LaunchPcs, BeforeStartPcs, LaunchedPcs, AnsweredPcs,
           CreatingHandler
  <2>4. QED
    BY <1>1, <1>d, <2>1, <2>2, <2>3, QuietStep
<1>5. CASE CheckPending(o)
  <2> DEFINE x == [ p EXCEPT !.pc = "addTask" ]
             y == IF TasksIn(TASK_STATE_PENDING) # {} THEN Leave(p, FALSE) ELSE x
  <2>1. ReadStore(o, {y}, Failed(p)) /\ p.pc = "addCheck" /\ p.task = None
    BY <1>0, <1>5 DEF CheckPending, Placed, ExitPcs
  <2>2. x \in PlacedHandlers /\ x.pc = "addTask" /\ x.task = None
    BY <1>0, <2>1, MovedHandler
       DEF PlacedHandlers, Placed, Pcs, LeasedPcs, TaskPcs, ExitPcs, LaunchPcs, AnsweredPcs
  <2> HIDE DEF x
  <2>3. y = x \/ y = Leave(p, FALSE)
    OBVIOUS
  <2> HIDE DEF y
  <2>4. CASE y = x
    BY <1>1, <1>d, <2>1, <2>2, <2>4, ForgetfulStep DEF LaunchPcs, AnsweredPcs, CreatingHandler
  <2>5. CASE y = Leave(p, FALSE)
    BY <1>1, <1>d, <2>1, <2>5, LeavingStep
  <2>6. QED
    BY <2>3, <2>4, <2>5
<1>6. CASE RepairRead(o)
  <2> DEFINE x == [ p EXCEPT !.pc = "steal", !.status = RepairSource(sched) ]
  <2>1. ReadStore(o, {x}, Idle) /\ p.pc = "repairRead"
    BY <1>6 DEF RepairRead
  <2>2. RepairSource(sched) \in ScheduleUpdateStateType \cup {None}
    BY <1>0 DEF RepairSource, Schedules
  <2>3. x \in Handlers /\ x.pc = "steal" /\ x.task = p.task /\ x.status = RepairSource(sched)
    BY <1>0, <2>2 DEF Handlers, Pcs
  <2> HIDE DEF x
  <2>4. x \in PlacedHandlers
    BY <2>2, <2>3 DEF PlacedHandlers, Placed, TaskPcs, ExitPcs, LaunchPcs, AnsweredPcs
  <2>5. QED
    BY <1>1, <2>1, <2>3, <2>4, ForgetfulStep DEF LaunchPcs, AnsweredPcs, CreatingHandler
<1>7. CASE RepairFind(o)
  <2> DEFINE y == [ p EXCEPT !.pc = "repairCheck", !.task = sched.updateTaskPk ]
             x == CASE sched.repairState = SCHEDULE_STATE_ADD_TASK ->
                         IF sched.pasture THEN Leave(p, TRUE) ELSE y
                    [] sched.repairState \in { SCHEDULE_STATE_START_TASK, SCHEDULE_STATE_END_TASK,
                                               SCHEDULE_STATE_PASTURE } -> Exit(p, "abort")
                    [] OTHER -> Leave(p, TRUE)
  <2>1. ReadStore(o, {x}, Idle)
    BY <1>7 DEF RepairFind
  <2>2. y \in Handlers /\ y.pc = "repairCheck"
    BY <1>0 DEF Handlers, Pcs, LeasedPcs, Schedules
  <2> HIDE DEF y
  <2>3. y \in PlacedHandlers
    BY <2>2 DEF PlacedHandlers, Placed, TaskPcs, ExitPcs, LaunchPcs, AnsweredPcs
  <2>4. Stays(p, y) /\ LearnsNothing(o, y)
    BY <2>2 DEF Stays, LearnsNothing, LaunchPcs, BeforeStartPcs, LaunchedPcs, AnsweredPcs,
           CreatingHandler
  <2>5. x = y \/ x \in Departures
    BY <1>d
       DEF SCHEDULE_STATE_ADD_TASK, SCHEDULE_STATE_START_TASK, SCHEDULE_STATE_END_TASK,
           SCHEDULE_STATE_PASTURE
  <2> HIDE DEF x
  <2>6. CASE x = y
    BY <1>1, <2>1, <2>3, <2>4, <2>6, QuietStep
  <2>7. CASE x \in Departures
    BY <1>1, <2>1, <2>7, LeavingStep
  <2>8. QED
    BY <2>5, <2>6, <2>7
<1>8. CASE RepairCheck(o)
  <2> DEFINE x == IF p.task # None /\ TasksIn(TASK_STATE_PENDING) # {} THEN Leave(p, FALSE)
                  ELSE Exit(p, "abort")
  <2>1. ReadStore(o, {x}, Exit(p, "abort"))
    BY <1>8 DEF RepairCheck
  <2>2. x \in Departures
    BY <1>d
  <2> HIDE DEF x
  <2>3. QED
    BY <1>1, <1>d, <2>1, <2>2, LeavingStep
<1>9. QED
  BY <1>2, <1>3, <1>4, <1>5, <1>6, <1>7, <1>8

LEMMA UpdatesKeep ==
  ASSUME TypeInv, StartInv, NEW o \in Ops,
         \/ AddScheduledJob(o) \/ TakeLease(o) \/ ReleaseLease(o) \/ MarkNeedsRepair(o)
         \/ StealLease(o) \/ RepairAbort(o)
  PROVE  StartInv'
<1> DEFINE p == op[o]
<1>0. p \in Handlers /\ Placed(p) /\ sched \in Schedules
  BY DEF TypeInv, TypeOK, PlacedHandlers
<1>d. {Failed(p), Exit(p, "abort"), Leave(p, TRUE), Idle} \subseteq Departures \cup {Idle}
  BY <1>0, Departed DEF ExitPcs
<1>1. ASSUME NEW condition, NEW row, NEW accepted, NEW rejected,
             UpdateSchedule(o, condition, row, accepted, rejected)
      PROVE  /\ \E x \in accepted \cup {rejected} : Becomes(o, x)
             /\ UNCHANGED << tasks, job, notices, starts >>
  BY <1>1 DEF UpdateSchedule, Becomes
<1>2. CASE AddScheduledJob(o)
  <2> DEFINE x == [ p EXCEPT !.pc = "addTask" ]
             others == IF "invalid" \in NextActions THEN { Leave(p, TRUE) } ELSE {}
             accepted == {x} \cup others
  <2>1. PICK creation \in Creations, skip \in Skips :
          UpdateSchedule(o, TRUE, NewSchedule(creation, skip, p.task, o, p.now), accepted, Failed(p))
    BY <1>2 DEF AddScheduledJob
  <2>2. p.task \in Tasks /\ p.pc = "addSchedule"
    BY <1>0, <1>2 DEF AddScheduledJob, Placed, TaskPcs
  <2>3. x \in PlacedHandlers /\ x.pc = "addTask" /\ x.task = p.task
    BY <1>0, <2>2, MovedToTask, MovedHandler DEF Pcs, LeasedPcs
  <2> HIDE DEF x
  <2>4. Stays(p, x) /\ LearnsNothing(o, x)
    BY <2>2, <2>3
       DEF Stays, LearnsNothing, LaunchPcs, BeforeStartPcs, LaunchedPcs, AnsweredPcs,
           CreatingHandler
  <2>5. accepted \cup {Failed(p)} \subseteq {x} \cup Departures
    BY <1>d, IdleFields, Departed, <1>0
  <2> HIDE DEF accepted
  <2>6. /\ \E y \in accepted \cup {Failed(p)} : Becomes(o, y)
        /\ UNCHANGED << tasks, job, notices, starts >>
    BY <2>1 DEF UpdateSchedule, Becomes
  <2>7. QED
    BY <2>3, <2>4, <2>5, <2>6, QuietStep, LeavingStep
<1>3. CASE TakeLease(o)
  <2> DEFINE x == [ p EXCEPT !.pc = "read", !.attempt = 0, !.owed = 0 ]
             w == [ p EXCEPT !.attempt = @ + 1, !.wait = RetryDelays[p.attempt + 1] ]
  <2>1. UpdateSchedule(o, CanLease(sched), Lease(sched, p.kind, p.task, o, p.now), {x}, RetryLease(p))
        /\ p.pc = "lease"
    BY <1>3 DEF TakeLease
  <2>2. RetryLease(p) \in {w, Idle}
    BY DEF RetryLease
  <2>3. x.pc = "read" /\ x.task = p.task /\ w.pc = "lease" /\ w.task = p.task
    BY <1>0, <2>1 DEF Handlers
  <2> HIDE DEF x, w
  <2>4. PICK y \in {x, w, Idle} : Becomes(o, y) /\ UNCHANGED << tasks, job, notices, starts >>
    BY <1>1, <2>1, <2>2
  <2>5. op'[o] = y /\ op'[o] \in PlacedHandlers
    <3>1. TypeInv'
      BY <1>3, UpdateSteps
    <3>2. QED
      BY <2>4, <3>1 DEF TypeInv, Becomes
  <2>6. CASE y = Idle
    BY <2>4, <2>6, LeavingStep
  <2>7. CASE y # Idle
    <3>1. y \in PlacedHandlers /\ y.pc \in {"read", "lease"} /\ y.task = p.task
      BY <2>3, <2>4, <2>5, <2>7
    <3>2. QED
      BY <2>1, <2>4, <3>1, ForgetfulStep DEF LaunchPcs, AnsweredPcs, CreatingHandler
  <2>8. QED
    BY <2>6, <2>7
<1>4. CASE ReleaseLease(o)
  <2> DEFINE y == IF p.kind = SCHEDULE_STATE_REPAIR THEN Exit(p, "abort") ELSE Idle
  <2>1. UpdateSchedule(o, OwnsLease(sched, o), Release(sched, p.pasture), {Idle}, y)
    BY <1>4 DEF ReleaseLease
  <2>2. y \in Departures \cup {Idle}
    BY <1>d
  <2> HIDE DEF y
  <2>3. QED
    BY <1>1, <2>1, <2>2, LeavingStep
<1>5. CASE MarkNeedsRepair(o)
  BY <1>1, <1>5, LeavingStep DEF MarkNeedsRepair
<1>6. CASE StealLease(o)
  <2> DEFINE x == [ p EXCEPT !.pc = "repairFind", !.status = None ]
  <2>1. UpdateSchedule(o, CanSteal(sched, p.now), Steal(sched, p.status, o, p.now), {x}, Idle)
        /\ p.pc = "steal"
    BY <1>6 DEF StealLease
  <2>2. x \in Handlers /\ x.pc = "repairFind" /\ x.task = p.task
    BY <1>0 DEF Handlers, Pcs, LeasedPcs
  <2> HIDE DEF x
  <2>3. x \in PlacedHandlers
    BY <2>2 DEF PlacedHandlers, Placed, TaskPcs, ExitPcs, LaunchPcs, AnsweredPcs
  <2>4. Becomes(o, x) => StartInv'
    BY <1>1, <2>1, <2>2, <2>3, ForgetfulStep DEF LaunchPcs, AnsweredPcs, CreatingHandler
  <2>5. QED
    BY <1>1, <2>1, <2>4, LeavingStep
<1>7. CASE RepairAbort(o)
  BY <1>1, <1>7, LeavingStep DEF RepairAbort
<1>8. QED
  BY <1>2, <1>3, <1>4, <1>5, <1>6, <1>7

------------------------------------------------------------------------------
(* The steps that write a task's row.                                      *)

\* A handler records what became of its task, and leaves the launch.
Records(p, x) ==
  /\ x.pc \notin LaunchPcs /\ ~CreatingHandler(x)
  /\ x.task \in {None, p.task}
  /\ x.pc \in AnsweredPcs => x.task = p.task

LEMMA RecordStep ==
  ASSUME TypeInv, StartInv, NEW o \in Ops, NEW x \in PlacedHandlers, Becomes(o, x),
         op[o].pc \in LaunchPcs \cup AnsweredPcs \cup {"finish"},
         NEW state \in TaskStateType \ {TASK_STATE_PENDING, TASK_STATE_QUEUED},
         tasks' \in [Tasks -> TaskRows],
         \A t \in Tasks : t # op[o].task => tasks'[t] = tasks[t],
         tasks'[op[o].task].state \in {state, tasks[op[o].task].state},
         op[o].pc \in LaunchPcs \/ tasks[op[o].task].state # TASK_STATE_QUEUED
           \/ tasks' = tasks,
         Records(op[o], x),
         x.pc \in AnsweredPcs => tasks'[op[o].task].state = state,
         UNCHANGED << starts, job, notices >>
  PROVE  StartInv'
<1> DEFINE t == op[o].task
<1>0. /\ t \in Tasks /\ ~Creating(o)
      /\ op'[o] = x
      /\ \A q \in Ops : q # o => op'[q] = op[q]
  BY PlacedTask, BecomesPlaced
     DEF TypeInv, TaskPcs, Creating, CreatingHandler, LaunchPcs, AnsweredPcs
<1>1. tasks'[t].state = TASK_STATE_PENDING => tasks[t].state = TASK_STATE_PENDING
  OBVIOUS
<1>2. StartedOnce' /\ PendingNotStarted'
  BY <1>0, <1>1 DEF StartInv, StartedOnce, PendingNotStarted
<1>3. LaunchOwnsTask'
  <2> SUFFICES ASSUME NEW q \in Ops, op'[q].pc \in LaunchPcs
               PROVE  /\ tasks'[op'[q].task].state = TASK_STATE_QUEUED
                      /\ op'[q].pc \in BeforeStartPcs => starts'[op'[q].task] = 0
                      /\ op'[q].pc \in LaunchedPcs => starts'[op'[q].task] = 1
    BY DEF LaunchOwnsTask
  <2>1. q # o /\ op'[q] = op[q]
    BY <1>0 DEF Records
  <2>2. op[q].task # t \/ tasks' = tasks
    BY <2>1 DEF StartInv, OneLauncher, LaunchOwnsTask
  <2>3. op[q].task \in Tasks
    BY <2>1, PlacedTask DEF TaskPcs
  <2>4. QED
    BY <2>1, <2>2, <2>3 DEF StartInv, LaunchOwnsTask
<1>4. OneLauncher'
  BY <1>0 DEF StartInv, OneLauncher, Records
<1>5. AnsweredLeftQueue'
  <2> SUFFICES ASSUME NEW q \in Ops, op'[q].pc \in AnsweredPcs
               PROVE  tasks'[op'[q].task].state \notin {TASK_STATE_PENDING, TASK_STATE_QUEUED}
    BY DEF AnsweredLeftQueue
  <2>1. CASE q = o
    BY <1>0, <2>1 DEF Records
  <2>2. CASE q # o
    <3>1. op[q].task \in Tasks /\ op'[q] = op[q]
      BY <1>0, <2>2, PlacedTask DEF TaskPcs
    <3>2. tasks[op[q].task].state \notin {TASK_STATE_PENDING, TASK_STATE_QUEUED}
      BY <3>1 DEF StartInv, AnsweredLeftQueue
    <3>3. QED
      BY <3>1, <3>2
  <2>3. QED
    BY <2>1, <2>2
<1>6. FirstTaskIsFresh'
  <2> SUFFICES ASSUME NEW c \in Ops, Creating(c)'
               PROVE  /\ tasks'[op'[c].task].state = TASK_ABSENT
                      /\ notices'[op'[c].task] = 0
                      /\ job'[op'[c].task] # RunningReply
                      /\ \A q \in Ops : q # c /\ op'[q].task = op'[c].task
                                        => op'[q].pc = "repairCheck"
    BY DEF FirstTaskIsFresh
  <2>1. c # o /\ op'[c] = op[c] /\ Creating(c)
    BY <1>0 DEF Creating, Records
  <2>2. op[c].task \in Tasks /\ op[c].task # t
    BY <2>1, PlacedTask DEF StartInv, FirstTaskIsFresh, LaunchPcs, AnsweredPcs
  <2>3. x.task # op[c].task
    BY <2>2, NoneIsNone DEF Records
  <2>4. QED
    BY <1>0, <2>1, <2>2, <2>3 DEF StartInv, FirstTaskIsFresh
<1>7. QED
  BY <1>2, <1>3, <1>4, <1>5, <1>6 DEF StartInv

LEMMA DeparturesRecord ==
  ASSUME NEW p, NEW x \in Departures
  PROVE  /\ Records(p, x) /\ x \in PlacedHandlers
         /\ x.pc \notin LaunchPcs \cup AnsweredPcs
BY DEF Departures, Records, ExitPcs, LaunchPcs, AnsweredPcs, CreatingHandler

\* markTaskState, called by a handler that then departs.
LEMMA MarkRecords ==
  ASSUME TypeInv, StartInv, TypeInv', NEW o \in Ops,
         op[o].pc \in LaunchPcs \cup AnsweredPcs \cup {"finish"},
         NEW expected,
         NEW state \in TaskStateType \ {TASK_STATE_PENDING, TASK_STATE_QUEUED},
         NEW STATE accepted, NEW STATE rejected,
         accepted \subseteq Departures, rejected \in Departures,
         op[o].pc \in LaunchPcs \/ expected # TASK_STATE_QUEUED
           \/ tasks[op[o].task].state # TASK_STATE_QUEUED,
         MarkTask(o, expected, state, accepted, rejected)
  PROVE  StartInv'
<1> DEFINE t == op[o].task
           row == [tasks[t] EXCEPT !.state = state]
<1>0. t \in Tasks /\ tasks \in [Tasks -> TaskRows]
  BY PlacedTask DEF TypeInv, TypeOK, TaskPcs
<1>1. row.state = state
  BY <1>0 DEF TaskRows
<1>2. /\ UpdateTask(o, t, tasks[t].state = expected, row, accepted, rejected)
      /\ UNCHANGED << job, starts >>
  BY DEF MarkTask
<1> HIDE DEF row
<1>3. /\ \/ tasks' = tasks
         \/ tasks' = [tasks EXCEPT ![t] = row] /\ tasks[t].state = expected
      /\ \E x \in accepted \cup {rejected} : Becomes(o, x)
      /\ UNCHANGED << sched, notices, crashes >>
  BY <1>2 DEF UpdateTask, Becomes
<1>4. PICK x \in Departures : Becomes(o, x)
  BY <1>3
<1>5. /\ \A u \in Tasks : u # t => tasks'[u] = tasks[u]
      /\ tasks'[t].state \in {state, tasks[t].state}
      /\ op[o].pc \in LaunchPcs \/ tasks[t].state # TASK_STATE_QUEUED \/ tasks' = tasks
  BY <1>0, <1>1, <1>3
<1>6. tasks' \in [Tasks -> TaskRows]
  BY DEF TypeInv, TypeOK
<1>7. QED
  BY <1>2, <1>3, <1>4, <1>5, <1>6, RecordStep, DeparturesRecord

\* The result of an immediate answer, of a skip, of a failed start or of a
\* finish notice.
LEMMA MarksKeep ==
  ASSUME TypeInv, StartInv, TypeInv', NEW o \in Ops,
         \/ MarkTaskSkipped(o) \/ MarkTaskCompleted(o) \/ MarkTaskFailed(o)
         \/ MarkTaskStartFailed(o) \/ MarkTaskFinished(o)
  PROVE  StartInv'
<1> DEFINE p == op[o]
<1>0. p \in Handlers
  BY DEF TypeInv, TypeOK
<1>d. /\ Failed(p) \in Departures /\ Leave(p, FALSE) \in Departures
      /\ AfterStart(p) \subseteq Departures /\ AfterFinish(p) \subseteq Departures
      /\ AfterFailure(p) \subseteq Departures /\ AfterFailedStart(p) \subseteq Departures
  BY <1>0, Departed, FollowUpDeparts
<1>s. {TASK_STATE_COMPLETED, TASK_STATE_FAILED, TASK_STATE_START_ERROR, TASK_STATE_COMPLETE_ERROR}
        \subseteq TaskStateType \ {TASK_STATE_PENDING, TASK_STATE_QUEUED}
  BY DEF TaskStateType, TASK_STATE_COMPLETED, TASK_STATE_FAILED, TASK_STATE_START_ERROR,
         TASK_STATE_COMPLETE_ERROR, TASK_STATE_PENDING, TASK_STATE_QUEUED
<1>q. TASK_STATE_STARTED # TASK_STATE_QUEUED
  BY DEF TASK_STATE_STARTED, TASK_STATE_QUEUED
<1>1. CASE MarkTaskSkipped(o)
  <2>1. /\ MarkTask(o, TASK_STATE_QUEUED, TASK_STATE_COMPLETED, AfterStart(p), Failed(p))
        /\ p.pc \in LaunchPcs
    BY <1>1 DEF MarkTaskSkipped, LaunchPcs
  <2>2. QED
    BY <1>d, <1>s, <2>1, MarkRecords
<1>2. CASE MarkTaskCompleted(o)
  <2>1. /\ MarkTask(o, TASK_STATE_STARTED, TASK_STATE_COMPLETED, AfterStart(p), Failed(p))
        /\ p.pc \in AnsweredPcs
    BY <1>2 DEF MarkTaskCompleted, AnsweredPcs
  <2>2. QED
    BY <1>d, <1>s, <1>q, <2>1, MarkRecords
<1>3. CASE MarkTaskFailed(o)
  <2>1. /\ MarkTask(o, TASK_STATE_QUEUED, TASK_STATE_FAILED, AfterFailedStart(p), Failed(p))
        /\ p.pc \in AnsweredPcs
    BY <1>3 DEF MarkTaskFailed, AnsweredPcs
  <2>2. tasks[p.task].state # TASK_STATE_QUEUED
    BY <2>1 DEF StartInv, AnsweredLeftQueue
  <2>3. QED
    BY <1>d, <1>s, <2>1, <2>2, MarkRecords
<1>4. CASE MarkTaskStartFailed(o)
  <2> DEFINE x == IF p.status = "rejected" THEN Failed(p) ELSE Leave(p, FALSE)
  <2>1. /\ MarkTask(o, TASK_STATE_QUEUED, TASK_STATE_START_ERROR, {x}, Failed(p))
        /\ p.pc \in LaunchPcs
    BY <1>4 DEF MarkTaskStartFailed, LaunchPcs
  <2>2. {x} \subseteq Departures
    BY <1>d
  <2> HIDE DEF x
  <2>3. QED
    BY <1>d, <1>s, <2>1, <2>2, MarkRecords
<1>5. CASE MarkTaskFinished(o)
  <2>0. p.pc = "finish"
    BY <1>5 DEF MarkTaskFinished
  <2>1. CASE MarkTask(o, TASK_STATE_STARTED, TASK_STATE_COMPLETED, AfterFinish(p), Failed(p))
    BY <1>d, <1>s, <1>q, <2>0, <2>1, MarkRecords
  <2>2. CASE MarkTask(o, TASK_STATE_STARTED, TASK_STATE_COMPLETE_ERROR, AfterFailure(p), Failed(p))
    BY <1>d, <1>s, <1>q, <2>0, <2>2, MarkRecords
  <2>3. CASE Becomes(o, Failed(p)) /\ UNCHANGED << tasks, job, notices, starts >>
    BY <1>d, <2>3, LeavingStep
  <2>4. QED
    BY <1>5, <2>1, <2>2, <2>3 DEF MarkTaskFinished, Becomes
<1>6. QED
  BY <1>1, <1>2, <1>3, <1>4, <1>5

\* markTaskStarted: a handler that goes on to record an immediate result has
\* seen its task go to STARTED.
LEMMA MarkStartedKeeps ==
  ASSUME TypeInv, StartInv, TypeInv', NEW o \in Ops, MarkTaskStarted(o)
  PROVE  StartInv'
<1> DEFINE p == op[o]
           t == p.task
           row == [tasks[t] EXCEPT !.state = TASK_STATE_STARTED, !.jobId = TRUE]
           accepted == CASE p.status = "running"   -> AfterStart(p)
                         [] p.status = "completed" -> { [ p EXCEPT !.pc = "markCompleted" ] }
                         [] p.status = "failed"    -> { [ p EXCEPT !.pc = "markFailed" ] }
           rejected == Failed(p)
<1>0. /\ p \in Handlers /\ p.pc = "markStarted" /\ p.pc \in LaunchPcs /\ t \in Tasks
      /\ p.status \in {"running", "completed", "failed"}
      /\ tasks \in [Tasks -> TaskRows]
  BY DEF TypeInv, TypeOK, PlacedHandlers, MarkTaskStarted, Placed, TaskPcs, LaunchPcs
<1>1. /\ UpdateTask(o, t, tasks[t].state = TASK_STATE_QUEUED, row, accepted, rejected)
      /\ UNCHANGED << job, starts >>
  BY DEF MarkTaskStarted
<1>2. row.state = TASK_STATE_STARTED
  BY <1>0 DEF TaskRows
<1>3. /\ \A x \in accepted : x \in PlacedHandlers /\ Records(p, x)
      /\ rejected \in Departures
  <2>1. ASSUME NEW pc \in AnsweredPcs
        PROVE  /\ [ p EXCEPT !.pc = pc ] \in PlacedHandlers
               /\ Records(p, [ p EXCEPT !.pc = pc ])
    <3> DEFINE x == [ p EXCEPT !.pc = pc ]
    <3>1. x.pc = pc /\ x.task = t /\ x \in PlacedHandlers
      BY <1>0, MovedHandler, MovedToTask DEF AnsweredPcs, Pcs, LeasedPcs
    <3> HIDE DEF x
    <3>2. Records(p, x)
      BY <3>1 DEF Records, AnsweredPcs, LaunchPcs, CreatingHandler
    <3>3. QED
      BY <3>1, <3>2 DEF x
  <2>2. CASE p.status = "running"
    BY <1>0, <2>2, FollowUpDeparts, DeparturesRecord, Departed
  <2>3. CASE p.status = "completed"
    BY <1>0, <2>1, <2>3, Departed DEF AnsweredPcs
  <2>4. CASE p.status = "failed"
    BY <1>0, <2>1, <2>4, Departed DEF AnsweredPcs
  <2>5. QED
    BY <1>0, <2>2, <2>3, <2>4
<1> HIDE DEF row, accepted, rejected
<1>4. /\ \/ tasks' = tasks
         \/ tasks' = [tasks EXCEPT ![t] = row]
      /\ \/ \E x \in accepted : Becomes(o, x) /\ tasks' = [tasks EXCEPT ![t] = row]
         \/ Becomes(o, rejected)
      /\ UNCHANGED << sched, notices, crashes >>
  BY <1>1 DEF UpdateTask, Becomes
<1>5. /\ \A u \in Tasks : u # t => tasks'[u] = tasks[u]
      /\ tasks'[t].state \in {TASK_STATE_STARTED, tasks[t].state}
      /\ tasks' = [tasks EXCEPT ![t] = row] => tasks'[t].state = TASK_STATE_STARTED
  BY <1>0, <1>2, <1>4
<1>6. tasks' \in [Tasks -> TaskRows]
  BY DEF TypeInv, TypeOK
<1>7. TASK_STATE_STARTED \in TaskStateType \ {TASK_STATE_PENDING, TASK_STATE_QUEUED}
  BY DEF TaskStateType, TASK_STATE_STARTED, TASK_STATE_PENDING, TASK_STATE_QUEUED
<1>8. PICK x \in PlacedHandlers :
        /\ Becomes(o, x) /\ Records(p, x)
        /\ x.pc \in AnsweredPcs => tasks'[t].state = TASK_STATE_STARTED
  BY <1>3, <1>4, <1>5, DeparturesRecord
<1>9. QED
  BY <1>0, <1>1, <1>4, <1>5, <1>6, <1>7, <1>8, RecordStep

\* markTaskQueued: the one step that enters the launch.  It needs the task
\* PENDING, and every handler in the launch has its task QUEUED.
LEMMA MarkQueuedKeeps ==
  ASSUME TypeInv, StartInv, TypeInv', NEW o \in Ops, MarkTaskQueued(o)
  PROVE  StartInv'
<1> DEFINE p == op[o]
           t == p.task
           x == [ p EXCEPT !.pc = "dupCheck" ]
           row == [tasks[t] EXCEPT !.state = TASK_STATE_QUEUED]
           rejected == Failed(p)
<1>0. /\ p \in Handlers /\ p.pc = "queue" /\ t \in Tasks /\ tasks \in [Tasks -> TaskRows]
      /\ ~Creating(o)
  BY DEF TypeInv, TypeOK, PlacedHandlers, MarkTaskQueued, Placed, TaskPcs, Creating,
         CreatingHandler
<1>1. /\ UpdateTask(o, t, tasks[t].state = TASK_STATE_PENDING, row, {x}, rejected)
      /\ UNCHANGED << job, starts >>
  BY DEF MarkTaskQueued, MarkTask
<1>2. row.state = TASK_STATE_QUEUED
  BY <1>0 DEF TaskRows
<1>3. x \in PlacedHandlers /\ x.pc = "dupCheck" /\ x.task = t
  BY <1>0, MovedHandler, MovedToTask DEF Pcs, LeasedPcs
<1>4. rejected \in Departures
  BY <1>0, Departed
<1> HIDE DEF x, row, rejected
<1>5. /\ \/ tasks' = tasks
         \/ tasks' = [tasks EXCEPT ![t] = row] /\ tasks[t].state = TASK_STATE_PENDING
      /\ \/ Becomes(o, x) /\ tasks' = [tasks EXCEPT ![t] = row]
            /\ tasks[t].state = TASK_STATE_PENDING
         \/ Becomes(o, rejected)
      /\ UNCHANGED << sched, notices, crashes >>
  BY <1>1 DEF UpdateTask, Becomes
<1>6. CASE tasks' = tasks /\ Becomes(o, rejected)
  BY <1>1, <1>4, <1>5, <1>6, LeavingStep
<1>7. CASE tasks' = [tasks EXCEPT ![t] = row] /\ tasks[t].state = TASK_STATE_PENDING
  <2>1. PICK y \in {x} \cup Departures : Becomes(o, y)
    BY <1>4, <1>5
  <2>2. /\ op'[o] = y
        /\ \A q \in Ops : q # o => op'[q] = op[q]
        /\ (y.pc = "dupCheck" /\ y.task = t) \/ y \in Departures
    BY <1>3, <2>1, BecomesPlaced DEF TypeInv, Departures
  <2>3. /\ tasks'[t].state = TASK_STATE_QUEUED
        /\ \A u \in Tasks : u # t => tasks'[u] = tasks[u]
    BY <1>0, <1>2, <1>7
  <2>4. starts[t] = 0
    BY <1>0, <1>7 DEF StartInv, PendingNotStarted
  <2>5. /\ y.pc \in LaunchPcs => y.task = t
        /\ y.pc \notin LaunchedPcs \cup AnsweredPcs
        /\ ~CreatingHandler(y) /\ y.task \in {None, t}
    BY <2>2, DeparturesRecord
       DEF Records, LaunchPcs, LaunchedPcs, AnsweredPcs, CreatingHandler, Departures, ExitPcs
  <2>q. /\ TASK_STATE_QUEUED # TASK_STATE_PENDING
        /\ TASK_ABSENT \notin {TASK_STATE_PENDING, TASK_STATE_QUEUED}
    BY DEF TASK_STATE_QUEUED, TASK_STATE_PENDING, TASK_ABSENT
  <2>6. \A q \in Ops : op[q].pc \in LaunchPcs => op[q].task \in Tasks /\ op[q].task # t
    BY <1>7, <2>q, PlacedTask DEF StartInv, LaunchOwnsTask, TaskPcs
  <2>7. StartedOnce' /\ PendingNotStarted'
    BY <1>1, <2>3, <2>q DEF StartInv, StartedOnce, PendingNotStarted
  <2>8. LaunchOwnsTask'
    BY <1>1, <2>2, <2>3, <2>4, <2>5, <2>6 DEF StartInv, LaunchOwnsTask
  <2>9. OneLauncher'
    BY <2>2, <2>5, <2>6 DEF StartInv, OneLauncher
  <2>10. AnsweredLeftQueue'
    BY <1>7, <2>2, <2>3, <2>5, PlacedTask DEF StartInv, AnsweredLeftQueue, TaskPcs
  <2>11. FirstTaskIsFresh'
    <3> SUFFICES ASSUME NEW c \in Ops, Creating(c)'
                 PROVE  /\ tasks'[op'[c].task].state = TASK_ABSENT
                        /\ notices'[op'[c].task] = 0
                        /\ job'[op'[c].task] # RunningReply
                        /\ \A q \in Ops : q # c /\ op'[q].task = op'[c].task
                                          => op'[q].pc = "repairCheck"
      BY DEF FirstTaskIsFresh
    <3>1. c # o /\ op'[c] = op[c] /\ Creating(c)
      BY <2>2, <2>5 DEF Creating
    <3>2. op[c].task \in Tasks /\ op[c].task # t
      BY <1>7, <2>q, <3>1, PlacedTask DEF StartInv, FirstTaskIsFresh
    <3>3. y.task # op[c].task
      BY <2>5, <3>2, NoneIsNone
    <3>4. QED
      BY <1>1, <1>5, <2>2, <2>3, <3>1, <3>2, <3>3 DEF StartInv, FirstTaskIsFresh
  <2>12. QED
    BY <2>7, <2>8, <2>9, <2>10, <2>11 DEF StartInv
<1>8. QED
  BY <1>5, <1>6, <1>7

\* startJob: the only step that counts a start, made by the one handler that
\* has the task QUEUED and not started.
LEMMA StartJobKeeps ==
  ASSUME TypeInv, StartInv, NEW o \in Ops, StartJob(o)
  PROVE  StartInv'
<1> DEFINE p == op[o]
           t == p.task
<1>0. /\ p \in Handlers /\ p.pc = "startJob" /\ t \in Tasks
      /\ job \in [Tasks -> JobReplies \cup {"none"}] /\ starts \in [Tasks -> Nat]
      /\ op \in [Ops -> Handlers]
  BY DEF TypeInv, TypeOK, PlacedHandlers, StartJob, Placed, TaskPcs, LaunchPcs
<1>1. /\ tasks[t].state = TASK_STATE_QUEUED /\ starts[t] = 0
  BY <1>0 DEF StartInv, LaunchOwnsTask, LaunchPcs, BeforeStartPcs
<1>2. /\ starts'[t] = 1
      /\ \A u \in Tasks : u # t => starts'[u] = starts[u] /\ job'[u] = job[u]
      /\ UNCHANGED << sched, tasks, notices >>
  BY <1>0, <1>1 DEF StartJob
<1>3. /\ \A q \in Ops : q # o => op'[q] = op[q]
      /\ (op'[o].pc \in {"markStarted", "markStartFailed"} /\ op'[o].task = t)
           \/ op'[o] = Failed(p)
  <2>1. PICK reply \in Responses :
          op' = [op EXCEPT ![o] =
                  CASE reply \in {"running", "completed", "failed"} ->
                         [ p EXCEPT !.pc = "markStarted", !.status = reply ]
                    [] reply \in {"did-not-start", "rejected"} ->
                         [ p EXCEPT !.pc = "markStartFailed", !.status = reply ]
                    [] reply = "unknown" -> Failed(p) ]
    BY DEF StartJob
  <2>2. reply \in JobReplies
    BY ConstantTypes
  <2>3. \A pc : /\ [ p EXCEPT !.pc = pc, !.status = reply ].pc = pc
                /\ [ p EXCEPT !.pc = pc, !.status = reply ].task = t
    BY <1>0 DEF Handlers
  <2>4. CASE reply \in {"running", "completed", "failed"}
    BY <1>0, <2>1, <2>3, <2>4
  <2>5. CASE reply \in {"did-not-start", "rejected"}
    BY <1>0, <2>1, <2>3, <2>5
  <2>6. CASE reply = "unknown"
    BY <1>0, <2>1, <2>6
  <2>7. QED
    BY <2>2, <2>4, <2>5, <2>6 DEF JobReplies
<1>4. /\ op'[o].task \in {None, t} /\ ~CreatingHandler(op'[o])
      /\ op'[o].pc \notin BeforeStartPcs \cup AnsweredPcs
      /\ op'[o].pc \in LaunchPcs => op'[o].task = t
  BY <1>0, <1>3, FailedType DEF BeforeStartPcs, LaunchPcs, AnsweredPcs, CreatingHandler
<1>q. /\ TASK_STATE_QUEUED # TASK_STATE_PENDING /\ TASK_ABSENT # TASK_STATE_QUEUED
  BY DEF TASK_STATE_QUEUED, TASK_STATE_PENDING, TASK_ABSENT
<1>5. \A q \in Ops : q # o /\ op[q].pc \in LaunchPcs => op[q].task # t /\ op[q].task \in Tasks
  BY <1>0, PlacedTask DEF StartInv, OneLauncher, LaunchPcs, TaskPcs
<1>6. StartedOnce' /\ PendingNotStarted'
  BY <1>1, <1>2, <1>q DEF StartInv, StartedOnce, PendingNotStarted
<1>7. LaunchOwnsTask'
  BY <1>1, <1>2, <1>3, <1>4, <1>5 DEF StartInv, LaunchOwnsTask
<1>8. OneLauncher'
  BY <1>3, <1>4, <1>5 DEF StartInv, OneLauncher
<1>9. AnsweredLeftQueue'
  BY <1>2, <1>3, <1>4 DEF StartInv, AnsweredLeftQueue
<1>10. FirstTaskIsFresh'
  <2> SUFFICES ASSUME NEW c \in Ops, Creating(c)'
               PROVE  /\ tasks'[op'[c].task].state = TASK_ABSENT
                      /\ notices'[op'[c].task] = 0
                      /\ job'[op'[c].task] # RunningReply
                      /\ \A q \in Ops : q # c /\ op'[q].task = op'[c].task
                                        => op'[q].pc = "repairCheck"
    BY DEF FirstTaskIsFresh
  <2>1. c # o /\ op'[c] = op[c] /\ Creating(c)
    BY <1>3, <1>4 DEF Creating
  <2>2. op[c].task \in Tasks /\ op[c].task # t
    BY <1>1, <1>q, <2>1, PlacedTask DEF StartInv, FirstTaskIsFresh
  <2>3. op'[o].task # op[c].task
    BY <1>4, <2>2, NoneIsNone
  <2>4. QED
    BY <1>2, <1>3, <2>1, <2>2, <2>3 DEF StartInv, FirstTaskIsFresh
<1>11. QED
  BY <1>6, <1>7, <1>8, <1>9, <1>10 DEF StartInv

\* addTask: nothing in the system refers to the new row's name but the handler
\* that draws it, or the creation whose first task it is.
LEMMA AddTaskKeeps ==
  ASSUME TypeInv, StartInv, NEW o \in Ops, AddTask(o)
  PROVE  StartInv'
<1> DEFINE p == op[o]
<1>0. /\ p \in Handlers /\ p.pc = "addTask" /\ op \in [Ops -> Handlers]
      /\ job \in [Tasks -> JobReplies \cup {"none"}] /\ starts \in [Tasks -> Nat]
      /\ tasks \in [Tasks -> TaskRows]
  BY DEF TypeInv, TypeOK, AddTask
<1> DEFINE row == [ state |-> TASK_STATE_PENDING, executeAt |-> p.now + p.delay, jobId |-> FALSE ]
           accepted == { Leave(p, FALSE) }
           rejected == Failed(p)
<1>1. PICK t \in Tasks :
        /\ IF p.task # None THEN t = p.task ELSE Unused(t)
        /\ UpdateTask(o, t, TRUE, row, accepted, rejected)
        /\ job' = [job EXCEPT ![t] = "none"]
        /\ starts' = [starts EXCEPT ![t] = 0]
  BY DEF AddTask
<1>2. accepted \cup {rejected} \subseteq Departures
  BY <1>0, Departed
<1> HIDE DEF row, accepted, rejected
<1>3. /\ tasks' \in { tasks, [tasks EXCEPT ![t] = row] }
      /\ \E x \in Departures : Becomes(o, x)
      /\ UNCHANGED << sched, notices, crashes >>
  BY <1>1, <1>2 DEF UpdateTask, Becomes
<1>4. /\ op'[o].task = None /\ ~CreatingHandler(op'[o])
      /\ op'[o].pc \notin LaunchPcs \cup AnsweredPcs
      /\ \A q \in Ops : q # o => op'[q] = op[q]
  BY <1>0, <1>3 DEF Becomes, Departures, ExitPcs, LaunchPcs, AnsweredPcs, CreatingHandler
<1>5. /\ starts'[t] = 0 /\ job'[t] = "none"
      /\ \A u \in Tasks : u # t =>
           starts'[u] = starts[u] /\ job'[u] = job[u] /\ tasks'[u] = tasks[u]
  BY <1>0, <1>1, <1>3
<1>6. \A q \in Ops : q # o /\ op[q].task = t => op[q].pc = "repairCheck"
  BY <1>0, <1>1 DEF StartInv, FirstTaskIsFresh, Unused, Creating, CreatingHandler
<1>7. \A q \in Ops : q # o /\ op[q].pc \in LaunchPcs \cup AnsweredPcs =>
        op[q].task # t /\ op[q].task \in Tasks
  BY <1>6, PlacedTask DEF LaunchPcs, AnsweredPcs, TaskPcs
<1>8. StartedOnce' /\ PendingNotStarted'
  BY <1>5 DEF StartInv, StartedOnce, PendingNotStarted
<1>9. LaunchOwnsTask'
  BY <1>4, <1>5, <1>7 DEF StartInv, LaunchOwnsTask
<1>10. OneLauncher'
  BY <1>4 DEF StartInv, OneLauncher
<1>11. AnsweredLeftQueue'
  BY <1>4, <1>5, <1>7 DEF StartInv, AnsweredLeftQueue
<1>12. FirstTaskIsFresh'
  <2> SUFFICES ASSUME NEW c \in Ops, Creating(c)'
               PROVE  /\ tasks'[op'[c].task].state = TASK_ABSENT
                      /\ notices'[op'[c].task] = 0
                      /\ job'[op'[c].task] # RunningReply
                      /\ \A q \in Ops : q # c /\ op'[q].task = op'[c].task
                                        => op'[q].pc = "repairCheck"
    BY DEF FirstTaskIsFresh
  <2>1. c # o /\ op'[c] = op[c] /\ Creating(c)
    BY <1>4 DEF Creating
  <2>2. op[c].task \in Tasks /\ op[c].task # t
    BY <1>6, <2>1, PlacedTask DEF Creating, CreatingHandler
  <2>3. op'[o].task # op[c].task
    BY <1>4, <2>2, NoneIsNone
  <2>4. QED
    BY <1>3, <1>4, <1>5, <2>1, <2>2, <2>3 DEF StartInv, FirstTaskIsFresh
<1>13. QED
  BY <1>8, <1>9, <1>10, <1>11, <1>12 DEF StartInv

\* createScheduledJob draws a name that nothing refers to.
LEMMA CreateKeeps ==
  ASSUME TypeInv, StartInv, NEW o \in Ops, CreateScheduledJob(o)
  PROVE  StartInv'
<1>1. PICK t \in Tasks :
        /\ Unused(t)
        /\ op' = [op EXCEPT ![o] =
             [ Handler("addSchedule", SCHEDULE_STATE_ADD_TASK, t, None) EXCEPT !.owed = 0 ]]
  BY DEF CreateScheduledJob
<1> DEFINE g == Handler("addSchedule", SCHEDULE_STATE_ADD_TASK, t, None)
           h == [ g EXCEPT !.owed = 0 ]
<1>2. g \in PlacedHandlers /\ g.pc = "addSchedule" /\ g.task = t
  BY HandlerPlaced, NoneIsNone DEF ScheduleUpdateStateType
<1>3. Becomes(o, h)
  BY <1>1 DEF Becomes
<1> HIDE DEF g
<1>4. h \in PlacedHandlers /\ h.pc = "addSchedule" /\ h.task = t
  BY <1>2, UnhurriedHandler
<1> HIDE DEF h
<1>5. /\ op'[o] = h
      /\ \A q \in Ops : q # o => op'[q] = op[q]
      /\ \A q \in Ops : op[q].task # t
      /\ tasks[t].state = TASK_ABSENT /\ notices[t] = 0 /\ job[t] # RunningReply
      /\ UNCHANGED << tasks, job, notices, starts >>
  BY <1>1, <1>3, <1>4, BecomesPlaced DEF TypeInv, Unused, CreateScheduledJob
<1>6. h.pc \notin LaunchPcs \cup AnsweredPcs
  BY <1>4 DEF LaunchPcs, AnsweredPcs
<1>7. StartedOnce' /\ PendingNotStarted' /\ LaunchOwnsTask' /\ OneLauncher' /\ AnsweredLeftQueue'
  BY <1>5, <1>6
     DEF StartInv, StartedOnce, PendingNotStarted, LaunchOwnsTask, OneLauncher, AnsweredLeftQueue
<1>8. FirstTaskIsFresh'
  BY <1>4, <1>5 DEF StartInv, FirstTaskIsFresh, Creating
<1>9. QED
  BY <1>7, <1>8 DEF StartInv

LEMMA CrashKeeps ==
  ASSUME TypeInv, StartInv, NEW o \in Ops, Crash(o)
  PROVE  StartInv'
BY LeavingStep DEF Crash, Becomes

\* The end of a job touches no task that is not running.
LEMMA JobFinishesKeeps ==
  ASSUME TypeInv, StartInv, NEW t \in Tasks, JobFinishes(t)
  PROVE  StartInv'
<1>1. /\ \A u \in Tasks : u # t => job'[u] = job[u] /\ notices'[u] = notices[u]
      /\ job[t] = RunningReply
      /\ UNCHANGED << tasks, op, starts >>
  BY DEF JobFinishes, TypeInv, TypeOK
<1>2. \A c \in Ops : Creating(c) => op[c].task \in Tasks /\ op[c].task # t
  BY <1>1, PlacedTask DEF StartInv, FirstTaskIsFresh
<1>3. FirstTaskIsFresh'
  BY <1>1, <1>2 DEF StartInv, FirstTaskIsFresh, Creating
<1>4. QED
  BY <1>1, <1>3
     DEF StartInv, StartedOnce, PendingNotStarted, LaunchOwnsTask, OneLauncher, AnsweredLeftQueue

\* A task that is deleted was finished, so that no launch is under way for it.
LEMMA DeleteKeeps ==
  ASSUME TypeInv, StartInv, NEW t \in Tasks, DeleteFinishedTask(t)
  PROVE  StartInv'
<1>0. /\ tasks \in [Tasks -> TaskRows] /\ starts \in [Tasks -> Nat]
      /\ job \in [Tasks -> JobReplies \cup {"none"}]
  BY DEF TypeInv, TypeOK
<1>1. /\ tasks'[t].state = TASK_ABSENT /\ starts'[t] = 0
      /\ job'[t] \in {"none", job[t]}
      /\ \A u \in Tasks : u # t =>
           tasks'[u] = tasks[u] /\ starts'[u] = starts[u] /\ job'[u] = job[u]
      /\ UNCHANGED << op, notices >>
  BY <1>0 DEF DeleteFinishedTask, NoTask
<1>q. TASK_ABSENT \notin {TASK_STATE_PENDING, TASK_STATE_QUEUED} \cup FinishedTaskStates
      /\ TASK_STATE_QUEUED \notin FinishedTaskStates
  BY DEF TASK_ABSENT, TASK_STATE_PENDING, TASK_STATE_QUEUED, FinishedTaskStates,
         TASK_STATE_COMPLETE_ERROR, TASK_STATE_FAILED, TASK_STATE_START_ERROR,
         TASK_STATE_COMPLETED
<1>2. tasks[t].state \in FinishedTaskStates
  BY DEF DeleteFinishedTask
<1>3. \A q \in Ops : op[q].pc \in LaunchPcs => op[q].task \in Tasks /\ op[q].task # t
  BY <1>2, <1>q, PlacedTask DEF StartInv, LaunchOwnsTask, TaskPcs
<1>4. \A c \in Ops : Creating(c) => op[c].task \in Tasks /\ op[c].task # t
  BY <1>2, <1>q, PlacedTask DEF StartInv, FirstTaskIsFresh
<1>5. StartedOnce' /\ PendingNotStarted'
  BY <1>1, <1>q DEF StartInv, StartedOnce, PendingNotStarted
<1>6. LaunchOwnsTask' /\ OneLauncher'
  BY <1>1, <1>3 DEF StartInv, LaunchOwnsTask, OneLauncher
<1>7. AnsweredLeftQueue'
  BY <1>1, <1>q, PlacedTask DEF StartInv, AnsweredLeftQueue, TaskPcs
<1>8. FirstTaskIsFresh'
  BY <1>1, <1>4 DEF StartInv, FirstTaskIsFresh, Creating
<1>9. QED
  BY <1>5, <1>6, <1>7, <1>8 DEF StartInv

\* The clock changes dates only.
LEMMA TickKeeps ==
  ASSUME TypeInv, StartInv, Tick
  PROVE  StartInv'
<1>1. \A t \in Tasks : tasks'[t].state = tasks[t].state
  BY DEF Tick, TypeInv, TypeOK, TaskRows
<1>2. \A o \in Ops : op'[o].pc = op[o].pc /\ op'[o].task = op[o].task
  BY DEF Tick, Aged, TypeInv, TypeOK, Handlers
<1>3. UNCHANGED << job, notices, starts >>
  BY DEF Tick
<1>4. \A o \in Ops : Creating(o)' <=> Creating(o)
  BY <1>2 DEF Creating, CreatingHandler
<1>5. \A o \in Ops : Creating(o) => op[o].task \in Tasks
  BY PlacedTask
<1>6. StartedOnce' /\ PendingNotStarted'
  BY <1>1, <1>3 DEF StartInv, StartedOnce, PendingNotStarted
<1>7. LaunchOwnsTask' /\ OneLauncher' /\ AnsweredLeftQueue'
  BY <1>1, <1>2, <1>3, PlacedTask DEF StartInv, LaunchOwnsTask, OneLauncher, AnsweredLeftQueue, TaskPcs
<1>8. FirstTaskIsFresh'
  BY <1>1, <1>2, <1>3, <1>4, <1>5 DEF StartInv, FirstTaskIsFresh
<1>9. QED
  BY <1>6, <1>7, <1>8 DEF StartInv

------------------------------------------------------------------------------
LEMMA StartInvStep == TypeInv /\ TypeInv' /\ StartInv /\ [Next]_vars => StartInv'
<1> SUFFICES ASSUME TypeInv, TypeInv', StartInv, [Next]_vars PROVE StartInv'
  OBVIOUS
<1>1. CASE Tick
  BY <1>1, TickKeeps
<1>2. ASSUME NEW o \in Ops,
             \/ CreateScheduledJob(o) \/ Disable(o) \/ PollExpired(o)
             \/ \E t \in Tasks : PollTask(o, t) \/ FinishNotice(o, t)
      PROVE  StartInv'
  BY <1>2, BeginKeeps, CreateKeeps
<1>3. ASSUME NEW o \in Ops, Step(o) PROVE StartInv'
  BY <1>3, ReadsKeep, UpdatesKeep, MarksKeep, MarkStartedKeeps, MarkQueuedKeeps, StartJobKeeps,
     AddTaskKeeps
     DEF Step, InLease, StartTask, AddFollowUp, Repair
<1>4. ASSUME NEW o \in Ops, Crash(o) PROVE StartInv'
  BY <1>4, CrashKeeps
<1>5. ASSUME NEW t \in Tasks, JobFinishes(t) \/ DeleteFinishedTask(t) PROVE StartInv'
  BY <1>5, JobFinishesKeeps, DeleteKeeps
<1>6. CASE UNCHANGED vars
  BY <1>6 DEF vars, StartInv, StartedOnce, PendingNotStarted, LaunchOwnsTask, OneLauncher,
              AnsweredLeftQueue, FirstTaskIsFresh, Creating
<1>7. QED
  BY <1>1, <1>2, <1>3, <1>4, <1>5, <1>6 DEF Next

\* startJob is called at most once for a task, however many instances poll it,
\* whatever fails or dies, and whether or not a lease was overtaken
\* (controller/combined.ts startTask).
THEOREM StartsOnce == Spec => []StartedOnce
<1>1. Spec => []TypeInv
  BY TypeInvInitially, TypeInvStep, PTL DEF Spec
<1>2. StartInv => StartedOnce
  BY DEF StartInv
<1>3. QED
  BY <1>1, <1>2, StartInvInitially, StartInvStep, PTL DEF Spec

------------------------------------------------------------------------------
(* A finished task records what became of its job *)

\* What the row of a task, its job and its notices say of each other.
TaskRecord(row, result, copies) ==
  /\ row.state = TASK_STATE_PENDING => result = "none"
  /\ row.state \in {TASK_STATE_PENDING, TASK_STATE_QUEUED} => ~row.jobId
  /\ copies > 0 /\ row.state # TASK_ABSENT => result \in JobResults
  /\ row.state = TASK_STATE_COMPLETE_ERROR => result = "failed"
  /\ row.state = TASK_STATE_COMPLETED /\ row.jobId => result = "completed"
  /\ result = RunningReply => row.state \in {TASK_STATE_QUEUED, TASK_STATE_STARTED}

\* Where a handler holds no job, and where it holds the result of one.
JoblessPcs == { "dupCheck", "startJob", "markSkipped", "markStartFailed" }

LaunchBelief(p, jobs, rows) ==
  /\ p.pc \in JoblessPcs => jobs[p.task] = "none"
  /\ p.pc = "markStarted" =>
       jobs[p.task] = p.status \/ (p.status = RunningReply /\ jobs[p.task] \in JobResults)
  /\ p.pc = "markCompleted" /\ rows[p.task].state # TASK_ABSENT => jobs[p.task] = "completed"

\* The way of a finish notice from its arrival to the task's row.
Finishing(p) ==
  \/ p.pc = "finish"
  \/ p.pc \in {"lookup", "lease", "read"} /\ p.kind = SCHEDULE_STATE_END_TASK

FinishBelief(p, jobs, rows) ==
  Finishing(p) /\ rows[p.task].state # TASK_ABSENT =>
    p.status \in JobResults /\ jobs[p.task] = p.status

TasksRecorded == \A t \in Tasks : TaskRecord(tasks[t], job[t], notices[t])
Beliefs == \A o \in Ops : LaunchBelief(op[o], job, tasks) /\ FinishBelief(op[o], job, tasks)

RecordInv == TasksRecorded /\ Beliefs

LEMMA StatesDiffer ==
  /\ TASK_STATE_PENDING # TASK_STATE_QUEUED
  /\ TASK_STATE_PENDING \notin FinishedTaskStates \cup {TASK_ABSENT, TASK_STATE_STARTED}
  /\ TASK_STATE_QUEUED \notin FinishedTaskStates \cup {TASK_ABSENT, TASK_STATE_STARTED}
  /\ TASK_STATE_STARTED \notin FinishedTaskStates \cup {TASK_ABSENT}
  /\ TASK_ABSENT \notin FinishedTaskStates
  /\ TASK_STATE_COMPLETED \in FinishedTaskStates
  /\ TASK_STATE_COMPLETE_ERROR \in FinishedTaskStates
  /\ TASK_STATE_FAILED \in FinishedTaskStates
  /\ TASK_STATE_START_ERROR \in FinishedTaskStates
  /\ TASK_STATE_START_ERROR \notin {TASK_STATE_COMPLETED, TASK_STATE_COMPLETE_ERROR}
  /\ TASK_STATE_COMPLETED # TASK_STATE_COMPLETE_ERROR
BY DEF FinishedTaskStates, TASK_ABSENT, TASK_STATE_PENDING, TASK_STATE_QUEUED,
       TASK_STATE_STARTED, TASK_STATE_START_ERROR, TASK_STATE_COMPLETE_ERROR,
       TASK_STATE_FAILED, TASK_STATE_COMPLETED

LEMMA RecordInvInitially == Init => RecordInv
<1> SUFFICES ASSUME Init PROVE RecordInv
  OBVIOUS
<1>1. ASSUME NEW t \in Tasks PROVE TaskRecord(tasks[t], job[t], notices[t])
  <2>1. tasks[t].state = TASK_ABSENT /\ job[t] = "none" /\ notices[t] = 0
    BY DEF Init, NoTask
  <2>2. QED
    BY <2>1, StatesDiffer DEF TaskRecord, RunningReply
<1>2. ASSUME NEW o \in Ops
      PROVE  LaunchBelief(op[o], job, tasks) /\ FinishBelief(op[o], job, tasks)
  <2>1. op[o].pc = "idle"
    BY DEF Init, Idle
  <2>2. QED
    BY <2>1 DEF LaunchBelief, FinishBelief, Finishing, JoblessPcs
<1>3. QED
  BY <1>1, <1>2 DEF RecordInv, TasksRecorded, Beliefs

\* A handler that believes something of its task's job has a task.
LEMMA BelieverHasTask ==
  ASSUME TypeInv, NEW o \in Ops
  PROVE  /\ op[o].pc \in JoblessPcs \cup {"markStarted", "markCompleted"} => op[o].task \in Tasks
         /\ Finishing(op[o]) => op[o].task \in Tasks
BY DEF TypeInv, PlacedHandlers, Placed, JoblessPcs, TaskPcs, LaunchPcs, AnsweredPcs, Finishing,
       SCHEDULE_STATE_END_TASK, SCHEDULE_STATE_PASTURE

\* The places where a handler believes nothing.
Silent(x) == x.pc \notin LaunchPcs \cup AnsweredPcs /\ ~Finishing(x)

LEMMA SilentBelief ==
  ASSUME NEW x, Silent(x), NEW jobs, NEW rows
  PROVE  LaunchBelief(x, jobs, rows) /\ FinishBelief(x, jobs, rows)
BY DEF Silent, LaunchBelief, FinishBelief, LaunchPcs, AnsweredPcs, JoblessPcs

LEMMA DeparturesSilent == \A x \in Departures \cup {Idle} : Silent(x) /\ x \in PlacedHandlers
BY IdleFields DEF Departures, Silent, Finishing, ExitPcs, LaunchPcs, AnsweredPcs

------------------------------------------------------------------------------
(* Steps that change no task and no job.                                   *)

LEMMA QuietRecord ==
  ASSUME TypeInv, RecordInv, NEW o \in Ops, NEW x \in PlacedHandlers, Becomes(o, x),
         LaunchBelief(x, job, tasks), FinishBelief(x, job, tasks),
         UNCHANGED << tasks, job >>,
         \A t \in Tasks : notices'[t] > 0 => notices[t] > 0
  PROVE  RecordInv'
<1>1. /\ op'[o] = x
      /\ \A q \in Ops : q # o => op'[q] = op[q]
  BY BecomesPlaced DEF TypeInv
<1>2. TasksRecorded'
  BY DEF RecordInv, TasksRecorded, TaskRecord
<1>3. ASSUME NEW q \in Ops
      PROVE  LaunchBelief(op'[q], job', tasks') /\ FinishBelief(op'[q], job', tasks')
  <2>1. CASE q = o
    BY <1>1, <2>1
  <2>2. CASE q # o
    BY <1>1, <2>2 DEF RecordInv, Beliefs
  <2>3. QED
    BY <2>1, <2>2
<1>4. Beliefs'
  BY <1>3 DEF Beliefs, LaunchBelief, FinishBelief, Finishing
<1>5. QED
  BY <1>2, <1>4 DEF RecordInv

LEMMA SilentRecord ==
  ASSUME TypeInv, RecordInv, NEW o \in Ops, NEW x \in PlacedHandlers, Becomes(o, x), Silent(x),
         UNCHANGED << tasks, job, notices >>
  PROVE  RecordInv'
BY SilentBelief, QuietRecord

\* A handler that goes on with the same finish, or with none.
LEMMA SameBelief ==
  ASSUME RecordInv, NEW o \in Ops, NEW x, x.task = op[o].task, x.status = op[o].status,
         x.pc \notin LaunchPcs \cup AnsweredPcs, Finishing(x) => Finishing(op[o])
  PROVE  LaunchBelief(x, job, tasks) /\ FinishBelief(x, job, tasks)
<1>1. LaunchBelief(x, job, tasks)
  BY DEF LaunchBelief, LaunchPcs, AnsweredPcs, JoblessPcs
<1>2. FinishBelief(op[o], job, tasks)
  BY DEF RecordInv, Beliefs
<1>3. FinishBelief(x, job, tasks)
  BY <1>2 DEF FinishBelief
<1>4. QED
  BY <1>1, <1>3

LEMMA BeginRecord ==
  ASSUME TypeInv, StartInv, RecordInv, NEW o \in Ops,
         \/ CreateScheduledJob(o) \/ Disable(o) \/ PollExpired(o)
         \/ \E t \in Tasks : PollTask(o, t) \/ FinishNotice(o, t)
  PROVE  RecordInv'
<1>k. ScheduleUpdateStateType = { SCHEDULE_STATE_ADD_TASK, SCHEDULE_STATE_START_TASK,
        SCHEDULE_STATE_END_TASK, SCHEDULE_STATE_PASTURE, SCHEDULE_STATE_REPAIR }
  BY DEF ScheduleUpdateStateType
<1>e. /\ SCHEDULE_STATE_PASTURE # SCHEDULE_STATE_END_TASK
      /\ SCHEDULE_STATE_START_TASK # SCHEDULE_STATE_END_TASK
  BY DEF SCHEDULE_STATE_PASTURE, SCHEDULE_STATE_START_TASK, SCHEDULE_STATE_END_TASK
<1>1. CASE CreateScheduledJob(o)
  <2>1. PICK t \in Tasks :
          op' = [op EXCEPT ![o] =
                 [ Handler("addSchedule", SCHEDULE_STATE_ADD_TASK, t, None) EXCEPT !.owed = 0 ]]
    BY <1>1 DEF CreateScheduledJob
  <2> DEFINE g == Handler("addSchedule", SCHEDULE_STATE_ADD_TASK, t, None)
             h == [ g EXCEPT !.owed = 0 ]
  <2>2. Becomes(o, h) /\ UNCHANGED << tasks, job, notices >>
    BY <1>1, <2>1 DEF CreateScheduledJob, Becomes
  <2>3. g \in PlacedHandlers /\ g.pc = "addSchedule"
    BY <1>k, HandlerPlaced, NoneIsNone
  <2> HIDE DEF g
  <2>4. h \in PlacedHandlers /\ h.pc = "addSchedule"
    BY <2>3, UnhurriedHandler
  <2> HIDE DEF h
  <2>5. QED
    BY <2>2, <2>4, SilentRecord DEF Silent, Finishing, LaunchPcs, AnsweredPcs
<1>2. CASE Disable(o)
  <2> DEFINE h == Handler("lease", SCHEDULE_STATE_PASTURE, None, None)
  <2>1. Becomes(o, h) /\ UNCHANGED << tasks, job, notices >>
    BY <1>2 DEF Disable, Begin, Becomes
  <2>2. h \in PlacedHandlers /\ h.pc = "lease" /\ h.kind = SCHEDULE_STATE_PASTURE
    BY <1>k, HandlerPlaced DEF UpdateKinds
  <2> HIDE DEF h
  <2>3. QED
    BY <1>e, <2>1, <2>2, SilentRecord DEF Silent, Finishing, LaunchPcs, AnsweredPcs
<1>3. CASE PollExpired(o)
  <2> DEFINE g == Handler("repairRead", SCHEDULE_STATE_REPAIR, None, None)
             h == [ g EXCEPT !.owed = 0 ]
  <2>1. Becomes(o, h) /\ UNCHANGED << tasks, job, notices >>
    BY <1>3 DEF PollExpired, Begin, Becomes
  <2>2. g \in PlacedHandlers /\ g.pc = "repairRead"
    BY <1>k, HandlerPlaced
  <2> HIDE DEF g
  <2>3. h \in PlacedHandlers /\ h.pc = "repairRead"
    BY <2>2, UnhurriedHandler
  <2> HIDE DEF h
  <2>4. QED
    BY <2>1, <2>3, SilentRecord DEF Silent, Finishing, LaunchPcs, AnsweredPcs
<1>4. ASSUME NEW t \in Tasks, PollTask(o, t) PROVE RecordInv'
  <2> DEFINE h == Handler("lease", SCHEDULE_STATE_START_TASK, t, None)
  <2>1. Becomes(o, h) /\ UNCHANGED << tasks, job, notices >>
    BY <1>4 DEF PollTask, Begin, Becomes
  <2>2. h \in PlacedHandlers /\ h.pc = "lease" /\ h.kind = SCHEDULE_STATE_START_TASK
    BY <1>k, HandlerPlaced, NoneIsNone DEF UpdateKinds
  <2> HIDE DEF h
  <2>3. QED
    BY <1>e, <2>1, <2>2, SilentRecord DEF Silent, Finishing, LaunchPcs, AnsweredPcs
<1>5. ASSUME NEW t \in Tasks, FinishNotice(o, t) PROVE RecordInv'
  <2> DEFINE h == Handler("lookup", SCHEDULE_STATE_END_TASK, t, job[t])
  <2>0. job[t] \in JobReplies \cup {"none", None} /\ notices \in [Tasks -> 0..MaxNotices]
    BY DEF TypeInv, TypeOK
  <2>1. Becomes(o, h) /\ UNCHANGED << tasks, job >>
    BY <1>5 DEF FinishNotice, Begin, Becomes
  <2>2. h \in PlacedHandlers /\ h.pc = "lookup" /\ h.task = t
    BY <1>k, <2>0, HandlerPlaced, NoneIsNone
  <2>3. h.status = job[t]
    BY DEF Handler, Idle
  <2> HIDE DEF h
  <2>4. LaunchBelief(h, job, tasks)
    BY <2>2 DEF LaunchBelief, JoblessPcs
  <2>5. FinishBelief(h, job, tasks)
    BY <1>5, <2>2, <2>3 DEF FinishBelief, FinishNotice, RecordInv, TasksRecorded, TaskRecord
  <2>6. \A u \in Tasks : notices'[u] > 0 => notices[u] > 0
    BY <1>5, <2>0, ConstantTypes DEF FinishNotice
  <2>7. QED
    BY <2>1, <2>2, <2>4, <2>5, <2>6, QuietRecord
<1>6. QED
  BY <1>1, <1>2, <1>3, <1>4, <1>5

LEMMA ReadsRecord ==
  ASSUME TypeInv, StartInv, RecordInv, NEW o \in Ops,
         \/ Lookup(o) \/ ReadSchedule(o) \/ ShouldSkip(o) \/ CheckPending(o)
         \/ RepairRead(o) \/ RepairFind(o) \/ RepairCheck(o)
  PROVE  RecordInv'
<1> DEFINE p == op[o]
<1>0. p \in Handlers /\ Placed(p) /\ sched \in Schedules
  BY DEF TypeInv, TypeOK, PlacedHandlers
<1>d. {Failed(p), Exit(p, "abort"), Leave(p, TRUE), Leave(p, FALSE)} \subseteq Departures
  BY <1>0, Departed DEF ExitPcs
<1>t. TypeInv'
  BY ReadSteps
<1>1. ASSUME NEW x, NEW y \in Departures \cup {Idle}, ReadStore(o, {x}, y)
      PROVE  /\ Becomes(o, x) \/ RecordInv'
             /\ Becomes(o, x) => x \in PlacedHandlers
             /\ UNCHANGED << tasks, job, notices >>
  <2>1. /\ Becomes(o, x) \/ Becomes(o, y)
        /\ UNCHANGED << sched, tasks, job, notices, starts, crashes >>
    BY <1>1 DEF ReadStore, Becomes
  <2>2. Becomes(o, x) => op'[o] = x
    BY DEF TypeInv, Becomes
  <2>3. QED
    BY <1>t, <2>1, <2>2, SilentRecord, DeparturesSilent DEF TypeInv
<1>2. CASE Lookup(o)
  <2> DEFINE x == [ p EXCEPT !.pc = "lease" ]
             y == IF tasks[p.task].jobId THEN x ELSE Idle
  <2>1. ReadStore(o, {y}, Idle) /\ p.pc = "lookup"
    BY <1>2 DEF Lookup
  <2>2. x.pc = "lease" /\ x.task = p.task /\ x.status = p.status /\ x.kind = p.kind
    BY <1>0, MovedHandler DEF Pcs
  <2> HIDE DEF x
  <2>3. y = x \/ y = Idle
    OBVIOUS
  <2> HIDE DEF y
  <2>4. CASE y = x
    <3>1. Finishing(x) => Finishing(p)
      BY <2>1, <2>2 DEF Finishing
    <3>2. LaunchBelief(x, job, tasks) /\ FinishBelief(x, job, tasks)
      BY <2>2, <3>1, SameBelief DEF LaunchPcs, AnsweredPcs
    <3>3. QED
      BY <1>1, <2>1, <2>4, <3>2, QuietRecord
  <2>5. CASE y = Idle
    BY <1>1, <2>1, <2>5, SilentRecord, DeparturesSilent
  <2>6. QED
    BY <2>3, <2>4, <2>5
<1>3. CASE ReadSchedule(o)
  <2> DEFINE x == CASE p.kind = SCHEDULE_STATE_START_TASK -> [ p EXCEPT !.pc = "queue" ]
                    [] p.kind = SCHEDULE_STATE_END_TASK   -> [ p EXCEPT !.pc = "finish" ]
                    [] p.kind = SCHEDULE_STATE_PASTURE    -> Leave(p, TRUE)
  <2>1. ReadStore(o, {x}, Idle) /\ p.pc = "read" /\ p.kind \in UpdateKinds
    BY <1>0, <1>3 DEF ReadSchedule, Placed
  <2>2. CASE p.kind = SCHEDULE_STATE_PASTURE
    <3>1. x = Leave(p, TRUE)
      BY <2>2 DEF SCHEDULE_STATE_START_TASK, SCHEDULE_STATE_END_TASK, SCHEDULE_STATE_PASTURE
    <3> HIDE DEF x
    <3>2. QED
      BY <1>1, <1>d, <2>1, <3>1, SilentRecord, DeparturesSilent
  <2>3. ASSUME NEW pc \in {"queue", "finish"}, x = [ p EXCEPT !.pc = pc ],
               pc = "finish" => p.kind = SCHEDULE_STATE_END_TASK
        PROVE  RecordInv'
    <3> HIDE DEF x
    <3>0. pc \in Pcs
      BY DEF Pcs, LeasedPcs
    <3>1. x.pc = pc /\ x.task = p.task /\ x.status = p.status
      BY <1>0, <2>3, <3>0, MovedHandler
    <3>2. Finishing(x) => Finishing(p)
      BY <2>1, <2>3, <3>1 DEF Finishing
    <3>3. LaunchBelief(x, job, tasks) /\ FinishBelief(x, job, tasks)
      BY <3>1, <3>2, SameBelief DEF LaunchPcs, AnsweredPcs
    <3>4. QED
      BY <1>1, <2>1, <3>3, QuietRecord
  <2>4. QED
    BY <2>1, <2>2, <2>3
       DEF UpdateKinds, SCHEDULE_STATE_START_TASK, SCHEDULE_STATE_END_TASK, SCHEDULE_STATE_PASTURE
<1>4. CASE ShouldSkip(o)
  <2> DEFINE x == IF sched.skip /\ TasksIn(TASK_STATE_STARTED) # {}
                  THEN [ p EXCEPT !.pc = "markSkipped" ] ELSE [ p EXCEPT !.pc = "startJob" ]
  <2>1. ReadStore(o, {x}, Failed(p)) /\ p.pc = "dupCheck"
    BY <1>4 DEF ShouldSkip
  <2>m. ASSUME NEW pc \in {"markSkipped", "startJob"}
        PROVE  /\ [ p EXCEPT !.pc = pc ].pc = pc
               /\ [ p EXCEPT !.pc = pc ].task = p.task
    <3>1. pc \in Pcs
      BY DEF Pcs, LeasedPcs
    <3>2. QED
      BY <1>0, <3>1, MovedHandler
  <2>2. x.pc \in {"markSkipped", "startJob"} /\ x.task = p.task
    BY <2>m
  <2> HIDE DEF x
  <2>3. job[p.task] = "none"
    BY <2>1 DEF RecordInv, Beliefs, LaunchBelief, JoblessPcs
  <2>4. LaunchBelief(x, job, tasks) /\ FinishBelief(x, job, tasks)
    BY <2>2, <2>3 DEF LaunchBelief, FinishBelief, Finishing, JoblessPcs
  <2>5. QED
    BY <1>1, <1>d, <2>1, <2>4, QuietRecord
<1>5. CASE CheckPending(o)
  <2> DEFINE x == [ p EXCEPT !.pc = "addTask" ]
             y == IF TasksIn(TASK_STATE_PENDING) # {} THEN Leave(p, FALSE) ELSE x
  <2>1. ReadStore(o, {y}, Failed(p))
    BY <1>5 DEF CheckPending
  <2>2. x.pc = "addTask"
    BY <1>0, MovedHandler DEF Pcs, LeasedPcs
  <2> HIDE DEF x
  <2>3. y = x \/ y = Leave(p, FALSE)
    OBVIOUS
  <2> HIDE DEF y
  <2>4. Silent(y)
    BY <1>d, <2>2, <2>3, DeparturesSilent DEF Silent, Finishing, LaunchPcs, AnsweredPcs
  <2>5. QED
    BY <1>1, <1>d, <2>1, <2>4, SilentRecord
<1>6. CASE RepairRead(o)
  <2> DEFINE x == [ p EXCEPT !.pc = "steal", !.status = RepairSource(sched) ]
  <2>1. ReadStore(o, {x}, Idle)
    BY <1>6 DEF RepairRead
  <2>2. x.pc = "steal"
    BY <1>0 DEF Handlers
  <2> HIDE DEF x
  <2>3. QED
    BY <1>1, <2>1, <2>2, SilentRecord DEF Silent, Finishing, LaunchPcs, AnsweredPcs
<1>7. CASE RepairFind(o)
  <2> DEFINE y == [ p EXCEPT !.pc = "repairCheck", !.task = sched.updateTaskPk ]
             x == CASE sched.repairState = SCHEDULE_STATE_ADD_TASK ->
                         IF sched.pasture THEN Leave(p, TRUE) ELSE y
                    [] sched.repairState \in { SCHEDULE_STATE_START_TASK, SCHEDULE_STATE_END_TASK,
                                               SCHEDULE_STATE_PASTURE } -> Exit(p, "abort")
                    [] OTHER -> Leave(p, TRUE)
  <2>1. ReadStore(o, {x}, Idle)
    BY <1>7 DEF RepairFind
  <2>2. y.pc = "repairCheck"
    BY <1>0 DEF Handlers
  <2> HIDE DEF y
  <2>3. x = y \/ x \in Departures
    BY <1>d
       DEF SCHEDULE_STATE_ADD_TASK, SCHEDULE_STATE_START_TASK, SCHEDULE_STATE_END_TASK,
           SCHEDULE_STATE_PASTURE
  <2> HIDE DEF x
  <2>4. Silent(x)
    BY <2>2, <2>3, DeparturesSilent DEF Silent, Finishing, LaunchPcs, AnsweredPcs
  <2>5. QED
    BY <1>1, <2>1, <2>4, SilentRecord
<1>8. CASE RepairCheck(o)
  <2> DEFINE x == IF p.task # None /\ TasksIn(TASK_STATE_PENDING) # {} THEN Leave(p, FALSE)
                  ELSE Exit(p, "abort")
  <2>1. ReadStore(o, {x}, Exit(p, "abort"))
    BY <1>8 DEF RepairCheck
  <2>2. x \in Departures
    BY <1>d
  <2> HIDE DEF x
  <2>3. QED
    BY <1>1, <1>d, <2>1, <2>2, SilentRecord, DeparturesSilent
<1>9. QED
  BY <1>2, <1>3, <1>4, <1>5, <1>6, <1>7, <1>8

LEMMA UpdatesRecord ==
  ASSUME TypeInv, RecordInv, NEW o \in Ops,
         \/ AddScheduledJob(o) \/ TakeLease(o) \/ ReleaseLease(o) \/ MarkNeedsRepair(o)
         \/ StealLease(o) \/ RepairAbort(o)
  PROVE  RecordInv'
<1> DEFINE p == op[o]
<1>0. p \in Handlers /\ Placed(p)
  BY DEF TypeInv, TypeOK, PlacedHandlers
<1>d. {Failed(p), Exit(p, "abort"), Leave(p, TRUE), Idle} \subseteq Departures \cup {Idle}
  BY <1>0, Departed DEF ExitPcs
<1>t. TypeInv'
  BY UpdateSteps
<1>1. ASSUME NEW condition, NEW row, NEW accepted, NEW rejected,
             UpdateSchedule(o, condition, row, accepted, rejected)
      PROVE  /\ \E x \in accepted \cup {rejected} : Becomes(o, x)
             /\ UNCHANGED << tasks, job, notices >>
  BY <1>1 DEF UpdateSchedule, Becomes
<1>2. ASSUME NEW x, Becomes(o, x), Silent(x), UNCHANGED << tasks, job, notices >>
      PROVE  RecordInv'
  <2>1. x \in PlacedHandlers
    BY <1>t, <1>2 DEF TypeInv, Becomes
  <2>2. QED
    BY <1>2, <2>1, SilentRecord
<1>3. CASE AddScheduledJob(o)
  <2> DEFINE x == [ p EXCEPT !.pc = "addTask" ]
             others == IF "invalid" \in NextActions THEN { Leave(p, TRUE) } ELSE {}
             accepted == {x} \cup others
  <2>1. PICK creation \in Creations, skip \in Skips :
          UpdateSchedule(o, TRUE, NewSchedule(creation, skip, p.task, o, p.now), accepted, Failed(p))
    BY <1>3 DEF AddScheduledJob
  <2>2. x.pc = "addTask"
    BY <1>0, MovedHandler DEF Pcs, LeasedPcs
  <2> HIDE DEF x
  <2>3. \A y \in accepted \cup {Failed(p)} : Silent(y)
    BY <1>d, <2>2, DeparturesSilent DEF Silent, Finishing, LaunchPcs, AnsweredPcs
  <2> HIDE DEF accepted
  <2>4. /\ \E y \in accepted \cup {Failed(p)} : Becomes(o, y)
        /\ UNCHANGED << tasks, job, notices >>
    BY <2>1 DEF UpdateSchedule, Becomes
  <2>5. QED
    BY <1>2, <2>3, <2>4
<1>4. CASE TakeLease(o)
  <2> DEFINE x == [ p EXCEPT !.pc = "read", !.attempt = 0, !.owed = 0 ]
             w == [ p EXCEPT !.attempt = @ + 1, !.wait = RetryDelays[p.attempt + 1] ]
  <2>1. UpdateSchedule(o, CanLease(sched), Lease(sched, p.kind, p.task, o, p.now), {x}, RetryLease(p))
        /\ p.pc = "lease"
    BY <1>4 DEF TakeLease
  <2>2. RetryLease(p) \in {w, Idle}
    BY DEF RetryLease
  <2>3. /\ x.pc = "read" /\ x.task = p.task /\ x.status = p.status /\ x.kind = p.kind
        /\ w.pc = "lease" /\ w.task = p.task /\ w.status = p.status /\ w.kind = p.kind
    BY <1>0, <2>1 DEF Handlers
  <2> HIDE DEF x, w
  <2>4. PICK y \in {x, w, Idle} : Becomes(o, y) /\ UNCHANGED << tasks, job, notices >>
    BY <1>1, <2>1, <2>2
  <2>5. CASE y = Idle
    BY <1>2, <2>4, <2>5, DeparturesSilent
  <2>6. CASE y # Idle
    <3>1. y \in PlacedHandlers
      BY <1>t, <2>4 DEF TypeInv, Becomes
    <3>2. y.pc \in {"read", "lease"} /\ y.task = p.task /\ y.status = p.status /\ y.kind = p.kind
      BY <2>3, <2>4, <2>6
    <3>3. Finishing(y) => Finishing(p)
      BY <2>1, <3>2 DEF Finishing
    <3>4. LaunchBelief(y, job, tasks) /\ FinishBelief(y, job, tasks)
      BY <3>2, <3>3, SameBelief DEF LaunchPcs, AnsweredPcs
    <3>5. QED
      BY <2>4, <3>1, <3>4, QuietRecord
  <2>7. QED
    BY <2>5, <2>6
<1>5. CASE ReleaseLease(o)
  <2> DEFINE y == IF p.kind = SCHEDULE_STATE_REPAIR THEN Exit(p, "abort") ELSE Idle
  <2>1. UpdateSchedule(o, OwnsLease(sched, o), Release(sched, p.pasture), {Idle}, y)
    BY <1>5 DEF ReleaseLease
  <2>2. y \in Departures \cup {Idle}
    BY <1>d
  <2> HIDE DEF y
  <2>3. QED
    BY <1>1, <1>2, <2>1, <2>2, DeparturesSilent
<1>6. CASE MarkNeedsRepair(o)
  BY <1>1, <1>2, <1>6, DeparturesSilent DEF MarkNeedsRepair
<1>7. CASE StealLease(o)
  <2> DEFINE x == [ p EXCEPT !.pc = "repairFind", !.status = None ]
  <2>1. UpdateSchedule(o, CanSteal(sched, p.now), Steal(sched, p.status, o, p.now), {x}, Idle)
    BY <1>7 DEF StealLease
  <2>2. x.pc = "repairFind"
    BY <1>0 DEF Handlers
  <2> HIDE DEF x
  <2>3. Silent(x)
    BY <2>2 DEF Silent, Finishing, LaunchPcs, AnsweredPcs
  <2>4. QED
    BY <1>1, <1>2, <2>1, <2>3, DeparturesSilent
<1>8. CASE RepairAbort(o)
  BY <1>1, <1>2, <1>8, DeparturesSilent DEF RepairAbort
<1>9. QED
  BY <1>3, <1>4, <1>5, <1>6, <1>7, <1>8

------------------------------------------------------------------------------
(* The steps that write a task's row.                                      *)

\* The row of the handler's task becomes one that is still true of its job.
LEMMA WriteRecord ==
  ASSUME TypeInv, RecordInv, NEW o \in Ops, NEW x \in PlacedHandlers, Becomes(o, x),
         NEW t \in Tasks, NEW row,
         \/ tasks' = tasks
         \/ /\ tasks' = [tasks EXCEPT ![t] = row]
            /\ tasks[t].state # TASK_ABSENT
            /\ TaskRecord(row, job[t], notices[t]),
         LaunchBelief(x, job, tasks), ~Finishing(x),
         UNCHANGED << job, notices >>
  PROVE  RecordInv'
<1>0. tasks \in [Tasks -> TaskRows]
  BY DEF TypeInv, TypeOK
<1>1. /\ op'[o] = x
      /\ \A q \in Ops : q # o => op'[q] = op[q]
  BY BecomesPlaced DEF TypeInv
<1>2. \A u \in Tasks : tasks[u].state = TASK_ABSENT => tasks'[u].state = TASK_ABSENT
  BY <1>0
<1>3. ASSUME NEW u \in Tasks
      PROVE  TaskRecord(tasks'[u], job'[u], notices'[u])
  <2>1. tasks'[u] = tasks[u] \/ (u = t /\ tasks'[u] = row /\ TaskRecord(row, job[t], notices[t]))
    BY <1>0
  <2>2. TaskRecord(tasks[u], job[u], notices[u])
    BY DEF RecordInv, TasksRecorded
  <2>3. QED
    BY <2>1, <2>2
<1>4. ASSUME NEW q \in Ops
      PROVE  LaunchBelief(op'[q], job', tasks') /\ FinishBelief(op'[q], job', tasks')
  <2>1. CASE q = o
    <3>1. x.pc = "markCompleted" => x.task \in Tasks
      BY DEF PlacedHandlers, Placed, TaskPcs, AnsweredPcs
    <3>2. LaunchBelief(x, job, tasks')
      BY <1>2, <3>1 DEF LaunchBelief
    <3>3. QED
      BY <1>1, <2>1, <3>2 DEF FinishBelief
  <2>2. CASE q # o
    <3>1. LaunchBelief(op[q], job, tasks) /\ FinishBelief(op[q], job, tasks)
      BY DEF RecordInv, Beliefs
    <3>2. LaunchBelief(op[q], job, tasks')
      BY <1>2, <3>1, BelieverHasTask DEF LaunchBelief
    <3>3. FinishBelief(op[q], job, tasks')
      BY <1>2, <3>1, BelieverHasTask DEF FinishBelief
    <3>4. QED
      BY <1>1, <2>2, <3>2, <3>3
  <2>3. QED
    BY <2>1, <2>2
<1>5. TasksRecorded'
  BY <1>3 DEF TasksRecorded, TaskRecord
<1>6. Beliefs'
  BY <1>4 DEF Beliefs, LaunchBelief, FinishBelief, Finishing
<1>7. QED
  BY <1>5, <1>6 DEF RecordInv

\* markTaskState, called by a handler that then departs.
LEMMA MarkRecord ==
  ASSUME TypeInv, RecordInv, NEW o \in Ops, op[o].task \in Tasks,
         NEW expected \in TaskStateType, NEW state,
         NEW STATE accepted, NEW STATE rejected,
         accepted \subseteq Departures, rejected \in Departures,
         tasks[op[o].task].state = expected =>
           TaskRecord([tasks[op[o].task] EXCEPT !.state = state],
                      job[op[o].task], notices[op[o].task]),
         MarkTask(o, expected, state, accepted, rejected)
  PROVE  RecordInv'
<1> DEFINE t == op[o].task
           row == [tasks[t] EXCEPT !.state = state]
<1>1. /\ UpdateTask(o, t, tasks[t].state = expected, row, accepted, rejected)
      /\ UNCHANGED << job, starts >>
  BY DEF MarkTask
<1>2. tasks[t].state = expected => TaskRecord(row, job[t], notices[t])
  OBVIOUS
<1>3. expected # TASK_ABSENT
  BY StatesDiffer DEF TaskStateType, FinishedTaskStates
<1> HIDE DEF row
<1>4. /\ \/ tasks' = tasks
         \/ tasks' = [tasks EXCEPT ![t] = row] /\ tasks[t].state = expected
      /\ \E x \in accepted \cup {rejected} : Becomes(o, x)
      /\ UNCHANGED << sched, notices, crashes >>
  BY <1>1 DEF UpdateTask, Becomes
<1>5. PICK x \in Departures : Becomes(o, x)
  BY <1>4
<1>6. x \in PlacedHandlers /\ LaunchBelief(x, job, tasks) /\ ~Finishing(x)
  BY DeparturesSilent, SilentBelief DEF Silent
<1>7. QED
  BY <1>1, <1>2, <1>3, <1>4, <1>5, <1>6, WriteRecord

LEMMA MarksRecord ==
  ASSUME TypeInv, StartInv, RecordInv, NEW o \in Ops,
         \/ MarkTaskSkipped(o) \/ MarkTaskCompleted(o) \/ MarkTaskFailed(o)
         \/ MarkTaskStartFailed(o) \/ MarkTaskFinished(o)
  PROVE  RecordInv'
<1> DEFINE p == op[o]
           t == p.task
<1>0. /\ p \in Handlers /\ tasks \in [Tasks -> TaskRows]
      /\ t \in Tasks
  BY PlacedTask
     DEF TypeInv, TypeOK, MarkTaskSkipped, MarkTaskCompleted, MarkTaskFailed, MarkTaskStartFailed,
         MarkTaskFinished, TaskPcs, LaunchPcs, AnsweredPcs
<1>d. /\ Failed(p) \in Departures /\ Leave(p, FALSE) \in Departures
      /\ AfterStart(p) \subseteq Departures /\ AfterFinish(p) \subseteq Departures
      /\ AfterFailure(p) \subseteq Departures /\ AfterFailedStart(p) \subseteq Departures
  BY <1>0, Departed, FollowUpDeparts
<1>s. {TASK_STATE_QUEUED, TASK_STATE_STARTED} \subseteq TaskStateType
  BY DEF TaskStateType
<1>r. TaskRecord(tasks[t], job[t], notices[t])
  BY <1>0 DEF RecordInv, TasksRecorded
<1>b. LaunchBelief(p, job, tasks) /\ FinishBelief(p, job, tasks)
  BY DEF RecordInv, Beliefs
<1>w. ASSUME NEW state
      PROVE  /\ [tasks[t] EXCEPT !.state = state].state = state
             /\ [tasks[t] EXCEPT !.state = state].jobId = tasks[t].jobId
  BY <1>0 DEF TaskRows
<1>1. CASE MarkTaskSkipped(o)
  <2>1. /\ MarkTask(o, TASK_STATE_QUEUED, TASK_STATE_COMPLETED, AfterStart(p), Failed(p))
        /\ p.pc = "markSkipped"
    BY <1>1 DEF MarkTaskSkipped
  <2>2. job[t] = "none"
    BY <1>b, <2>1 DEF LaunchBelief, JoblessPcs
  <2>3. ASSUME tasks[t].state = TASK_STATE_QUEUED
        PROVE  TaskRecord([tasks[t] EXCEPT !.state = TASK_STATE_COMPLETED], job[t], notices[t])
    BY <1>r, <1>w, <2>2, <2>3, StatesDiffer DEF TaskRecord, RunningReply
  <2>4. QED
    BY <1>0, <1>d, <1>s, <2>1, <2>3, MarkRecord
<1>2. CASE MarkTaskCompleted(o)
  <2>1. /\ MarkTask(o, TASK_STATE_STARTED, TASK_STATE_COMPLETED, AfterStart(p), Failed(p))
        /\ p.pc = "markCompleted"
    BY <1>2 DEF MarkTaskCompleted
  <2>2. tasks[t].state = TASK_STATE_STARTED => job[t] = "completed"
    BY <1>b, <2>1, StatesDiffer DEF LaunchBelief
  <2>3. ASSUME tasks[t].state = TASK_STATE_STARTED
        PROVE  TaskRecord([tasks[t] EXCEPT !.state = TASK_STATE_COMPLETED], job[t], notices[t])
    BY <1>r, <1>w, <2>2, <2>3, StatesDiffer DEF TaskRecord, RunningReply, JobResults
  <2>4. QED
    BY <1>0, <1>d, <1>s, <2>1, <2>3, MarkRecord
<1>3. CASE MarkTaskFailed(o)
  <2>1. /\ MarkTask(o, TASK_STATE_QUEUED, TASK_STATE_FAILED, AfterFailedStart(p), Failed(p))
        /\ p.pc \in AnsweredPcs
    BY <1>3 DEF MarkTaskFailed, AnsweredPcs
  <2>2. tasks[t].state # TASK_STATE_QUEUED
    BY <2>1 DEF StartInv, AnsweredLeftQueue
  <2>3. QED
    BY <1>0, <1>d, <1>s, <2>1, <2>2, MarkRecord
<1>4. CASE MarkTaskStartFailed(o)
  <2> DEFINE x == IF p.status = "rejected" THEN Failed(p) ELSE Leave(p, FALSE)
  <2>1. /\ MarkTask(o, TASK_STATE_QUEUED, TASK_STATE_START_ERROR, {x}, Failed(p))
        /\ p.pc = "markStartFailed"
    BY <1>4 DEF MarkTaskStartFailed
  <2>2. {x} \subseteq Departures
    BY <1>d
  <2> HIDE DEF x
  <2>3. job[t] = "none"
    BY <1>b, <2>1 DEF LaunchBelief, JoblessPcs
  <2>4. ASSUME tasks[t].state = TASK_STATE_QUEUED
        PROVE  TaskRecord([tasks[t] EXCEPT !.state = TASK_STATE_START_ERROR], job[t], notices[t])
    BY <1>r, <1>w, <2>3, <2>4, StatesDiffer DEF TaskRecord, RunningReply
  <2>5. QED
    BY <1>0, <1>d, <1>s, <2>1, <2>2, <2>4, MarkRecord
<1>5. CASE MarkTaskFinished(o)
  <2>0. p.pc = "finish"
    BY <1>5 DEF MarkTaskFinished
  <2>b. tasks[t].state = TASK_STATE_STARTED => job[t] = p.status
    BY <1>b, <2>0, StatesDiffer DEF FinishBelief, Finishing
  <2>1. CASE /\ MarkTask(o, TASK_STATE_STARTED, TASK_STATE_COMPLETED, AfterFinish(p), Failed(p))
             /\ p.status = "completed"
    <3>1. ASSUME tasks[t].state = TASK_STATE_STARTED
          PROVE  TaskRecord([tasks[t] EXCEPT !.state = TASK_STATE_COMPLETED], job[t], notices[t])
      BY <1>r, <1>w, <2>1, <2>b, <3>1, StatesDiffer DEF TaskRecord, RunningReply, JobResults
    <3>2. QED
      BY <1>0, <1>d, <1>s, <2>1, <3>1, MarkRecord
  <2>2. CASE /\ MarkTask(o, TASK_STATE_STARTED, TASK_STATE_COMPLETE_ERROR, AfterFailure(p), Failed(p))
             /\ p.status = "failed"
    <3>1. ASSUME tasks[t].state = TASK_STATE_STARTED
          PROVE  TaskRecord([tasks[t] EXCEPT !.state = TASK_STATE_COMPLETE_ERROR], job[t], notices[t])
      BY <1>r, <1>w, <2>2, <2>b, <3>1, StatesDiffer DEF TaskRecord, RunningReply, JobResults
    <3>2. QED
      BY <1>0, <1>d, <1>s, <2>2, <3>1, MarkRecord
  <2>3. CASE Becomes(o, Failed(p)) /\ UNCHANGED << tasks, job, notices >>
    BY <1>d, <2>3, SilentRecord, DeparturesSilent
  <2>4. QED
    BY <1>5, <2>1, <2>2, <2>3 DEF MarkTaskFinished, Becomes
<1>6. QED
  BY <1>1, <1>2, <1>3, <1>4, <1>5

LEMMA MarkQueuedRecord ==
  ASSUME TypeInv, RecordInv, NEW o \in Ops, MarkTaskQueued(o)
  PROVE  RecordInv'
<1> DEFINE p == op[o]
           t == p.task
           x == [ p EXCEPT !.pc = "dupCheck" ]
           row == [tasks[t] EXCEPT !.state = TASK_STATE_QUEUED]
           rejected == Failed(p)
<1>0. /\ p \in Handlers /\ t \in Tasks /\ tasks \in [Tasks -> TaskRows]
  BY PlacedTask DEF TypeInv, TypeOK, MarkTaskQueued, TaskPcs
<1>1. /\ UpdateTask(o, t, tasks[t].state = TASK_STATE_PENDING, row, {x}, rejected)
      /\ UNCHANGED << job, starts >>
  BY DEF MarkTaskQueued, MarkTask
<1>2. row.state = TASK_STATE_QUEUED /\ row.jobId = tasks[t].jobId
  BY <1>0 DEF TaskRows
<1>3. x.pc = "dupCheck" /\ x.task = t /\ x \in PlacedHandlers
  BY <1>0, MovedHandler, MovedToTask DEF Pcs, LeasedPcs
<1>4. rejected \in Departures
  BY <1>0, Departed
<1> HIDE DEF x, row, rejected
<1>5. /\ \/ tasks' = tasks
         \/ tasks' = [tasks EXCEPT ![t] = row] /\ tasks[t].state = TASK_STATE_PENDING
      /\ \/ Becomes(o, x) /\ tasks[t].state = TASK_STATE_PENDING
         \/ Becomes(o, rejected)
      /\ UNCHANGED << sched, notices, crashes >>
  BY <1>1 DEF UpdateTask, Becomes
<1>6. TaskRecord(tasks[t], job[t], notices[t])
  BY <1>0 DEF RecordInv, TasksRecorded
<1>7. tasks[t].state = TASK_STATE_PENDING => job[t] = "none" /\ TaskRecord(row, job[t], notices[t])
  BY <1>2, <1>6, StatesDiffer DEF TaskRecord, RunningReply
<1>8. PICK y \in PlacedHandlers : Becomes(o, y) /\ LaunchBelief(y, job, tasks) /\ ~Finishing(y)
  <2>1. CASE Becomes(o, rejected)
    BY <1>4, <2>1, DeparturesSilent, SilentBelief DEF Silent
  <2>2. CASE Becomes(o, x) /\ tasks[t].state = TASK_STATE_PENDING
    BY <1>3, <1>7, <2>2 DEF LaunchBelief, JoblessPcs, Finishing
  <2>3. QED
    BY <1>5, <2>1, <2>2
<1>9. QED
  BY <1>0, <1>1, <1>5, <1>7, <1>8, StatesDiffer, WriteRecord

LEMMA MarkStartedRecord ==
  ASSUME TypeInv, RecordInv, NEW o \in Ops, MarkTaskStarted(o)
  PROVE  RecordInv'
<1> DEFINE p == op[o]
           t == p.task
           row == [tasks[t] EXCEPT !.state = TASK_STATE_STARTED, !.jobId = TRUE]
           accepted == CASE p.status = "running"   -> AfterStart(p)
                         [] p.status = "completed" -> { [ p EXCEPT !.pc = "markCompleted" ] }
                         [] p.status = "failed"    -> { [ p EXCEPT !.pc = "markFailed" ] }
           rejected == Failed(p)
<1>0. /\ p \in Handlers /\ p.pc = "markStarted" /\ t \in Tasks
      /\ p.status \in {"running", "completed", "failed"}
      /\ tasks \in [Tasks -> TaskRows]
  BY PlacedTask
     DEF TypeInv, TypeOK, PlacedHandlers, MarkTaskStarted, Placed, TaskPcs, LaunchPcs
<1>1. /\ UpdateTask(o, t, tasks[t].state = TASK_STATE_QUEUED, row, accepted, rejected)
      /\ UNCHANGED << job, starts >>
  BY DEF MarkTaskStarted
<1>2. row.state = TASK_STATE_STARTED
  BY <1>0 DEF TaskRows
<1>b. LaunchBelief(p, job, tasks)
  BY DEF RecordInv, Beliefs
<1>3. \A x \in accepted \cup {rejected} :
        x \in PlacedHandlers /\ LaunchBelief(x, job, tasks) /\ ~Finishing(x)
  <2>1. ASSUME NEW x \in Departures
        PROVE  x \in PlacedHandlers /\ LaunchBelief(x, job, tasks) /\ ~Finishing(x)
    BY DeparturesSilent, SilentBelief DEF Silent
  <2>2. rejected \in Departures
    BY <1>0, Departed
  <2>3. ASSUME NEW pc \in AnsweredPcs, pc = "markCompleted" => p.status = "completed"
        PROVE  /\ [ p EXCEPT !.pc = pc ] \in PlacedHandlers
               /\ LaunchBelief([ p EXCEPT !.pc = pc ], job, tasks)
               /\ ~Finishing([ p EXCEPT !.pc = pc ])
    <3> DEFINE x == [ p EXCEPT !.pc = pc ]
    <3>1. x.pc = pc /\ x.task = t /\ x \in PlacedHandlers
      BY <1>0, MovedHandler, MovedToTask DEF AnsweredPcs, Pcs, LeasedPcs
    <3> HIDE DEF x
    <3>2. LaunchBelief(x, job, tasks) /\ ~Finishing(x)
      BY <1>0, <1>b, <2>3, <3>1
         DEF LaunchBelief, JoblessPcs, Finishing, AnsweredPcs, RunningReply
    <3>3. QED
      BY <3>1, <3>2 DEF x
  <2>4. CASE p.status = "running"
    BY <1>0, <2>1, <2>2, <2>4, FollowUpDeparts
  <2>5. CASE p.status = "completed"
    BY <1>0, <2>1, <2>2, <2>3, <2>5 DEF AnsweredPcs
  <2>6. CASE p.status = "failed"
    BY <1>0, <2>1, <2>2, <2>3, <2>6 DEF AnsweredPcs
  <2>7. QED
    BY <1>0, <2>4, <2>5, <2>6
<1> HIDE DEF row, accepted, rejected
<1>4. /\ \/ tasks' = tasks
         \/ tasks' = [tasks EXCEPT ![t] = row] /\ tasks[t].state = TASK_STATE_QUEUED
      /\ \E x \in accepted \cup {rejected} : Becomes(o, x)
      /\ UNCHANGED << sched, notices, crashes >>
  BY <1>1 DEF UpdateTask, Becomes
<1>5. TaskRecord(tasks[t], job[t], notices[t])
  BY <1>0 DEF RecordInv, TasksRecorded
<1>6. tasks[t].state = TASK_STATE_QUEUED => TaskRecord(row, job[t], notices[t])
  BY <1>2, <1>5, StatesDiffer DEF TaskRecord, RunningReply
<1>7. PICK y \in PlacedHandlers : Becomes(o, y) /\ LaunchBelief(y, job, tasks) /\ ~Finishing(y)
  BY <1>3, <1>4
<1>8. QED
  BY <1>0, <1>1, <1>4, <1>6, <1>7, StatesDiffer, WriteRecord

------------------------------------------------------------------------------
(* The steps that change what became of a job.                             *)

\* startJob: nobody but the one launcher believes anything of this job.
LEMMA StartJobRecord ==
  ASSUME TypeInv, StartInv, RecordInv, NEW o \in Ops, StartJob(o)
  PROVE  RecordInv'
<1> DEFINE p == op[o]
           t == p.task
<1>0. /\ p \in Handlers /\ p.pc = "startJob" /\ t \in Tasks
      /\ job \in [Tasks -> JobReplies \cup {"none"}] /\ notices \in [Tasks -> 0..MaxNotices]
      /\ op \in [Ops -> Handlers]
  BY PlacedTask DEF TypeInv, TypeOK, StartJob, TaskPcs, LaunchPcs
<1>1. /\ tasks[t].state = TASK_STATE_QUEUED /\ job[t] = "none"
  BY <1>0 DEF StartInv, LaunchOwnsTask, LaunchPcs, RecordInv, Beliefs, LaunchBelief, JoblessPcs
<1>2. PICK reply \in Responses :
        /\ job' = [job EXCEPT ![t] =
                    IF reply \in {"running", "completed", "failed"} THEN reply ELSE "none"]
        /\ op' = [op EXCEPT ![o] =
                  CASE reply \in {"running", "completed", "failed"} ->
                         [ p EXCEPT !.pc = "markStarted", !.status = reply ]
                    [] reply \in {"did-not-start", "rejected"} ->
                         [ p EXCEPT !.pc = "markStartFailed", !.status = reply ]
                    [] reply = "unknown" -> Failed(p) ]
        /\ UNCHANGED << sched, tasks, notices >>
  BY DEF StartJob
<1>3. reply \in JobReplies
  BY ConstantTypes
<1>4. \A u \in Tasks : u # t => job'[u] = job[u]
  BY <1>2
<1>5. \A q \in Ops : q # o => op'[q] = op[q]
  BY <1>0, <1>2
<1>6. LaunchBelief(op'[o], job', tasks') /\ ~Finishing(op'[o])
  <2>1. CASE reply \in {"running", "completed", "failed"}
    <3>1. op'[o].pc = "markStarted" /\ op'[o].task = t /\ op'[o].status = reply /\ job'[t] = reply
      BY <1>0, <1>2, <2>1 DEF Handlers
    <3>2. QED
      BY <3>1 DEF LaunchBelief, JoblessPcs, Finishing
  <2>2. CASE reply \in {"did-not-start", "rejected"}
    <3>1. op'[o].pc = "markStartFailed" /\ op'[o].task = t /\ job'[t] = "none"
      BY <1>0, <1>2, <2>2 DEF Handlers
    <3>2. QED
      BY <3>1 DEF LaunchBelief, JoblessPcs, Finishing
  <2>3. CASE reply = "unknown"
    <3>1. op'[o].pc = "needsRepair"
      BY <1>0, <1>2, <2>3, FailedType
    <3>2. QED
      BY <3>1 DEF LaunchBelief, JoblessPcs, Finishing
  <2>4. QED
    BY <1>3, <2>1, <2>2, <2>3 DEF JobReplies
<1>7. ASSUME NEW q \in Ops
      PROVE  LaunchBelief(op'[q], job', tasks') /\ FinishBelief(op'[q], job', tasks')
  <2>1. CASE q = o
    BY <1>6, <2>1 DEF FinishBelief
  <2>2. CASE q # o
    <3>1. LaunchBelief(op[q], job, tasks) /\ FinishBelief(op[q], job, tasks)
      BY DEF RecordInv, Beliefs
    <3>2. op[q].pc \in LaunchPcs => op[q].task # t
      BY <1>0, <2>2 DEF StartInv, OneLauncher, LaunchPcs
    <3>3. op[q].pc \in AnsweredPcs => op[q].task # t
      BY <1>1 DEF StartInv, AnsweredLeftQueue
    <3>4. Finishing(op[q]) => op[q].task # t
      BY <1>1, <3>1, StatesDiffer DEF FinishBelief, JobResults
    <3>5. LaunchBelief(op[q], job', tasks')
      BY <1>2, <1>4, <3>1, <3>2, <3>3, BelieverHasTask
         DEF LaunchBelief, LaunchPcs, AnsweredPcs, JoblessPcs
    <3>6. FinishBelief(op[q], job', tasks)
      BY <1>4, <3>1, <3>4, BelieverHasTask DEF FinishBelief
    <3>7. QED
      BY <1>2, <1>5, <2>2, <3>5, <3>6
  <2>3. QED
    BY <2>1, <2>2
<1>8. ASSUME NEW u \in Tasks
      PROVE  TaskRecord(tasks'[u], job'[u], notices'[u])
  <2>1. TaskRecord(tasks[u], job[u], notices[u])
    BY DEF RecordInv, TasksRecorded
  <2>2. CASE u # t
    BY <1>2, <1>4, <2>1, <2>2
  <2>3. CASE u = t
    <3>1. notices[t] = 0
      BY <1>0, <1>1, <2>1, <2>3, ConstantTypes, StatesDiffer DEF TaskRecord, JobResults
    <3>2. QED
      BY <1>1, <1>2, <2>1, <2>3, <3>1, StatesDiffer DEF TaskRecord
  <2>4. QED
    BY <2>2, <2>3
<1>9. QED
  BY <1>7, <1>8
     DEF RecordInv, TasksRecorded, Beliefs, TaskRecord, LaunchBelief, FinishBelief, Finishing

\* addTask: no handler and no notice refers to the name of the new row.
LEMMA AddTaskRecord ==
  ASSUME TypeInv, StartInv, RecordInv, NEW o \in Ops, AddTask(o)
  PROVE  RecordInv'
<1> DEFINE p == op[o]
           row == [ state |-> TASK_STATE_PENDING, executeAt |-> p.now + p.delay, jobId |-> FALSE ]
           accepted == { Leave(p, FALSE) }
           rejected == Failed(p)
<1>0. /\ p \in Handlers /\ p.pc = "addTask" /\ op \in [Ops -> Handlers]
      /\ job \in [Tasks -> JobReplies \cup {"none"}] /\ tasks \in [Tasks -> TaskRows]
  BY DEF TypeInv, TypeOK, AddTask
<1>1. PICK t \in Tasks :
        /\ IF p.task # None THEN t = p.task ELSE Unused(t)
        /\ UpdateTask(o, t, TRUE, row, accepted, rejected)
        /\ job' = [job EXCEPT ![t] = "none"]
  BY DEF AddTask
<1>2. accepted \cup {rejected} \subseteq Departures
  BY <1>0, Departed
<1>3. row.state = TASK_STATE_PENDING /\ ~row.jobId
  OBVIOUS
<1> HIDE DEF row, accepted, rejected
<1>4. /\ tasks' \in { tasks, [tasks EXCEPT ![t] = row] }
      /\ \E x \in Departures : Becomes(o, x)
      /\ UNCHANGED notices
  BY <1>1, <1>2 DEF UpdateTask, Becomes
<1>5. /\ Silent(op'[o])
      /\ \A q \in Ops : q # o => op'[q] = op[q]
  BY <1>0, <1>4, DeparturesSilent DEF Becomes
<1>6. /\ job'[t] = "none"
      /\ \A u \in Tasks : u # t => job'[u] = job[u] /\ tasks'[u] = tasks[u]
  BY <1>0, <1>1, <1>4
<1>7. notices[t] = 0 /\ tasks[t].state = TASK_ABSENT
  BY <1>0, <1>1 DEF StartInv, FirstTaskIsFresh, Unused, Creating, CreatingHandler
<1>8. \A q \in Ops : q # o /\ op[q].task = t => op[q].pc = "repairCheck"
  BY <1>0, <1>1 DEF StartInv, FirstTaskIsFresh, Unused, Creating, CreatingHandler
<1>9. ASSUME NEW q \in Ops
      PROVE  LaunchBelief(op'[q], job', tasks') /\ FinishBelief(op'[q], job', tasks')
  <2>1. CASE q = o
    BY <1>5, <2>1, SilentBelief
  <2>2. CASE q # o
    <3>1. LaunchBelief(op[q], job, tasks) /\ FinishBelief(op[q], job, tasks)
      BY DEF RecordInv, Beliefs
    <3>2. LaunchBelief(op[q], job', tasks')
      BY <1>6, <1>8, <2>2, <3>1, BelieverHasTask DEF LaunchBelief, JoblessPcs
    <3>3. FinishBelief(op[q], job', tasks')
      BY <1>6, <1>8, <2>2, <3>1, BelieverHasTask DEF FinishBelief, Finishing
    <3>4. QED
      BY <1>5, <2>2, <3>2, <3>3
  <2>3. QED
    BY <2>1, <2>2
<1>10. ASSUME NEW u \in Tasks
       PROVE  TaskRecord(tasks'[u], job'[u], notices'[u])
  <2>1. TaskRecord(tasks[u], job[u], notices[u])
    BY DEF RecordInv, TasksRecorded
  <2>2. CASE u # t
    BY <1>4, <1>6, <2>1, <2>2
  <2>3. CASE u = t
    <3>1. tasks'[t] = tasks[t] \/ tasks'[t] = row
      BY <1>0, <1>4
    <3>2. CASE tasks'[t] = tasks[t]
      BY <1>4, <1>6, <1>7, <2>3, <3>2, StatesDiffer DEF TaskRecord, RunningReply
    <3>3. CASE tasks'[t] = row
      BY <1>3, <1>4, <1>6, <1>7, <2>3, <3>3, StatesDiffer DEF TaskRecord, RunningReply
    <3>4. QED
      BY <3>1, <3>2, <3>3
  <2>4. QED
    BY <2>2, <2>3
<1>11. QED
  BY <1>9, <1>10
     DEF RecordInv, TasksRecorded, Beliefs, TaskRecord, LaunchBelief, FinishBelief, Finishing

LEMMA CrashRecord ==
  ASSUME TypeInv, RecordInv, NEW o \in Ops, Crash(o)
  PROVE  RecordInv'
BY SilentRecord, DeparturesSilent DEF Crash, Becomes

\* The end of a job: a handler that believes anything else of the job than that
\* it runs is none of this job's.
LEMMA JobFinishesRecord ==
  ASSUME TypeInv, RecordInv, NEW t \in Tasks, JobFinishes(t)
  PROVE  RecordInv'
<1>0. /\ job \in [Tasks -> JobReplies \cup {"none"}] /\ notices \in [Tasks -> 0..MaxNotices]
  BY DEF TypeInv, TypeOK
<1>1. /\ job[t] = RunningReply /\ job'[t] \in JobResults
      /\ \A u \in Tasks : u # t => job'[u] = job[u] /\ notices'[u] = notices[u]
      /\ UNCHANGED << tasks, op >>
  BY <1>0, SchedulerAssumption DEF JobFinishes, SchedulerAssumption
<1>2. ASSUME NEW u \in Tasks
      PROVE  TaskRecord(tasks[u], job'[u], notices'[u])
  <2>1. TaskRecord(tasks[u], job[u], notices[u])
    BY DEF RecordInv, TasksRecorded
  <2>2. QED
    BY <1>1, <2>1, StatesDiffer DEF TaskRecord, RunningReply, JobResults
<1>3. ASSUME NEW q \in Ops
      PROVE  LaunchBelief(op[q], job', tasks') /\ FinishBelief(op[q], job', tasks)
  <2>1. LaunchBelief(op[q], job, tasks) /\ FinishBelief(op[q], job, tasks)
    BY DEF RecordInv, Beliefs
  <2>2. LaunchBelief(op[q], job', tasks')
    BY <1>1, <2>1, BelieverHasTask DEF LaunchBelief, JoblessPcs, RunningReply, JobResults
  <2>3. FinishBelief(op[q], job', tasks)
    BY <1>1, <2>1, BelieverHasTask DEF FinishBelief, RunningReply, JobResults
  <2>4. QED
    BY <2>2, <2>3
<1>4. QED
  BY <1>1, <1>2, <1>3
     DEF RecordInv, TasksRecorded, Beliefs, TaskRecord, LaunchBelief, FinishBelief, Finishing

LEMMA DeleteRecord ==
  ASSUME TypeInv, StartInv, RecordInv, NEW t \in Tasks, DeleteFinishedTask(t)
  PROVE  RecordInv'
<1>0. /\ job \in [Tasks -> JobReplies \cup {"none"}] /\ tasks \in [Tasks -> TaskRows]
  BY DEF TypeInv, TypeOK
<1>1. /\ tasks[t].state \in FinishedTaskStates
      /\ tasks'[t].state = TASK_ABSENT
      /\ job'[t] \in {"none", job[t]}
      /\ \A u \in Tasks : u # t => job'[u] = job[u] /\ tasks'[u] = tasks[u]
      /\ UNCHANGED << op, notices >>
  BY <1>0 DEF DeleteFinishedTask, NoTask
<1>2. ASSUME NEW u \in Tasks
      PROVE  TaskRecord(tasks'[u], job'[u], notices[u])
  <2>1. TaskRecord(tasks[u], job[u], notices[u])
    BY DEF RecordInv, TasksRecorded
  <2>2. CASE u # t
    BY <1>1, <2>1, <2>2
  <2>3. CASE u = t
    <3>1. job[t] # RunningReply
      BY <1>1, <2>1, <2>3, StatesDiffer DEF TaskRecord
    <3>2. QED
      BY <1>1, <2>3, <3>1, StatesDiffer DEF TaskRecord, RunningReply
  <2>4. QED
    BY <2>2, <2>3
<1>3. ASSUME NEW q \in Ops
      PROVE  LaunchBelief(op[q], job', tasks') /\ FinishBelief(op[q], job', tasks')
  <2>1. LaunchBelief(op[q], job, tasks) /\ FinishBelief(op[q], job, tasks)
    BY DEF RecordInv, Beliefs
  <2>2. op[q].pc \in LaunchPcs => op[q].task # t
    BY <1>1, StatesDiffer DEF StartInv, LaunchOwnsTask
  <2>3. LaunchBelief(op[q], job', tasks')
    <3>1. CASE op[q].task = t
      BY <1>1, <2>1, <2>2, <3>1 DEF LaunchBelief, LaunchPcs, JoblessPcs
    <3>2. CASE op[q].task # t
      BY <1>1, <2>1, <3>2, BelieverHasTask DEF LaunchBelief, JoblessPcs
    <3>3. QED
      BY <3>1, <3>2
  <2>4. FinishBelief(op[q], job', tasks')
    BY <1>1, <2>1, BelieverHasTask DEF FinishBelief
  <2>5. QED
    BY <2>3, <2>4
<1>4. QED
  BY <1>1, <1>2, <1>3
     DEF RecordInv, TasksRecorded, Beliefs, TaskRecord, LaunchBelief, FinishBelief, Finishing

\* The clock changes dates only.
LEMMA TickRecord ==
  ASSUME TypeInv, RecordInv, Tick
  PROVE  RecordInv'
<1>1. \A t \in Tasks : tasks'[t].state = tasks[t].state /\ tasks'[t].jobId = tasks[t].jobId
  BY DEF Tick, TypeInv, TypeOK, TaskRows
<1>2. \A o \in Ops : /\ op'[o].pc = op[o].pc /\ op'[o].task = op[o].task
                     /\ op'[o].kind = op[o].kind /\ op'[o].status = op[o].status
  BY DEF Tick, Aged, TypeInv, TypeOK, Handlers
<1>3. UNCHANGED << job, notices >>
  BY DEF Tick
<1>4. TasksRecorded'
  BY <1>1, <1>3 DEF RecordInv, TasksRecorded, TaskRecord
<1>5. ASSUME NEW q \in Ops
      PROVE  LaunchBelief(op'[q], job', tasks') /\ FinishBelief(op'[q], job', tasks')
  <2>1. LaunchBelief(op[q], job, tasks) /\ FinishBelief(op[q], job, tasks)
    BY DEF RecordInv, Beliefs
  <2>2. QED
    BY <1>1, <1>2, <1>3, <2>1, BelieverHasTask DEF LaunchBelief, FinishBelief, Finishing
<1>6. Beliefs'
  BY <1>5 DEF Beliefs, LaunchBelief, FinishBelief, Finishing
<1>7. QED
  BY <1>4, <1>6 DEF RecordInv

------------------------------------------------------------------------------
LEMMA RecordInvStep == TypeInv /\ TypeInv' /\ StartInv /\ RecordInv /\ [Next]_vars => RecordInv'
<1> SUFFICES ASSUME TypeInv, TypeInv', StartInv, RecordInv, [Next]_vars PROVE RecordInv'
  OBVIOUS
<1>1. CASE Tick
  BY <1>1, TickRecord
<1>2. ASSUME NEW o \in Ops,
             \/ CreateScheduledJob(o) \/ Disable(o) \/ PollExpired(o)
             \/ \E t \in Tasks : PollTask(o, t) \/ FinishNotice(o, t)
      PROVE  RecordInv'
  BY <1>2, BeginRecord
<1>3. ASSUME NEW o \in Ops, Step(o) PROVE RecordInv'
  BY <1>3, ReadsRecord, UpdatesRecord, MarksRecord, MarkStartedRecord, MarkQueuedRecord,
     StartJobRecord, AddTaskRecord
     DEF Step, InLease, StartTask, AddFollowUp, Repair
<1>4. ASSUME NEW o \in Ops, Crash(o) PROVE RecordInv'
  BY <1>4, CrashRecord
<1>5. ASSUME NEW t \in Tasks, JobFinishes(t) \/ DeleteFinishedTask(t) PROVE RecordInv'
  BY <1>5, JobFinishesRecord, DeleteRecord
<1>6. CASE UNCHANGED vars
  BY <1>6
     DEF vars, RecordInv, TasksRecorded, Beliefs, TaskRecord, LaunchBelief, FinishBelief, Finishing
<1>7. QED
  BY <1>1, <1>2, <1>3, <1>4, <1>5, <1>6 DEF Next

LEMMA RecordInvHolds == Spec => [](TypeInv /\ StartInv /\ RecordInv)
<1>1. Spec => []TypeInv
  BY TypeInvInitially, TypeInvStep, PTL DEF Spec
<1>2. QED
  BY <1>1, StartInvInitially, StartInvStep, RecordInvInitially, RecordInvStep, PTL DEF Spec

\* What a finished task records is what became of its job, and a running job has
\* a task that is queued or started, however late, lost or repeated the answers
\* and the notices are (controller/combined.ts startTask, taskFinished).
THEOREM RecordsAreTrue == Spec => []RecordIsTrue
<1>1. RecordInv => RecordIsTrue
  BY DEF RecordInv, TasksRecorded, TaskRecord, RecordIsTrue
<1>2. QED
  BY <1>1, RecordInvHolds, PTL

------------------------------------------------------------------------------
(* The tasks keep their life: every step is a step of TaskLife, or none.    *)

LifeStep == [Life!LifeNext]_(Life!life)

\* The two modules name the same states.
LEMMA LifeNames ==
  /\ Life!TASK_ABSENT = TASK_ABSENT
  /\ Life!TASK_STATE_PENDING = TASK_STATE_PENDING
  /\ Life!TASK_STATE_QUEUED = TASK_STATE_QUEUED
  /\ Life!TASK_STATE_STARTED = TASK_STATE_STARTED
  /\ Life!TASK_STATE_START_ERROR = TASK_STATE_START_ERROR
  /\ Life!TASK_STATE_COMPLETE_ERROR = TASK_STATE_COMPLETE_ERROR
  /\ Life!TASK_STATE_COMPLETED = TASK_STATE_COMPLETED
  /\ Life!FinishedTaskStates = FinishedTaskStates
BY DEF Life!TASK_ABSENT, Life!TASK_STATE_PENDING, Life!TASK_STATE_QUEUED,
       Life!TASK_STATE_STARTED, Life!TASK_STATE_START_ERROR, Life!TASK_STATE_COMPLETE_ERROR,
       Life!TASK_STATE_COMPLETED, Life!TASK_STATE_FAILED, Life!FinishedTaskStates, TASK_ABSENT,
       TASK_STATE_PENDING, TASK_STATE_QUEUED, TASK_STATE_STARTED, TASK_STATE_START_ERROR,
       TASK_STATE_COMPLETE_ERROR, TASK_STATE_COMPLETED, TASK_STATE_FAILED, FinishedTaskStates

\* A step that changes no state, no job and no count.
LEMMA LifeSame ==
  ASSUME \A t \in Tasks : tasks'[t].state = tasks[t].state, UNCHANGED << job, starts >>
  PROVE  LifeStep
BY DEF LifeStep, Life!life

LEMMA LifeTakes ==
  ASSUME NEW t \in Tasks,
         \/ Life!Create(t) \/ Life!Enqueue(t) \/ Life!Launch(t) \/ Life!End(t) \/ Life!Skip(t)
         \/ Life!Start(t) \/ Life!FailToStart(t) \/ Life!Complete(t) \/ Life!Fail(t)
         \/ Life!LoseStatus(t) \/ Life!Delete(t)
  PROVE  LifeStep
BY DEF LifeStep, Life!LifeNext

\* A step that changes the state of one task.
LEMMA LifeMoves ==
  ASSUME NEW t \in Tasks, NEW s, tasks'[t].state = s,
         \A u \in Tasks : u # t => tasks'[u].state = tasks[u].state
  PROVE  Life!Becomes(t, s)
BY DEF Life!Becomes

\* markTaskState and what is like it: the state changes from the expected one, or stays.
LEMMA UpdateLife ==
  ASSUME TypeInv, NEW o \in Ops, NEW t \in Tasks, NEW condition, NEW row,
         NEW STATE accepted, NEW STATE rejected,
         UpdateTask(o, t, condition, row, accepted, rejected)
  PROVE  \/ tasks' = tasks
         \/ condition /\ Life!Becomes(t, row.state)
<1>1. tasks' = tasks \/ (condition /\ tasks' = [tasks EXCEPT ![t] = row])
  BY DEF UpdateTask
<1>2. ASSUME condition, tasks' = [tasks EXCEPT ![t] = row]
      PROVE  Life!Becomes(t, row.state)
  <2>1. tasks'[t] = row /\ \A u \in Tasks : u # t => tasks'[u] = tasks[u]
    BY <1>2 DEF TypeInv, TypeOK
  <2>2. QED
    BY <2>1, LifeMoves
<1>3. QED
  BY <1>1, <1>2

LEMMA MarkLife ==
  ASSUME TypeInv, NEW o \in Ops, op[o].task \in Tasks, NEW expected, NEW new,
         NEW STATE accepted, NEW STATE rejected,
         MarkTask(o, expected, new, accepted, rejected)
  PROVE  /\ UNCHANGED << job, starts >>
         /\ \/ tasks' = tasks
            \/ tasks[op[o].task].state = expected /\ Life!Becomes(op[o].task, new)
<1> DEFINE t == op[o].task
           row == [tasks[t] EXCEPT !.state = new]
<1>1. /\ UpdateTask(o, t, tasks[t].state = expected, row, accepted, rejected)
      /\ UNCHANGED << job, starts >>
  BY DEF MarkTask
<1>2. row.state = new
  BY DEF TypeInv, TypeOK, TaskRows
<1> HIDE DEF row
<1>3. QED
  BY <1>1, <1>2, UpdateLife

LEMMA QuietLife ==
  ASSUME NEW o \in Ops,
         \/ CreateScheduledJob(o) \/ Disable(o) \/ PollExpired(o) \/ Crash(o)
         \/ \E t \in Tasks : PollTask(o, t) \/ FinishNotice(o, t)
         \/ AddScheduledJob(o) \/ InLease(o) \/ ShouldSkip(o) \/ CheckPending(o) \/ Repair(o)
  PROVE  LifeStep
<1>1. CASE \/ CreateScheduledJob(o) \/ Disable(o) \/ PollExpired(o) \/ Crash(o)
           \/ \E t \in Tasks : PollTask(o, t) \/ FinishNotice(o, t)
  BY <1>1, LifeSame
     DEF CreateScheduledJob, Disable, PollExpired, Crash, PollTask, FinishNotice, Begin
<1>2. CASE \/ AddScheduledJob(o) \/ TakeLease(o) \/ ReleaseLease(o) \/ MarkNeedsRepair(o)
           \/ StealLease(o) \/ RepairAbort(o)
  <2>1. UNCHANGED << tasks, job, starts >>
    BY <1>2
       DEF AddScheduledJob, TakeLease, ReleaseLease, MarkNeedsRepair, StealLease, RepairAbort,
           UpdateSchedule
  <2>2. QED
    BY <2>1, LifeSame
<1>3. CASE \/ Lookup(o) \/ ReadSchedule(o) \/ ShouldSkip(o) \/ CheckPending(o)
           \/ RepairRead(o) \/ RepairFind(o) \/ RepairCheck(o)
  <2>1. UNCHANGED << tasks, job, starts >>
    BY <1>3
       DEF Lookup, ReadSchedule, ShouldSkip, CheckPending, RepairRead, RepairFind, RepairCheck,
           ReadStore
  <2>2. QED
    BY <2>1, LifeSame
<1>4. QED
  BY <1>1, <1>2, <1>3 DEF InLease, Repair

LEMMA TickLife == TypeInv /\ Tick => LifeStep
<1> SUFFICES ASSUME TypeInv, Tick PROVE LifeStep
  OBVIOUS
<1>1. \A t \in Tasks : tasks'[t].state = tasks[t].state
  BY DEF TypeInv, TypeOK, TaskRows, Tick
<1>2. QED
  BY <1>1, LifeSame DEF Tick

\* A handler has a task where it marks it.
LEMMA MarkingHandler ==
  ASSUME TypeInv, NEW o \in Ops, op[o].pc \in TaskPcs
  PROVE  op[o].task \in Tasks
BY PlacedTask

\* markTaskQueued: what is pending has no job and was not started.
LEMMA QueueLife ==
  ASSUME TypeInv, StartInv, RecordInv, NEW o \in Ops, MarkTaskQueued(o)
  PROVE  LifeStep
<1>1. PICK t \in Tasks : t = op[o].task
  BY MarkingHandler DEF MarkTaskQueued, TaskPcs
<1>2. /\ UNCHANGED << job, starts >>
      /\ tasks' = tasks
           \/ (tasks[t].state = TASK_STATE_PENDING /\ Life!Becomes(t, TASK_STATE_QUEUED))
  BY <1>1, MarkLife DEF MarkTaskQueued
<1>3. CASE tasks' = tasks
  BY <1>2, <1>3, LifeSame
<1>4. CASE tasks[t].state = TASK_STATE_PENDING /\ Life!Becomes(t, TASK_STATE_QUEUED)
  <2>1. starts[t] = 0 /\ job[t] = "none"
    BY <1>1, <1>4 DEF StartInv, PendingNotStarted, RecordInv, TasksRecorded, TaskRecord
  <2>2. Life!Enqueue(t)
    BY <1>1, <1>2, <1>4, <2>1, LifeNames DEF Life!Enqueue
  <2>3. QED
    BY <2>2, LifeTakes
<1>5. QED
  BY <1>2, <1>3, <1>4

\* markTaskSkipped, markTaskStartFailed: no job was launched.
LEMMA LaunchOverLife ==
  ASSUME TypeInv, StartInv, RecordInv, NEW o \in Ops, MarkTaskSkipped(o) \/ MarkTaskStartFailed(o)
  PROVE  LifeStep
<1>1. op[o].pc \in {"markSkipped", "markStartFailed"}
  BY DEF MarkTaskSkipped, MarkTaskStartFailed
<1>t. PICK t \in Tasks : t = op[o].task
  BY MarkingHandler DEF MarkTaskSkipped, MarkTaskStartFailed, TaskPcs, LaunchPcs
<1>2. /\ job[t] = "none"
      /\ op[o].pc = "markSkipped" => starts[t] = 0
      /\ op[o].pc = "markStartFailed" => starts[t] = 1
  BY <1>1, <1>t
     DEF RecordInv, Beliefs, LaunchBelief, JoblessPcs, StartInv, LaunchOwnsTask, LaunchPcs,
         BeforeStartPcs, LaunchedPcs
<1>3. CASE MarkTaskSkipped(o)
  <2>1. /\ UNCHANGED << job, starts >>
        /\ tasks' = tasks
             \/ (tasks[t].state = TASK_STATE_QUEUED /\ Life!Becomes(t, TASK_STATE_COMPLETED))
    BY <1>t, <1>3, MarkLife DEF MarkTaskSkipped
  <2>2. tasks' = tasks \/ Life!Skip(t)
    BY <1>2, <1>3, <2>1, LifeNames DEF MarkTaskSkipped, Life!Skip
  <2>3. QED
    BY <2>1, <2>2, LifeSame, LifeTakes
<1>4. CASE MarkTaskStartFailed(o)
  <2>1. /\ UNCHANGED << job, starts >>
        /\ tasks' = tasks
             \/ (tasks[t].state = TASK_STATE_QUEUED /\ Life!Becomes(t, TASK_STATE_START_ERROR))
    BY <1>t, <1>4, MarkLife DEF MarkTaskStartFailed
  <2>2. tasks' = tasks \/ Life!FailToStart(t)
    BY <1>2, <1>4, <2>1, LifeNames DEF MarkTaskStartFailed, Life!FailToStart
  <2>3. QED
    BY <2>1, <2>2, LifeSame, LifeTakes
<1>5. QED
  BY <1>3, <1>4

\* startJob: the task of the handler is queued, and nobody started it.
LEMMA StartJobLife ==
  ASSUME TypeInv, StartInv, RecordInv, NEW o \in Ops, StartJob(o)
  PROVE  LifeStep
<1>1. op[o].pc = "startJob"
  BY DEF StartJob
<1>t. PICK t \in Tasks : t = op[o].task
  BY MarkingHandler DEF StartJob, TaskPcs, LaunchPcs
<1>2. tasks[t].state = TASK_STATE_QUEUED /\ starts[t] = 0 /\ job[t] = "none"
  BY <1>1, <1>t
     DEF RecordInv, Beliefs, LaunchBelief, JoblessPcs, StartInv, LaunchOwnsTask, LaunchPcs,
         BeforeStartPcs
<1>3. /\ \E result \in { "running", "completed", "failed", "none" } :
           job' = [job EXCEPT ![t] = result]
      /\ starts' = [starts EXCEPT ![t] = starts[t] + 1]
      /\ UNCHANGED tasks
  BY <1>t DEF StartJob
<1>4. starts' = [starts EXCEPT ![t] = 1]
  BY <1>2, <1>3
<1>5. Life!Launch(t)
  BY <1>2, <1>3, <1>4, LifeNames DEF Life!Launch
<1>6. QED
  BY <1>5, LifeTakes

\* markTaskStarted: the handler has a job to record.
LEMMA MarkStartedLife ==
  ASSUME TypeInv, StartInv, RecordInv, NEW o \in Ops, MarkTaskStarted(o)
  PROVE  LifeStep
<1>1. op[o].pc = "markStarted"
  BY DEF MarkTaskStarted
<1>t. PICK t \in Tasks : t = op[o].task
  BY MarkingHandler DEF MarkTaskStarted, TaskPcs, LaunchPcs
<1> DEFINE row == [tasks[t] EXCEPT !.state = TASK_STATE_STARTED, !.jobId = TRUE]
           accepted ==
             CASE op[o].status = "running"   -> AfterStart(op[o])
               [] op[o].status = "completed" -> { [ op[o] EXCEPT !.pc = "markCompleted" ] }
               [] op[o].status = "failed"    -> { [ op[o] EXCEPT !.pc = "markFailed" ] }
<1>2. starts[t] = 1
  BY <1>1, <1>t DEF StartInv, LaunchOwnsTask, LaunchPcs, LaunchedPcs
<1>3. job[t] # "none"
  <2>1. op[o].status \in {"running", "completed", "failed"}
    BY <1>1 DEF TypeInv, PlacedHandlers, Placed
  <2>2. QED
    BY <1>1, <1>t, <2>1 DEF RecordInv, Beliefs, LaunchBelief, JobResults
<1>4. row.state = TASK_STATE_STARTED
  BY DEF TypeInv, TypeOK, TaskRows
<1>5. /\ UpdateTask(o, t, tasks[t].state = TASK_STATE_QUEUED, row, accepted, Failed(op[o]))
      /\ UNCHANGED << job, starts >>
  BY <1>t DEF MarkTaskStarted
<1> HIDE DEF row, accepted
<1>6. tasks' = tasks
        \/ (tasks[t].state = TASK_STATE_QUEUED /\ Life!Becomes(t, TASK_STATE_STARTED))
  BY <1>4, <1>5, UpdateLife
<1>7. tasks' = tasks \/ Life!Start(t)
  BY <1>2, <1>3, <1>5, <1>6, LifeNames DEF Life!Start
<1>8. QED
  BY <1>5, <1>7, LifeSame, LifeTakes

\* markTaskCompleted after a job that completed at once.
LEMMA MarkCompletedLife ==
  ASSUME TypeInv, RecordInv, NEW o \in Ops, MarkTaskCompleted(o)
  PROVE  LifeStep
<1>t. PICK t \in Tasks : t = op[o].task
  BY MarkingHandler DEF MarkTaskCompleted, TaskPcs, AnsweredPcs
<1>1. /\ UNCHANGED << job, starts >>
      /\ tasks' = tasks
           \/ (tasks[t].state = TASK_STATE_STARTED /\ Life!Becomes(t, TASK_STATE_COMPLETED))
  BY <1>t, MarkLife DEF MarkTaskCompleted
<1>2. tasks[t].state = TASK_STATE_STARTED => job[t] = "completed"
  BY <1>t, StatesDiffer DEF MarkTaskCompleted, RecordInv, Beliefs, LaunchBelief
<1>3. tasks' = tasks \/ Life!Complete(t)
  BY <1>1, <1>2, LifeNames DEF Life!Complete
<1>4. QED
  BY <1>1, <1>3, LifeSame, LifeTakes

\* markTaskFailed after a job that failed at once: it expects a queued task, and the
\* task of its handler has left the queue.
LEMMA MarkFailedLife ==
  ASSUME TypeInv, StartInv, NEW o \in Ops, MarkTaskFailed(o)
  PROVE  LifeStep
<1>1. op[o].task \in Tasks /\ tasks[op[o].task].state # TASK_STATE_QUEUED
  BY MarkingHandler
     DEF MarkTaskFailed, TaskPcs, AnsweredPcs, StartInv, AnsweredLeftQueue
<1>2. UNCHANGED << tasks, job, starts >>
  BY <1>1, MarkLife DEF MarkTaskFailed
<1>3. QED
  BY <1>2, LifeSame

\* taskFinished: the notice tells what became of the job of this very task.
LEMMA FinishedLife ==
  ASSUME TypeInv, RecordInv, NEW o \in Ops, MarkTaskFinished(o)
  PROVE  LifeStep
<1>t. PICK t \in Tasks : t = op[o].task
  BY MarkingHandler DEF MarkTaskFinished, TaskPcs
<1>1. tasks[t].state = TASK_STATE_STARTED => job[t] = op[o].status
  BY <1>t, StatesDiffer DEF MarkTaskFinished, RecordInv, Beliefs, FinishBelief, Finishing
<1>2. CASE /\ op[o].status = "completed"
           /\ MarkTask(o, TASK_STATE_STARTED, TASK_STATE_COMPLETED,
                       AfterFinish(op[o]), Failed(op[o]))
  <2>1. /\ UNCHANGED << job, starts >>
        /\ tasks' = tasks
             \/ (tasks[t].state = TASK_STATE_STARTED /\ Life!Becomes(t, TASK_STATE_COMPLETED))
    BY <1>t, <1>2, MarkLife
  <2>2. tasks' = tasks \/ Life!Complete(t)
    BY <1>1, <1>2, <2>1, LifeNames DEF Life!Complete
  <2>3. QED
    BY <2>1, <2>2, LifeSame, LifeTakes
<1>3. CASE /\ op[o].status = "failed"
           /\ MarkTask(o, TASK_STATE_STARTED, TASK_STATE_COMPLETE_ERROR,
                       AfterFailure(op[o]), Failed(op[o]))
  <2>1. /\ UNCHANGED << job, starts >>
        /\ tasks' = tasks
             \/ (tasks[t].state = TASK_STATE_STARTED /\ Life!Becomes(t, TASK_STATE_COMPLETE_ERROR))
    BY <1>t, <1>3, MarkLife
  <2>2. tasks' = tasks \/ Life!Fail(t)
    BY <1>1, <1>3, <2>1, LifeNames DEF Life!Fail, Life!Failures
  <2>3. QED
    BY <2>1, <2>2, LifeSame, LifeTakes
<1>4. CASE UNCHANGED << tasks, job, starts >>
  BY <1>4, LifeSame
<1>5. QED
  BY <1>2, <1>3, <1>4 DEF MarkTaskFinished

\* addTask: the name has no row, and no job that still runs.
LEMMA AddTaskLife ==
  ASSUME TypeInv, StartInv, NEW o \in Ops, AddTask(o)
  PROVE  LifeStep
<1> DEFINE row == [ state |-> TASK_STATE_PENDING, executeAt |-> op[o].now + op[o].delay,
                    jobId |-> FALSE ]
<1>1. PICK t \in Tasks :
        /\ IF op[o].task # None THEN t = op[o].task ELSE Unused(t)
        /\ UpdateTask(o, t, TRUE, row, { Leave(op[o], FALSE) }, Failed(op[o]))
        /\ job' = [job EXCEPT ![t] = "none"]
        /\ starts' = [starts EXCEPT ![t] = 0]
  BY DEF AddTask
<1>2. op[o].pc = "addTask"
  BY DEF AddTask
<1>3. tasks[t].state = TASK_ABSENT /\ job[t] # "running"
  <2>1. CASE op[o].task # None
    BY <1>1, <1>2, <2>1 DEF StartInv, FirstTaskIsFresh, Creating, CreatingHandler
  <2>2. CASE op[o].task = None
    BY <1>1, <2>2 DEF Unused
  <2>3. QED
    BY <2>1, <2>2
<1>4. row.state = TASK_STATE_PENDING
  OBVIOUS
<1> HIDE DEF row
<1>5. tasks' = tasks \/ Life!Becomes(t, TASK_STATE_PENDING)
  BY <1>1, <1>4, UpdateLife
<1>6. Life!Create(t)
  BY <1>1, <1>3, <1>5, LifeNames DEF Life!Create
<1>7. QED
  BY <1>6, LifeTakes

LEMMA JobEndsLife ==
  ASSUME RecordInv, NEW t \in Tasks, JobFinishes(t)
  PROVE  LifeStep
<1>1. job[t] = "running" /\ UNCHANGED << tasks, starts >>
  BY DEF JobFinishes
<1>2. PICK result \in Results : job' = [job EXCEPT ![t] = result]
  BY DEF JobFinishes
<1>3. result \in { "completed", "failed", "unknown" }
  BY SchedulerAssumption DEF SchedulerAssumption, JobResults
<1>4. tasks[t].state \in {TASK_STATE_QUEUED, TASK_STATE_STARTED}
  BY <1>1 DEF RecordInv, TasksRecorded, TaskRecord
<1>5. Life!End(t)
  BY <1>1, <1>2, <1>3, <1>4, LifeNames DEF Life!End
<1>6. QED
  BY <1>5, LifeTakes

LEMMA DeleteLife ==
  ASSUME TypeInv, NEW t \in Tasks, DeleteFinishedTask(t)
  PROVE  LifeStep
<1>1. /\ tasks[t].state \in FinishedTaskStates
      /\ tasks' = [tasks EXCEPT ![t] = NoTask]
      /\ job' = [job EXCEPT ![t] = "none"] \/ job' = job
      /\ starts' = [starts EXCEPT ![t] = 0]
  BY DEF DeleteFinishedTask
<1>2. tasks'[t].state = TASK_ABSENT /\ \A u \in Tasks : u # t => tasks'[u] = tasks[u]
  BY <1>1 DEF TypeInv, TypeOK, NoTask
<1>3. Life!Becomes(t, TASK_ABSENT)
  BY <1>2, LifeMoves
<1>4. Life!Delete(t)
  BY <1>1, <1>3, LifeNames DEF Life!Delete
<1>5. QED
  BY <1>4, LifeTakes

LEMMA EveryStepLife == TypeInv /\ StartInv /\ RecordInv /\ [Next]_vars => LifeStep
<1> SUFFICES ASSUME TypeInv, StartInv, RecordInv, [Next]_vars PROVE LifeStep
  OBVIOUS
<1>1. CASE Tick
  BY <1>1, TickLife
<1>2. ASSUME NEW o \in Ops,
             \/ CreateScheduledJob(o) \/ Disable(o) \/ PollExpired(o) \/ Crash(o)
             \/ \E t \in Tasks : PollTask(o, t) \/ FinishNotice(o, t)
      PROVE  LifeStep
  BY <1>2, QuietLife
<1>3. ASSUME NEW o \in Ops, Step(o) PROVE LifeStep
  BY <1>3, QuietLife, QueueLife, LaunchOverLife, StartJobLife, MarkStartedLife,
     MarkCompletedLife, MarkFailedLife, FinishedLife, AddTaskLife
     DEF Step, StartTask, AddFollowUp
<1>4. ASSUME NEW t \in Tasks, JobFinishes(t) \/ DeleteFinishedTask(t) PROVE LifeStep
  BY <1>4, JobEndsLife, DeleteLife
<1>5. CASE UNCHANGED vars
  BY <1>5, LifeSame DEF vars
<1>6. QED
  BY <1>1, <1>2, <1>3, <1>4, <1>5 DEF Next

\* The rows of the tasks and their jobs implement TaskLife: a task is queued from
\* pending and once, its job is launched once and while it is queued, it is finished
\* with what became of that job, and deleted only then (markTaskState, startTask,
\* taskFinished, deleteFinishedTask).  Nothing is assumed of the lease: the theorem
\* holds for handlers that were overtaken too.
THEOREM TasksImplementLife == Spec => TasksKeepTheirLife
<1>1. Init => Life!LifeInit
  <2> SUFFICES ASSUME Init PROVE Life!LifeInit
    OBVIOUS
  <2>1. [t \in Tasks |-> tasks[t].state] = [t \in Tasks |-> TASK_ABSENT]
    BY DEF Init, NoTask
  <2>2. QED
    BY <2>1, LifeNames DEF Init, Life!LifeInit
<1>2. TypeInv /\ StartInv /\ RecordInv /\ [Next]_vars => [Life!LifeNext]_(Life!life)
  BY EveryStepLife DEF LifeStep
<1>3. QED
  BY <1>1, <1>2, RecordInvHolds, PTL DEF Spec, TasksKeepTheirLife, Life!LifeSpec

==============================================================================
