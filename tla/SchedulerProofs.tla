--------------------------- MODULE SchedulerProofs ---------------------------
(***************************************************************************)
(* What holds of Scheduler for every value of its constants: its types,     *)
(* lemmas on how a handler goes on, and that each call brings it nearer to  *)
(* its end.                                                                *)
(***************************************************************************)
EXTENDS SchedulerProps, TLAPS

\* The assumptions on the constants, in the form the proofs use them.
LEMMA ConstantTypes ==
  /\ Len(RetryDelays) \in Nat
  /\ \A i \in 1..Len(RetryDelays) : RetryDelays[i] \in Nat
  /\ RetryTotal \in Int
  /\ Period \in Nat
  /\ \A r \in Retries : r # None => r \in Nat
  /\ Responses \subseteq JobReplies
  /\ NextActions \subseteq {"queue", "disable", "invalid"}
  /\ MaxNotices \in Nat /\ MaxCrashes \in Nat /\ MaxFaults \in Nat
  /\ LeaseTime \in Nat /\ MaxAge \in Nat
BY StoreAssumption, SchedulerAssumption DEF StoreAssumption, SchedulerAssumption

LEMMA NoneIsNone ==
  /\ None \notin Ops /\ None \notin Tasks /\ None \notin Int
  /\ None \notin Creations /\ None \notin ScheduleUpdateStateType
BY SchedulerAssumption DEF SchedulerAssumption

------------------------------------------------------------------------------
(* The inductive invariant behind TypeOK: a handler's fields fit the place   *)
(* it is at.                                                               *)

UpdateKinds == { SCHEDULE_STATE_START_TASK, SCHEDULE_STATE_END_TASK, SCHEDULE_STATE_PASTURE }

\* Where a handler holds a job's answer that it has not recorded yet, or works
\* on the state of its task.
LaunchPcs == { "dupCheck", "startJob", "markSkipped", "markStarted", "markStartFailed" }
AnsweredPcs == { "markCompleted", "markFailed" }
\* The places where a handler has forgotten its task.
ExitPcs == { "needsRepair", "release", "addCheck", "abort" }
TaskPcs == { "lookup", "queue", "finish", "addSchedule" } \cup LaunchPcs \cup AnsweredPcs

Placed(p) ==
  /\ p.pc = "steal" => p.status \in ScheduleUpdateStateType \cup {None}
  /\ p.pc = "markStarted" => p.status \in {"running", "completed", "failed"}
  /\ p.pc \in {"lease", "read"} => p.kind \in UpdateKinds
  /\ p.pc = "lookup" => p.kind = SCHEDULE_STATE_END_TASK
  /\ p.pc = "addSchedule" => p.kind = SCHEDULE_STATE_ADD_TASK
  /\ p.pc \in {"lease", "read"} /\ p.kind # SCHEDULE_STATE_PASTURE => p.task \in Tasks
  /\ p.pc \in TaskPcs => p.task \in Tasks
  /\ p.pc \in ExitPcs => p.task = None

PlacedHandlers == { p \in Handlers : Placed(p) }

TypeInv == TypeOK /\ op \in [Ops -> PlacedHandlers]

------------------------------------------------------------------------------
(* What the operators that say how a handler goes on return.               *)

LEMMA IdlePlaced == Idle \in PlacedHandlers
<1>1. Idle \in Handlers
  BY ConstantTypes DEF Idle, Handlers, Pcs
<1>2. Placed(Idle)
  BY DEF Idle, Placed, TaskPcs, ExitPcs, LaunchPcs, AnsweredPcs
<1>3. QED
  BY <1>1, <1>2 DEF PlacedHandlers

LEMMA ExitType ==
  ASSUME NEW p \in Handlers, NEW pc \in ExitPcs
  PROVE  /\ Exit(p, pc) \in PlacedHandlers
         /\ Exit(p, pc).pc = pc
         /\ Exit(p, pc).kind = p.kind
         /\ Exit(p, pc).task = None
<1>1. Idle \in Handlers /\ Idle.task = None
  BY IdlePlaced DEF PlacedHandlers, Idle
<1>2. pc \in Pcs
  BY DEF ExitPcs, Pcs, LeasedPcs
<1>3. Exit(p, pc) \in Handlers
  BY <1>1, <1>2 DEF Exit, Handlers
<1>4. Exit(p, pc).pc = pc /\ Exit(p, pc).kind = p.kind /\ Exit(p, pc).task = None
  BY <1>1 DEF Exit, Handlers
<1>5. Placed(Exit(p, pc))
  BY <1>4 DEF Placed, ExitPcs, TaskPcs, LaunchPcs, AnsweredPcs
<1>6. QED
  BY <1>3, <1>4, <1>5 DEF PlacedHandlers

LEMMA FailedType ==
  ASSUME NEW p \in Handlers
  PROVE  /\ Failed(p) \in PlacedHandlers
         /\ Failed(p).pc = "needsRepair"
         /\ Failed(p).task = None
BY ExitType DEF Failed, ExitPcs

LEMMA LeaveType ==
  ASSUME NEW p \in Handlers, NEW pastured \in BOOLEAN
  PROVE  /\ Leave(p, pastured) \in PlacedHandlers
         /\ Leave(p, pastured).pc = "release"
         /\ Leave(p, pastured).task = None
<1> DEFINE e == Exit(p, "release")
<1>1. e \in Handlers /\ Placed(e) /\ e.pc = "release" /\ e.task = None
  BY ExitType DEF ExitPcs, PlacedHandlers
<1>2. Leave(p, pastured) = [ e EXCEPT !.pasture = pastured ]
  BY DEF Leave
<1> HIDE DEF e
<1>3. Leave(p, pastured) \in Handlers
  BY <1>1, <1>2 DEF Handlers
<1>4. Leave(p, pastured).pc = "release" /\ Leave(p, pastured).task = None
  BY <1>1, <1>2 DEF Handlers
<1>5. QED
  BY <1>3, <1>4 DEF PlacedHandlers, Placed, TaskPcs, ExitPcs, LaunchPcs, AnsweredPcs

LEMMA QueueType ==
  ASSUME NEW p \in Handlers, NEW seconds \in Nat
  PROVE  /\ Queue(p, seconds) \in PlacedHandlers
         /\ Queue(p, seconds).pc = "addCheck"
         /\ Queue(p, seconds).task = None
<1> DEFINE e == Exit(p, "addCheck")
<1>1. e \in Handlers /\ Placed(e) /\ e.pc = "addCheck" /\ e.task = None
  BY ExitType DEF ExitPcs, PlacedHandlers
<1>2. Queue(p, seconds) = [ e EXCEPT !.delay = seconds ]
  BY DEF Queue
<1> HIDE DEF e
<1>3. Queue(p, seconds) \in Handlers
  BY <1>1, <1>2 DEF Handlers
<1>4. Queue(p, seconds).pc = "addCheck" /\ Queue(p, seconds).task = None
  BY <1>1, <1>2 DEF Handlers
<1>5. QED
  BY <1>3, <1>4 DEF PlacedHandlers, Placed, TaskPcs, ExitPcs, LaunchPcs, AnsweredPcs

\* A handler that has done its task's work goes on without the task.
Departures == { p \in PlacedHandlers : p.pc \in ExitPcs /\ p.task = None }

LEMMA Departed ==
  ASSUME NEW p \in Handlers
  PROVE  /\ Failed(p) \in Departures
         /\ \A pc \in ExitPcs : Exit(p, pc) \in Departures
         /\ \A pastured \in BOOLEAN : Leave(p, pastured) \in Departures
         /\ \A seconds \in Nat : Queue(p, seconds) \in Departures
BY ExitType, FailedType, LeaveType, QueueType DEF Departures, ExitPcs

LEMMA FollowDeparts ==
  ASSUME NEW p \in Handlers, NEW answer \in Answers, NEW pastured \in BOOLEAN
  PROVE  Follow(p, answer, pastured) \in Departures
<1>1. answer \in {"queue", "disable", "invalid"}
  BY ConstantTypes DEF Answers
<1>2. CASE answer = "queue"
  BY <1>2, Departed, ConstantTypes DEF Follow
<1>3. CASE answer = "disable"
  BY <1>3, Departed DEF Follow
<1>4. CASE answer = "invalid"
  BY <1>4, Departed DEF Follow
<1>5. QED
  BY <1>1, <1>2, <1>3, <1>4

LEMMA FollowUpDeparts ==
  ASSUME NEW p \in Handlers
  PROVE  /\ AfterStart(p) \subseteq Departures
         /\ AfterFinish(p) \subseteq Departures
         /\ AfterFailure(p) \subseteq Departures
         /\ AfterFailedStart(p) \subseteq Departures
<1>1. AfterStart(p) \subseteq Departures
  BY FollowDeparts, Departed DEF AfterStart
<1>2. AfterFinish(p) \subseteq Departures
  BY FollowDeparts, Departed DEF AfterFinish
<1>3. AfterFailure(p) \subseteq Departures
  <2>1. \A r \in Retries \cup {None} :
          (IF r = None THEN AfterFinish(p) ELSE { Queue(p, r) }) \subseteq Departures
    BY <1>2, Departed, ConstantTypes
  <2>2. QED
    BY <2>1 DEF AfterFailure, RetryAnswers
<1>4. AfterFailedStart(p) \subseteq Departures
  <2>1. { Follow(p, a, FALSE) : a \in Answers } \subseteq Departures
    BY FollowDeparts
  <2>2. \A r \in Retries \cup {None} :
          (IF r # None THEN { Queue(p, r) }
           ELSE IF sched.creation = "finish" THEN { Follow(p, a, FALSE) : a \in Answers }
           ELSE AfterStart(p)) \subseteq Departures
    BY <1>1, <2>1, Departed, ConstantTypes
  <2>3. RetryAnswers \subseteq Retries \cup {None}
    BY DEF RetryAnswers
  <2> QED
    BY <2>2, <2>3 DEF AfterFailedStart
<1>5. QED
  BY <1>1, <1>2, <1>3, <1>4

------------------------------------------------------------------------------
(* The rows that a conditional update writes are rows.                     *)

LEMMA NewScheduleType ==
  ASSUME NEW creation \in Creations, NEW skip \in Skips, NEW t \in Tasks, NEW o \in Ops,
         NEW now \in Int
  PROVE  NewSchedule(creation, skip, t, o, now) \in Schedules
<1>1. skip \in BOOLEAN
  BY SchedulerAssumption DEF SchedulerAssumption
<1>2. QED
  BY <1>1, ConstantTypes
     DEF NewSchedule, Schedules, LeaseExpiry, ScheduleUpdateStateType

LEMMA ScheduleTypes ==
  ASSUME NEW row \in Schedules, NEW o \in Ops, NEW now \in Int, NEW pastured \in BOOLEAN,
         NEW kind \in ScheduleUpdateStateType, NEW t \in Tasks \cup {None},
         NEW source \in ScheduleUpdateStateType \cup {None}
  PROVE  /\ Lease(row, kind, t, o, now) \in Schedules
         /\ Release(row, pastured) \in Schedules
         /\ NeedsRepair(row, now, pastured) \in Schedules
         /\ Steal(row, source, o, now) \in Schedules
<1>1. LeaseExpiry(now) \in Int
  BY ConstantTypes DEF LeaseExpiry
<1>2. Lease(row, kind, t, o, now) \in Schedules
  BY <1>1 DEF Lease, Schedules
<1>3. Release(row, pastured) \in Schedules
  BY DEF Release, Schedules
<1>4. NeedsRepair(row, now, pastured) \in Schedules
  BY DEF NeedsRepair, Schedules
<1>5. Steal(row, source, o, now) \in Schedules
  BY <1>1 DEF Steal, Schedules, ScheduleUpdateStateType
<1>6. QED
  BY <1>2, <1>3, <1>4, <1>5

------------------------------------------------------------------------------
(* What one store call does to the variables it is made on.                *)

\* The handler in slot o goes on as x.
Becomes(o, x) == op' = [op EXCEPT ![o] = x]

LEMMA BecomesPlaced ==
  ASSUME op \in [Ops -> PlacedHandlers], NEW o \in Ops, NEW x \in PlacedHandlers, Becomes(o, x)
  PROVE  /\ op' \in [Ops -> PlacedHandlers]
         /\ op' \in [Ops -> Handlers]
         /\ op'[o] = x
         /\ \A q \in Ops : q # o => op'[q] = op[q]
BY DEF Becomes, PlacedHandlers

LEMMA FaultsType ==
  ASSUME faults \in Nat, NEW f, Charge(f)
  PROVE  faults' \in Nat
BY DEF Charge

LEMMA TypeInvInitially == Init => TypeInv
<1> SUFFICES ASSUME Init PROVE TypeInv
  OBVIOUS
<1> USE DEF Init
<1>1. sched \in Schedules
  BY DEF NoSchedule, Schedules
<1>2. tasks \in [Tasks -> TaskRows]
  BY DEF NoTask, TaskRows
<1>3. op \in [Ops -> PlacedHandlers]
  BY IdlePlaced
<1>4. op \in [Ops -> Handlers]
  BY <1>3 DEF PlacedHandlers
<1>5. QED
  BY <1>1, <1>2, <1>3, <1>4, ConstantTypes DEF TypeInv, TypeOK

\* A handler that only moves to another place keeps its other fields.
LEMMA MovedHandler ==
  ASSUME NEW p \in Handlers, NEW pc \in Pcs
  PROVE  /\ [ p EXCEPT !.pc = pc ] \in Handlers
         /\ [ p EXCEPT !.pc = pc ].pc = pc
         /\ [ p EXCEPT !.pc = pc ].kind = p.kind
         /\ [ p EXCEPT !.pc = pc ].task = p.task
         /\ [ p EXCEPT !.pc = pc ].status = p.status
BY DEF Handlers

\* The places that ask nothing of a handler's other fields but its task.
LEMMA MovedToTask ==
  ASSUME NEW p \in Handlers, p.task \in Tasks,
         NEW pc \in {"queue", "finish", "dupCheck", "startJob", "markSkipped",
                     "markCompleted", "markFailed", "markStartFailed", "addTask"}
  PROVE  [ p EXCEPT !.pc = pc ] \in PlacedHandlers
BY MovedHandler DEF PlacedHandlers, Placed, Pcs, LeasedPcs, ExitPcs

LEMMA TypedStep ==
  ASSUME TypeInv, NEW o \in Ops, NEW x \in PlacedHandlers, Becomes(o, x),
         sched' \in Schedules, tasks' \in [Tasks -> TaskRows],
         job' \in [Tasks -> JobReplies \cup {"none"}], starts' \in [Tasks -> Nat],
         notices' \in [Tasks -> 0..MaxNotices], crashes' \in 0..MaxCrashes, faults' \in Nat
  PROVE  TypeInv'
BY BecomesPlaced DEF TypeInv, TypeOK

LEMMA TypedRead ==
  ASSUME TypeInv, NEW o \in Ops, NEW x \in PlacedHandlers, Becomes(o, x), NEW f, Charge(f),
         UNCHANGED << sched, tasks, job, notices, starts, crashes >>
  PROVE  TypeInv'
BY TypedStep, FaultsType DEF TypeInv, TypeOK

LEMMA TypedUpdate ==
  ASSUME TypeInv, NEW o \in Ops, NEW x \in PlacedHandlers, Becomes(o, x), NEW f, Charge(f),
         sched' \in Schedules,
         UNCHANGED << tasks, job, notices, starts, crashes >>
  PROVE  TypeInv'
BY TypedStep, FaultsType DEF TypeInv, TypeOK

LEMMA TypedWrite ==
  ASSUME TypeInv, NEW o \in Ops, NEW x \in PlacedHandlers, Becomes(o, x), NEW f, Charge(f),
         tasks' \in [Tasks -> TaskRows],
         UNCHANGED << sched, job, notices, starts, crashes >>
  PROVE  TypeInv'
BY TypedStep, FaultsType DEF TypeInv, TypeOK

LEMMA TypedMark ==
  ASSUME TypeInv, NEW o \in Ops, NEW expected, NEW new \in TaskStateType,
         NEW STATE accepted, NEW STATE rejected,
         accepted \subseteq PlacedHandlers, rejected \in PlacedHandlers,
         MarkTask(o, expected, new, accepted, rejected)
  PROVE  TypeInv'
<1> DEFINE t == op[o].task
           row == [tasks[t] EXCEPT !.state = new]
<1>1. PICK f \in Outcomes :
        LET hit == tasks[t].state = expected /\ f # "refused"
        IN /\ tasks' = IF hit THEN [tasks EXCEPT ![t] = row] ELSE tasks
           /\ IF hit /\ f = "answered" THEN \E p \in accepted : op' = [op EXCEPT ![o] = p]
                                       ELSE op' = [op EXCEPT ![o] = rejected]
           /\ Charge(f)
           /\ UNCHANGED << sched, notices, crashes >>
  BY DEF MarkTask, UpdateTask
<1>2. PICK x \in PlacedHandlers : Becomes(o, x)
  BY <1>1 DEF Becomes
<1>3. tasks' \in [Tasks -> TaskRows]
  <2>1. t \in Tasks => row \in TaskRows
    BY DEF TypeInv, TypeOK, TaskRows
  <2>2. QED
    BY <1>1, <2>1 DEF TypeInv, TypeOK
<1>4. UNCHANGED << sched, job, notices, starts, crashes >>
  BY <1>1 DEF MarkTask
<1>5. QED
  BY <1>1, <1>2, <1>3, <1>4, TypedWrite

LEMMA HandlerPlaced ==
  ASSUME NEW pc \in {"addSchedule", "lookup", "lease", "repairRead"},
         NEW kind \in ScheduleUpdateStateType, NEW t \in Tasks \cup {None},
         NEW status \in JobReplies \cup {"none", None},
         pc = "addSchedule" => kind = SCHEDULE_STATE_ADD_TASK,
         pc = "lookup" => kind = SCHEDULE_STATE_END_TASK,
         pc = "lease" => kind \in UpdateKinds,
         t = None => pc = "repairRead" \/ (pc = "lease" /\ kind = SCHEDULE_STATE_PASTURE)
  PROVE  /\ Handler(pc, kind, t, status) \in PlacedHandlers
         /\ Handler(pc, kind, t, status).pc = pc
         /\ Handler(pc, kind, t, status).kind = kind
         /\ Handler(pc, kind, t, status).task = t
<1> DEFINE h == Handler(pc, kind, t, status)
<1>1. Idle \in Handlers /\ pc \in Pcs
  BY IdlePlaced DEF PlacedHandlers, Pcs
<1>2. h \in Handlers /\ h.pc = pc /\ h.kind = kind /\ h.task = t
  BY <1>1, ConstantTypes DEF Handler, Handlers
<1> HIDE DEF h
<1>3. Placed(h)
  BY <1>2, NoneIsNone DEF Placed, TaskPcs, ExitPcs, LaunchPcs, AnsweredPcs
<1>4. QED
  BY <1>2, <1>3 DEF PlacedHandlers, h

LEMMA UnhurriedHandler ==
  ASSUME NEW p \in PlacedHandlers
  PROVE  /\ [ p EXCEPT !.owed = 0 ] \in PlacedHandlers
         /\ [ p EXCEPT !.owed = 0 ].pc = p.pc
         /\ [ p EXCEPT !.owed = 0 ].kind = p.kind
         /\ [ p EXCEPT !.owed = 0 ].task = p.task
<1> DEFINE w == [ p EXCEPT !.owed = 0 ]
<1>1. w \in Handlers /\ w.pc = p.pc /\ w.kind = p.kind /\ w.task = p.task /\ w.status = p.status
  BY DEF Handlers, PlacedHandlers
<1> HIDE DEF w
<1>2. Placed(w)
  BY <1>1 DEF Placed, PlacedHandlers
<1>3. QED
  BY <1>1, <1>2 DEF PlacedHandlers, w

\* A handler begins in a free slot.
LEMMA BeginTyped ==
  ASSUME TypeInv, NEW o \in Ops, NEW x \in PlacedHandlers, Becomes(o, x),
         UNCHANGED << sched, tasks, job, starts, crashes, faults >>,
         notices' \in [Tasks -> 0..MaxNotices]
  PROVE  TypeInv'
BY TypedStep DEF TypeInv, TypeOK

LEMMA BeginSteps ==
  ASSUME TypeInv, NEW o \in Ops,
         \/ CreateScheduledJob(o) \/ Disable(o) \/ PollExpired(o)
         \/ \E t \in Tasks : PollTask(o, t) \/ FinishNotice(o, t)
  PROVE  TypeInv'
<1>k. ScheduleUpdateStateType = { SCHEDULE_STATE_ADD_TASK, SCHEDULE_STATE_START_TASK,
        SCHEDULE_STATE_END_TASK, SCHEDULE_STATE_PASTURE, SCHEDULE_STATE_REPAIR }
  BY DEF ScheduleUpdateStateType
<1>0. notices \in [Tasks -> 0..MaxNotices] /\ job \in [Tasks -> JobReplies \cup {"none"}]
  BY DEF TypeInv, TypeOK
<1>1. CASE CreateScheduledJob(o)
  <2> DEFINE h(t) == [ Handler("addSchedule", SCHEDULE_STATE_ADD_TASK, t, None) EXCEPT !.owed = 0 ]
  <2>1. PICK t \in Tasks : Becomes(o, h(t))
    BY <1>1 DEF CreateScheduledJob, Becomes
  <2>2. h(t) \in PlacedHandlers
    BY <1>k, HandlerPlaced, UnhurriedHandler, NoneIsNone
  <2>3. UNCHANGED << sched, tasks, job, notices, starts, crashes, faults >>
    BY <1>1 DEF CreateScheduledJob
  <2>4. QED
    BY <1>0, <2>1, <2>2, <2>3, BeginTyped
<1>2. CASE Disable(o)
  <2> DEFINE h == Handler("lease", SCHEDULE_STATE_PASTURE, None, None)
  <2>1. Becomes(o, h) /\ UNCHANGED << sched, tasks, job, notices, starts, crashes, faults >>
    BY <1>2 DEF Disable, Begin, Becomes
  <2>2. h \in PlacedHandlers
    BY <1>k, HandlerPlaced DEF UpdateKinds
  <2>3. QED
    BY <1>0, <2>1, <2>2, BeginTyped
<1>3. CASE PollExpired(o)
  <2> DEFINE h == [ Handler("repairRead", SCHEDULE_STATE_REPAIR, None, None) EXCEPT !.owed = 0 ]
  <2>1. Becomes(o, h) /\ UNCHANGED << sched, tasks, job, notices, starts, crashes, faults >>
    BY <1>3 DEF PollExpired, Begin, Becomes
  <2>2. h \in PlacedHandlers
    BY <1>k, HandlerPlaced, UnhurriedHandler
  <2>3. QED
    BY <1>0, <2>1, <2>2, BeginTyped
<1>4. ASSUME NEW t \in Tasks, PollTask(o, t) PROVE TypeInv'
  <2> DEFINE h == Handler("lease", SCHEDULE_STATE_START_TASK, t, None)
  <2>1. Becomes(o, h) /\ UNCHANGED << sched, tasks, job, notices, starts, crashes, faults >>
    BY <1>4 DEF PollTask, Begin, Becomes
  <2>2. h \in PlacedHandlers
    BY <1>k, HandlerPlaced, NoneIsNone DEF UpdateKinds
  <2>3. QED
    BY <1>0, <2>1, <2>2, BeginTyped
<1>5. ASSUME NEW t \in Tasks, FinishNotice(o, t) PROVE TypeInv'
  <2> DEFINE h == Handler("lookup", SCHEDULE_STATE_END_TASK, t, job[t])
  <2>1. Becomes(o, h) /\ UNCHANGED << sched, tasks, job, starts, crashes, faults >>
    BY <1>5 DEF FinishNotice, Begin, Becomes
  <2>2. notices' \in [Tasks -> 0..MaxNotices]
    BY <1>0, <1>5, ConstantTypes DEF FinishNotice
  <2>3. h \in PlacedHandlers
    BY <1>0, <1>k, HandlerPlaced, NoneIsNone
  <2>4. QED
    BY <2>1, <2>2, <2>3, BeginTyped
<1>6. QED
  BY <1>1, <1>2, <1>3, <1>4, <1>5

\* A read of the store.
LEMMA ReadSteps ==
  ASSUME TypeInv, NEW o \in Ops,
         \/ Lookup(o) \/ ReadSchedule(o) \/ ShouldSkip(o) \/ CheckPending(o)
         \/ RepairRead(o) \/ RepairFind(o) \/ RepairCheck(o)
  PROVE  TypeInv'
<1> DEFINE p == op[o]
<1>0. p \in Handlers /\ Placed(p) /\ sched \in Schedules
  BY DEF TypeInv, TypeOK, PlacedHandlers
<1>d. /\ Failed(p) \in PlacedHandlers /\ Exit(p, "abort") \in PlacedHandlers
      /\ Leave(p, TRUE) \in PlacedHandlers /\ Leave(p, FALSE) \in PlacedHandlers
  BY <1>0, Departed DEF Departures, ExitPcs
<1>1. ASSUME NEW x \in PlacedHandlers, NEW y \in PlacedHandlers, ReadStore(o, {x}, y)
      PROVE  TypeInv'
  <2>1. PICK f : /\ Becomes(o, x) \/ Becomes(o, y)
                 /\ Charge(f)
                 /\ UNCHANGED << sched, tasks, job, notices, starts, crashes >>
    BY <1>1 DEF ReadStore, Becomes
  <2>2. QED
    BY <1>1, <2>1, TypedRead
<1>2. CASE Lookup(o)
  <2> DEFINE x == IF tasks[p.task].jobId THEN [ p EXCEPT !.pc = "lease" ] ELSE Idle
  <2>1. ReadStore(o, {x}, Idle)
    BY <1>2 DEF Lookup
  <2> DEFINE l == [ p EXCEPT !.pc = "lease" ]
  <2>a. p.task \in Tasks /\ p.kind = SCHEDULE_STATE_END_TASK
    BY <1>0, <1>2 DEF Lookup, Placed, TaskPcs
  <2>b. l \in Handlers /\ l.pc = "lease" /\ l.kind = p.kind /\ l.task = p.task
    BY <1>0, MovedHandler DEF Pcs
  <2> HIDE DEF l
  <2>c. l \in PlacedHandlers
    BY <2>a, <2>b
       DEF PlacedHandlers, Placed, TaskPcs, ExitPcs, LaunchPcs, AnsweredPcs, UpdateKinds
  <2>2. x \in PlacedHandlers
    BY <2>c, IdlePlaced DEF l
  <2> HIDE DEF x
  <2>3. QED
    BY <1>1, <2>1, <2>2, IdlePlaced
<1>3. CASE ReadSchedule(o)
  <2> DEFINE x == CASE p.kind = SCHEDULE_STATE_START_TASK -> [ p EXCEPT !.pc = "queue" ]
                    [] p.kind = SCHEDULE_STATE_END_TASK   -> [ p EXCEPT !.pc = "finish" ]
                    [] p.kind = SCHEDULE_STATE_PASTURE    -> Leave(p, TRUE)
  <2>1. ReadStore(o, {x}, Idle)
    BY <1>3 DEF ReadSchedule
  <2>2. p.pc = "read" /\ p.kind \in UpdateKinds
    BY <1>0, <1>3 DEF ReadSchedule, Placed
  <2>3. CASE p.kind = SCHEDULE_STATE_START_TASK
    <3>1. p.task \in Tasks /\ x = [ p EXCEPT !.pc = "queue" ]
      BY <1>0, <2>2, <2>3
         DEF Placed, SCHEDULE_STATE_START_TASK, SCHEDULE_STATE_END_TASK, SCHEDULE_STATE_PASTURE
    <3>2. QED
      BY <1>0, <1>1, <2>1, <3>1, MovedToTask, IdlePlaced
  <2>4. CASE p.kind = SCHEDULE_STATE_END_TASK
    <3>1. p.task \in Tasks /\ x = [ p EXCEPT !.pc = "finish" ]
      BY <1>0, <2>2, <2>4
         DEF Placed, SCHEDULE_STATE_START_TASK, SCHEDULE_STATE_END_TASK, SCHEDULE_STATE_PASTURE
    <3>2. QED
      BY <1>0, <1>1, <2>1, <3>1, MovedToTask, IdlePlaced
  <2>5. CASE p.kind = SCHEDULE_STATE_PASTURE
    <3>1. x = Leave(p, TRUE)
      BY <2>5
         DEF SCHEDULE_STATE_START_TASK, SCHEDULE_STATE_END_TASK, SCHEDULE_STATE_PASTURE
    <3>2. QED
      BY <1>1, <1>d, <2>1, <3>1, IdlePlaced
  <2>6. QED
    BY <2>2, <2>3, <2>4, <2>5 DEF UpdateKinds
<1>4. CASE ShouldSkip(o)
  <2> DEFINE x == IF sched.skip /\ TasksIn(TASK_STATE_STARTED) # {}
                  THEN [ p EXCEPT !.pc = "markSkipped" ] ELSE [ p EXCEPT !.pc = "startJob" ]
  <2>1. ReadStore(o, {x}, Failed(p))
    BY <1>4 DEF ShouldSkip
  <2>2. p.task \in Tasks
    BY <1>0, <1>4 DEF ShouldSkip, Placed, TaskPcs, ExitPcs, LaunchPcs
  <2>3. x \in PlacedHandlers
    BY <1>0, <2>2, MovedToTask
  <2> HIDE DEF x
  <2>4. QED
    BY <1>1, <1>d, <2>1, <2>3
<1>5. CASE CheckPending(o)
  <2> DEFINE x == IF TasksIn(TASK_STATE_PENDING) # {} THEN Leave(p, FALSE)
                  ELSE [ p EXCEPT !.pc = "addTask" ]
  <2>1. ReadStore(o, {x}, Failed(p))
    BY <1>5 DEF CheckPending
  <2>2. [ p EXCEPT !.pc = "addTask" ] \in PlacedHandlers
    BY <1>0, MovedHandler
       DEF PlacedHandlers, Placed, Pcs, LeasedPcs, TaskPcs, ExitPcs, LaunchPcs, AnsweredPcs
  <2>3. QED
    BY <1>1, <1>d, <2>1, <2>2
<1>6. CASE RepairRead(o)
  <2> DEFINE x == [ p EXCEPT !.pc = "steal", !.status = RepairSource(sched) ]
  <2>1. ReadStore(o, {x}, Idle)
    BY <1>6 DEF RepairRead
  <2>2. RepairSource(sched) \in ScheduleUpdateStateType \cup {None}
    BY <1>0 DEF RepairSource, Schedules
  <2>3. x \in Handlers /\ x.pc = "steal" /\ x.status = RepairSource(sched)
    BY <1>0, <2>2 DEF Handlers, Pcs
  <2>4. x \in PlacedHandlers
    BY <2>2, <2>3 DEF PlacedHandlers, Placed, TaskPcs, ExitPcs, LaunchPcs, AnsweredPcs
  <2> HIDE DEF x
  <2>5. QED
    BY <1>1, <2>1, <2>4, IdlePlaced
<1>7. CASE RepairFind(o)
  <2> DEFINE y == [ p EXCEPT !.pc = "repairCheck", !.task = sched.updateTaskPk ]
             x == CASE sched.repairState = SCHEDULE_STATE_ADD_TASK ->
                         IF sched.pasture THEN Leave(p, TRUE) ELSE y
                    [] sched.repairState \in { SCHEDULE_STATE_START_TASK, SCHEDULE_STATE_END_TASK,
                                               SCHEDULE_STATE_PASTURE } -> Exit(p, "abort")
                    [] OTHER -> Leave(p, TRUE)
  <2>1. ReadStore(o, {x}, Idle)
    BY <1>7 DEF RepairFind
  <2>2. y \in Handlers /\ y.pc = "repairCheck"
    BY <1>0 DEF Handlers, Pcs, LeasedPcs, Schedules
  <2>3. y \in PlacedHandlers
    BY <2>2 DEF PlacedHandlers, Placed, TaskPcs, ExitPcs, LaunchPcs, AnsweredPcs
  <2> HIDE DEF y
  <2>4. x \in PlacedHandlers
    BY <1>d, <2>3
       DEF SCHEDULE_STATE_ADD_TASK, SCHEDULE_STATE_START_TASK, SCHEDULE_STATE_END_TASK,
           SCHEDULE_STATE_PASTURE
  <2> HIDE DEF x
  <2>5. QED
    BY <1>1, <2>1, <2>4, IdlePlaced
<1>8. CASE RepairCheck(o)
  <2> DEFINE x == IF p.task # None /\ TasksIn(TASK_STATE_PENDING) # {} THEN Leave(p, FALSE)
                  ELSE Exit(p, "abort")
  <2>1. ReadStore(o, {x}, Exit(p, "abort"))
    BY <1>8 DEF RepairCheck
  <2>2. QED
    BY <1>1, <1>d, <2>1
<1>9. QED
  BY <1>2, <1>3, <1>4, <1>5, <1>6, <1>7, <1>8

\* A conditional update of the scheduled job's row.
LEMMA UpdateSteps ==
  ASSUME TypeInv, NEW o \in Ops,
         \/ AddScheduledJob(o) \/ TakeLease(o) \/ ReleaseLease(o) \/ MarkNeedsRepair(o)
         \/ StealLease(o) \/ RepairAbort(o)
  PROVE  TypeInv'
<1> DEFINE p == op[o]
<1>0. p \in Handlers /\ Placed(p) /\ sched \in Schedules
  BY DEF TypeInv, TypeOK, PlacedHandlers
<1>d. /\ Failed(p) \in PlacedHandlers /\ Exit(p, "abort") \in PlacedHandlers
      /\ Leave(p, TRUE) \in PlacedHandlers
  BY <1>0, Departed DEF Departures, ExitPcs
<1>n. p.now \in Int /\ p.pasture \in BOOLEAN /\ p.task \in Tasks \cup {None}
      /\ p.kind \in ScheduleUpdateStateType \cup {None}
  BY <1>0 DEF Handlers
<1>1. ASSUME NEW condition, NEW row \in Schedules, NEW accepted, NEW rejected \in PlacedHandlers,
             accepted \subseteq PlacedHandlers,
             UpdateSchedule(o, condition, row, accepted, rejected)
      PROVE  TypeInv'
  <2>1. PICK f : /\ sched' \in {sched, row}
                 /\ \E x \in accepted \cup {rejected} : Becomes(o, x)
                 /\ Charge(f)
                 /\ UNCHANGED << tasks, job, notices, starts, crashes >>
    BY <1>1 DEF UpdateSchedule, Becomes
  <2>2. PICK x \in PlacedHandlers : Becomes(o, x)
    BY <1>1, <2>1
  <2>3. sched' \in Schedules
    BY <1>0, <2>1
  <2>4. QED
    BY <2>1, <2>2, <2>3, TypedUpdate
<1>2. CASE AddScheduledJob(o)
  <2>1. PICK creation \in Creations, skip \in Skips :
          UpdateSchedule(o, TRUE, NewSchedule(creation, skip, p.task, o, p.now),
            { [ p EXCEPT !.pc = "addTask" ] } \cup
              (IF "invalid" \in NextActions THEN { Leave(p, TRUE) } ELSE {}), Failed(p))
    BY <1>2 DEF AddScheduledJob
  <2>2. p.task \in Tasks
    BY <1>0, <1>2 DEF AddScheduledJob, Placed, TaskPcs
  <2>3. [ p EXCEPT !.pc = "addTask" ] \in PlacedHandlers
    BY <1>0, <2>2, MovedToTask
  <2>4. NewSchedule(creation, skip, p.task, o, p.now) \in Schedules
    BY <1>n, <2>2, NewScheduleType
  <2>5. QED
    BY <1>1, <1>d, <2>1, <2>3, <2>4
<1>3. CASE TakeLease(o)
  <2> DEFINE x == [ p EXCEPT !.pc = "read", !.attempt = 0, !.owed = 0 ]
  <2>1. UpdateSchedule(o, CanLease(sched), Lease(sched, p.kind, p.task, o, p.now), {x}, RetryLease(p))
    BY <1>3 DEF TakeLease
  <2>2. p.pc = "lease" /\ p.kind \in UpdateKinds
    BY <1>0, <1>3 DEF TakeLease, Placed
  <2>3. x \in PlacedHandlers
    <3>1. 0 \in 0..Len(RetryDelays) /\ 0 \in Int
      BY ConstantTypes
    <3>2. x \in Handlers
      BY <1>0, <3>1 DEF Handlers, Pcs, LeasedPcs
    <3>3. x.pc = "read" /\ x.kind = p.kind /\ x.task = p.task
      BY <1>0 DEF Handlers
    <3> HIDE DEF x
    <3>4. QED
      BY <1>0, <2>2, <3>2, <3>3 DEF PlacedHandlers, Placed, TaskPcs, ExitPcs, LaunchPcs, AnsweredPcs
  <2>4. RetryLease(p) \in PlacedHandlers
    <3> DEFINE w == [ p EXCEPT !.attempt = @ + 1, !.wait = RetryDelays[p.attempt + 1] ]
    <3>1. p.attempt \in 0..Len(RetryDelays)
      BY <1>0 DEF Handlers
    <3>2. CASE p.attempt < Len(RetryDelays)
      <4>1. p.attempt + 1 \in 0..Len(RetryDelays) /\ RetryDelays[p.attempt + 1] \in Int
        BY <3>1, <3>2, ConstantTypes
      <4>2. w \in Handlers /\ w.pc = p.pc /\ w.kind = p.kind /\ w.task = p.task
        BY <1>0, <4>1 DEF Handlers
      <4>3. w \in PlacedHandlers
        BY <1>0, <2>2, <4>2 DEF PlacedHandlers, Placed, TaskPcs, ExitPcs, LaunchPcs, AnsweredPcs
      <4>4. QED
        BY <3>2, <4>3 DEF RetryLease
    <3>3. CASE ~(p.attempt < Len(RetryDelays))
      BY <3>3, IdlePlaced DEF RetryLease
    <3>4. QED
      BY <3>2, <3>3
  <2>5. Lease(sched, p.kind, p.task, o, p.now) \in Schedules
    BY <1>0, <1>n, <2>2, ScheduleTypes DEF UpdateKinds, ScheduleUpdateStateType
  <2> HIDE DEF x
  <2>6. QED
    BY <1>1, <2>1, <2>3, <2>4, <2>5
<1>4. CASE ReleaseLease(o)
  <2>1. UpdateSchedule(o, OwnsLease(sched, o), Release(sched, p.pasture), {Idle},
          IF p.kind = SCHEDULE_STATE_REPAIR THEN Exit(p, "abort") ELSE Idle)
    BY <1>4 DEF ReleaseLease
  <2>2. Release(sched, p.pasture) \in Schedules
    BY <1>0, <1>n DEF Release, Schedules
  <2>3. QED
    BY <1>1, <1>d, <2>1, <2>2, IdlePlaced
<1>5. CASE MarkNeedsRepair(o)
  <2> DEFINE condition == OwnsLease(sched, o)
             row == NeedsRepair(sched, p.now, FALSE)
  <2>1. UpdateSchedule(o, condition, row, {Idle}, Idle)
    BY <1>5 DEF MarkNeedsRepair
  <2>2. row \in Schedules
    BY <1>0, <1>n DEF NeedsRepair, Release, Schedules
  <2>3. {Idle} \subseteq PlacedHandlers
    BY IdlePlaced
  <2> HIDE DEF condition, row
  <2>4. QED
    BY <1>1, <2>1, <2>2, <2>3, IdlePlaced
<1>6. CASE StealLease(o)
  <2> DEFINE x == [ p EXCEPT !.pc = "repairFind", !.status = None ]
  <2>1. UpdateSchedule(o, CanSteal(sched, p.now), Steal(sched, p.status, o, p.now), {x}, Idle)
    BY <1>6 DEF StealLease
  <2>2. p.status \in ScheduleUpdateStateType \cup {None}
    BY <1>0, <1>6 DEF StealLease, Placed
  <2>3. Steal(sched, p.status, o, p.now) \in Schedules
    BY <1>0, <1>n, <2>2, ScheduleTypes DEF ScheduleUpdateStateType
  <2>4. x \in Handlers /\ x.pc = "repairFind"
    BY <1>0 DEF Handlers, Pcs, LeasedPcs
  <2>5. x \in PlacedHandlers
    BY <2>4 DEF PlacedHandlers, Placed, TaskPcs, ExitPcs, LaunchPcs, AnsweredPcs
  <2> HIDE DEF x
  <2>6. QED
    BY <1>1, <2>1, <2>3, <2>5, IdlePlaced
<1>7. CASE RepairAbort(o)
  <2> DEFINE condition == OwnsLease(sched, o)
             row == Release(sched, TRUE)
  <2>1. UpdateSchedule(o, condition, row, {Idle}, Idle)
    BY <1>7 DEF RepairAbort
  <2>2. row \in Schedules
    BY <1>0, <1>n DEF NeedsRepair, Release, Schedules
  <2>3. {Idle} \subseteq PlacedHandlers
    BY IdlePlaced
  <2> HIDE DEF condition, row
  <2>4. QED
    BY <1>1, <2>1, <2>2, <2>3, IdlePlaced
<1>8. QED
  BY <1>2, <1>3, <1>4, <1>5, <1>6, <1>7

\* A change of a task's state.
LEMMA MarkSteps ==
  ASSUME TypeInv, NEW o \in Ops,
         \/ MarkTaskQueued(o) \/ MarkTaskSkipped(o) \/ MarkTaskCompleted(o) \/ MarkTaskFailed(o)
         \/ MarkTaskStartFailed(o) \/ MarkTaskFinished(o)
  PROVE  TypeInv'
<1> DEFINE p == op[o]
<1>0. p \in Handlers /\ Placed(p)
  BY DEF TypeInv, TypeOK, PlacedHandlers
<1>d. /\ Failed(p) \in PlacedHandlers /\ Leave(p, FALSE) \in PlacedHandlers
      /\ AfterStart(p) \subseteq PlacedHandlers /\ AfterFinish(p) \subseteq PlacedHandlers
      /\ AfterFailure(p) \subseteq PlacedHandlers /\ AfterFailedStart(p) \subseteq PlacedHandlers
  BY <1>0, Departed, FollowUpDeparts DEF Departures
<1>1. CASE MarkTaskQueued(o)
  <2> DEFINE x == [ p EXCEPT !.pc = "dupCheck" ]
  <2>1. MarkTask(o, TASK_STATE_PENDING, TASK_STATE_QUEUED, {x}, Failed(p))
    BY <1>1 DEF MarkTaskQueued
  <2>2. x \in PlacedHandlers
    BY <1>0, <1>1, MovedToTask DEF MarkTaskQueued, Placed, TaskPcs
  <2>3. {x} \subseteq PlacedHandlers /\ TASK_STATE_QUEUED \in TaskStateType
    BY <2>2 DEF TaskStateType
  <2> HIDE DEF x
  <2>4. QED
    BY <1>d, <2>1, <2>3, TypedMark
<1>2. CASE MarkTaskSkipped(o)
  <2>1. MarkTask(o, TASK_STATE_QUEUED, TASK_STATE_COMPLETED, AfterStart(p), Failed(p))
    BY <1>2 DEF MarkTaskSkipped
  <2>2. QED
    BY <1>d, <2>1, TypedMark DEF TaskStateType
<1>3. CASE MarkTaskCompleted(o)
  <2>1. MarkTask(o, TASK_STATE_STARTED, TASK_STATE_COMPLETED, AfterStart(p), Failed(p))
    BY <1>3 DEF MarkTaskCompleted
  <2>2. QED
    BY <1>d, <2>1, TypedMark DEF TaskStateType
<1>4. CASE MarkTaskFailed(o)
  <2>1. MarkTask(o, TASK_STATE_QUEUED, TASK_STATE_FAILED, AfterFailedStart(p), Failed(p))
    BY <1>4 DEF MarkTaskFailed
  <2>2. QED
    BY <1>d, <2>1, TypedMark DEF TaskStateType
<1>5. CASE MarkTaskStartFailed(o)
  <2> DEFINE x == IF p.status = "rejected" THEN Failed(p) ELSE Leave(p, FALSE)
  <2>1. MarkTask(o, TASK_STATE_QUEUED, TASK_STATE_START_ERROR, {x}, Failed(p))
    BY <1>5 DEF MarkTaskStartFailed
  <2>2. {x} \subseteq PlacedHandlers /\ TASK_STATE_START_ERROR \in TaskStateType
    BY <1>d DEF TaskStateType
  <2> HIDE DEF x
  <2>3. QED
    BY <1>d, <2>1, <2>2, TypedMark
<1>6. CASE MarkTaskFinished(o)
  <2>1. CASE MarkTask(o, TASK_STATE_STARTED, TASK_STATE_COMPLETED, AfterFinish(p), Failed(p))
    BY <1>d, <2>1, TypedMark DEF TaskStateType
  <2>2. CASE MarkTask(o, TASK_STATE_STARTED, TASK_STATE_COMPLETE_ERROR, AfterFailure(p), Failed(p))
    BY <1>d, <2>2, TypedMark DEF TaskStateType
  <2>3. CASE /\ Becomes(o, Failed(p))
             /\ UNCHANGED << sched, tasks, job, notices, starts, crashes, faults >>
    BY <1>d, <2>3, TypedStep DEF TypeInv, TypeOK
  <2>4. QED
    BY <1>6, <2>1, <2>2, <2>3 DEF MarkTaskFinished, Becomes
<1>7. QED
  BY <1>1, <1>2, <1>3, <1>4, <1>5, <1>6

LEMMA StartJobTyped ==
  ASSUME TypeInv, NEW o \in Ops, StartJob(o)
  PROVE  TypeInv'
<1> DEFINE p == op[o]
<1>0. /\ p \in Handlers /\ p.task \in Tasks
      /\ job \in [Tasks -> JobReplies \cup {"none"}] /\ starts \in [Tasks -> Nat]
  BY DEF TypeInv, TypeOK, PlacedHandlers, StartJob, Placed, TaskPcs, LaunchPcs
<1>1. PICK reply \in Responses :
        /\ job' = [job EXCEPT ![p.task] =
                     IF reply \in {"running", "completed", "failed"} THEN reply ELSE "none"]
        /\ op' = [op EXCEPT ![o] =
                    CASE reply \in {"running", "completed", "failed"} ->
                           [ p EXCEPT !.pc = "markStarted", !.status = reply ]
                      [] reply \in {"did-not-start", "rejected"} ->
                           [ p EXCEPT !.pc = "markStartFailed", !.status = reply ]
                      [] reply = "unknown" -> Failed(p) ]
  BY DEF StartJob
<1>2. reply \in JobReplies
  BY ConstantTypes
<1>3. \E x \in PlacedHandlers : Becomes(o, x)
  <2>1. ASSUME NEW pc \in {"markStarted", "markStartFailed"},
               pc = "markStarted" => reply \in {"running", "completed", "failed"}
        PROVE  [ p EXCEPT !.pc = pc, !.status = reply ] \in PlacedHandlers
    <3> DEFINE x == [ p EXCEPT !.pc = pc, !.status = reply ]
    <3>1. x \in Handlers
      BY <1>0, <1>2 DEF Handlers, Pcs, LeasedPcs
    <3>2. x.pc = pc /\ x.status = reply /\ x.task = p.task
      BY <1>0 DEF Handlers
    <3> HIDE DEF x
    <3>3. x \in PlacedHandlers
      BY <1>0, <2>1, <3>1, <3>2 DEF PlacedHandlers, Placed, ExitPcs
    <3>4. QED
      BY <3>3 DEF x
  <2>2. CASE reply \in {"running", "completed", "failed"}
    BY <1>1, <2>1, <2>2 DEF Becomes
  <2>3. CASE reply \in {"did-not-start", "rejected"}
    BY <1>1, <2>1, <2>3 DEF Becomes
  <2>4. CASE reply = "unknown"
    BY <1>0, <1>1, <2>4, FailedType DEF Becomes
  <2>5. QED
    BY <1>2, <2>2, <2>3, <2>4 DEF JobReplies
<1>4. job' \in [Tasks -> JobReplies \cup {"none"}]
  BY <1>0, <1>1, <1>2
<1>5. starts' \in [Tasks -> Nat]
  BY <1>0 DEF StartJob
<1>6. QED
  BY <1>3, <1>4, <1>5, TypedStep DEF StartJob, TypeInv, TypeOK

LEMMA MarkStartedTyped ==
  ASSUME TypeInv, NEW o \in Ops, MarkTaskStarted(o)
  PROVE  TypeInv'
<1> DEFINE p == op[o]
           t == p.task
           row == [tasks[t] EXCEPT !.state = TASK_STATE_STARTED, !.jobId = TRUE]
           accepted == CASE p.status = "running"   -> AfterStart(p)
                         [] p.status = "completed" -> { [ p EXCEPT !.pc = "markCompleted" ] }
                         [] p.status = "failed"    -> { [ p EXCEPT !.pc = "markFailed" ] }
<1>0. p \in Handlers /\ t \in Tasks /\ p.status \in {"running", "completed", "failed"}
  BY DEF TypeInv, TypeOK, PlacedHandlers, MarkTaskStarted, Placed, TaskPcs, LaunchPcs
<1>1. accepted \subseteq PlacedHandlers
  <2>1. CASE p.status = "running"
    BY <1>0, <2>1, FollowUpDeparts DEF Departures
  <2>2. CASE p.status = "completed"
    BY <1>0, <2>2, MovedToTask
  <2>3. CASE p.status = "failed"
    BY <1>0, <2>3, MovedToTask
  <2>4. QED
    BY <1>0, <2>1, <2>2, <2>3
<1>2. Failed(p) \in PlacedHandlers
  BY <1>0, FailedType
<1>3. row \in TaskRows
  BY <1>0 DEF TypeInv, TypeOK, TaskRows, TaskStateType
<1>4. /\ UpdateTask(o, t, tasks[t].state = TASK_STATE_QUEUED, row, accepted, Failed(p))
      /\ UNCHANGED << job, starts >>
  BY DEF MarkTaskStarted
<1> HIDE DEF accepted, row
<1>5. PICK f : /\ tasks' \in { tasks, [tasks EXCEPT ![t] = row] }
               /\ \E x \in accepted \cup {Failed(p)} : Becomes(o, x)
               /\ Charge(f)
               /\ UNCHANGED << sched, notices, crashes >>
  BY <1>4 DEF UpdateTask, Becomes
<1>6. tasks' \in [Tasks -> TaskRows]
  BY <1>3, <1>5 DEF TypeInv, TypeOK
<1>7. QED
  BY <1>1, <1>2, <1>4, <1>5, <1>6, TypedWrite

LEMMA AddTaskTyped ==
  ASSUME TypeInv, NEW o \in Ops, AddTask(o)
  PROVE  TypeInv'
<1> DEFINE p == op[o]
<1>0. /\ p \in Handlers
      /\ job \in [Tasks -> JobReplies \cup {"none"}] /\ starts \in [Tasks -> Nat]
  BY DEF TypeInv, TypeOK
<1> DEFINE row == [ state |-> TASK_STATE_PENDING, executeAt |-> p.now + p.delay, jobId |-> FALSE ]
<1>1. PICK t \in Tasks :
        /\ UpdateTask(o, t, TRUE, row, { Leave(p, FALSE) }, Failed(p))
        /\ job' = [job EXCEPT ![t] = "none"]
        /\ starts' = [starts EXCEPT ![t] = 0]
  BY DEF AddTask
<1>2. Leave(p, FALSE) \in PlacedHandlers /\ Failed(p) \in PlacedHandlers
  BY <1>0, LeaveType, FailedType
<1>3. row \in TaskRows
  <2>1. p.now + p.delay \in Int
    BY <1>0 DEF Handlers
  <2>2. QED
    BY <2>1 DEF TaskRows, TaskStateType
<1> DEFINE accepted == { Leave(p, FALSE) }
<1>a. accepted \subseteq PlacedHandlers /\ UpdateTask(o, t, TRUE, row, accepted, Failed(p))
  BY <1>1, <1>2
<1> HIDE DEF row, accepted
<1>4. PICK f : /\ tasks' \in { tasks, [tasks EXCEPT ![t] = row] }
               /\ \E x \in accepted \cup { Failed(p) } : Becomes(o, x)
               /\ Charge(f)
               /\ UNCHANGED << sched, notices, crashes >>
  BY <1>a DEF UpdateTask, Becomes
<1>5. tasks' \in [Tasks -> TaskRows]
  BY <1>3, <1>4 DEF TypeInv, TypeOK
<1>6. job' \in [Tasks -> JobReplies \cup {"none"}] /\ starts' \in [Tasks -> Nat]
  BY <1>0, <1>1
<1>7. faults' \in Nat
  BY <1>4, FaultsType DEF TypeInv, TypeOK
<1>8. QED
  BY <1>2, <1>a, <1>4, <1>5, <1>6, <1>7, TypedStep DEF TypeInv, TypeOK

\* A second passes: dates move, handlers age.
LEMMA TickTyped ==
  ASSUME TypeInv, Tick
  PROVE  TypeInv'
<1>1. \A d \in Int \cup {None}, floor \in Int : Elapsed(d, floor) \in Int \cup {None}
  BY NoneIsNone DEF Elapsed
<1>2. Past \in Int /\ -1 \in Int
  BY ConstantTypes DEF Past
<1>3. sched' \in Schedules
  <2>1. sched \in Schedules /\ Elapsed(sched.leaseExpires, Past) \in Int \cup {None}
    BY <1>1, <1>2 DEF TypeInv, TypeOK, Schedules
  <2>2. QED
    BY <2>1 DEF Tick, Schedules
<1>4. tasks' \in [Tasks -> TaskRows]
  <2>1. ASSUME NEW t \in Tasks
        PROVE  [tasks[t] EXCEPT !.executeAt = Elapsed(@, -1)] \in TaskRows
    <3>1. tasks[t] \in TaskRows /\ Elapsed(tasks[t].executeAt, -1) \in Int \cup {None}
      BY <1>1, <1>2 DEF TypeInv, TypeOK, TaskRows
    <3>2. QED
      BY <3>1 DEF TaskRows
  <2>2. QED
    BY <2>1 DEF Tick
<1>5. op' \in [Ops -> PlacedHandlers]
  <2>1. ASSUME NEW o \in Ops PROVE Aged(op[o]) \in PlacedHandlers
    <3> DEFINE p == op[o]
               wait == IF p.wait > 0 THEN p.wait - 1 ELSE p.wait
               owed == IF p.wait > 0 THEN p.owed - 1 ELSE p.owed
               x == [ p EXCEPT !.now = p.now - 1, !.wait = wait, !.owed = owed ]
    <3>1. p \in PlacedHandlers /\ p \in Handlers
      BY DEF TypeInv, TypeOK
    <3>2. p.now - 1 \in Int /\ wait \in Int /\ owed \in Int
      BY <3>1 DEF Handlers
    <3>5. Aged(p) = IF p.pc = "idle" THEN p ELSE x
      BY DEF Aged
    <3> HIDE DEF wait, owed
    <3>3. x \in Handlers
      BY <3>1, <3>2 DEF Handlers
    <3>4. x.pc = p.pc /\ x.kind = p.kind /\ x.task = p.task /\ x.status = p.status
      BY <3>1 DEF Handlers
    <3> HIDE DEF x
    <3>6. x \in PlacedHandlers
      BY <3>1, <3>3, <3>4 DEF PlacedHandlers, Placed
    <3>7. QED
      BY <3>1, <3>5, <3>6
  <2>2. QED
    BY <2>1 DEF Tick
<1>6. op' \in [Ops -> Handlers]
  BY <1>5 DEF PlacedHandlers
<1>7. QED
  BY <1>3, <1>4, <1>5, <1>6 DEF Tick, TypeInv, TypeOK

LEMMA EnvironmentTyped ==
  ASSUME TypeInv,
         (\E o \in Ops : Crash(o)) \/ (\E t \in Tasks : JobFinishes(t) \/ DeleteFinishedTask(t))
  PROVE  TypeInv'
<1>0. /\ job \in [Tasks -> JobReplies \cup {"none"}] /\ notices \in [Tasks -> 0..MaxNotices]
      /\ starts \in [Tasks -> Nat] /\ crashes \in 0..MaxCrashes /\ tasks \in [Tasks -> TaskRows]
  BY DEF TypeInv, TypeOK
<1>1. ASSUME NEW o \in Ops, Crash(o) PROVE TypeInv'
  <2>1. Becomes(o, Idle) /\ crashes' \in 0..MaxCrashes
        /\ UNCHANGED << sched, tasks, job, notices, starts, faults >>
    BY <1>0, <1>1, ConstantTypes DEF Crash, Becomes
  <2>2. QED
    BY <2>1, IdlePlaced, TypedStep DEF TypeInv, TypeOK
<1>2. ASSUME NEW t \in Tasks, JobFinishes(t) PROVE TypeInv'
  <2>1. \A result \in Results : result \in JobReplies
    BY SchedulerAssumption DEF SchedulerAssumption, JobResults, JobReplies
  <2>2. job' \in [Tasks -> JobReplies \cup {"none"}]
    BY <1>0, <1>2, <2>1 DEF JobFinishes
  <2>3. notices' \in [Tasks -> 0..MaxNotices]
    BY <1>0, <1>2, ConstantTypes DEF JobFinishes
  <2>4. QED
    BY <1>2, <2>2, <2>3 DEF JobFinishes, TypeInv, TypeOK
<1>3. ASSUME NEW t \in Tasks, DeleteFinishedTask(t) PROVE TypeInv'
  <2>1. tasks' \in [Tasks -> TaskRows]
    BY <1>0, <1>3 DEF DeleteFinishedTask, NoTask, TaskRows
  <2>2. job' \in [Tasks -> JobReplies \cup {"none"}] /\ starts' \in [Tasks -> Nat]
    BY <1>0, <1>3 DEF DeleteFinishedTask
  <2>3. QED
    BY <1>3, <2>1, <2>2 DEF DeleteFinishedTask, TypeInv, TypeOK
<1>4. QED
  BY <1>1, <1>2, <1>3

------------------------------------------------------------------------------
LEMMA TypeInvStep == TypeInv /\ [Next]_vars => TypeInv'
<1> SUFFICES ASSUME TypeInv, [Next]_vars PROVE TypeInv'
  OBVIOUS
<1>1. CASE Tick
  BY <1>1, TickTyped
<1>2. ASSUME NEW o \in Ops,
             \/ CreateScheduledJob(o) \/ Disable(o) \/ PollExpired(o)
             \/ \E t \in Tasks : PollTask(o, t) \/ FinishNotice(o, t)
      PROVE  TypeInv'
  BY <1>2, BeginSteps
<1>3. ASSUME NEW o \in Ops, Step(o) PROVE TypeInv'
  BY <1>3, ReadSteps, UpdateSteps, MarkSteps, StartJobTyped, MarkStartedTyped, AddTaskTyped
     DEF Step, InLease, StartTask, AddFollowUp, Repair
<1>4. CASE \/ \E o \in Ops : Crash(o)
           \/ \E t \in Tasks : JobFinishes(t) \/ DeleteFinishedTask(t)
  BY <1>4, EnvironmentTyped
<1>5. CASE UNCHANGED vars
  BY <1>5 DEF vars, TypeInv, TypeOK
<1>6. QED
  BY <1>1, <1>2, <1>3, <1>4, <1>5 DEF Next

\* Every reachable state of the scheduler has its types: the rows, the handlers
\* of the controllers and the job framework's answers (model/schedule.ts,
\* model/task.ts, controller).
THEOREM TypeCorrect == Spec => []TypeOK
<1>1. Spec => []TypeInv
  BY TypeInvInitially, TypeInvStep, PTL DEF Spec
<1>2. TypeInv => TypeOK
  BY DEF TypeInv
<1>3. QED
  BY <1>1, <1>2, PTL

------------------------------------------------------------------------------
(* Every handler ends: each call that it makes leaves it fewer to make.      *)

LEMMA CallsAreCounted ==
  ASSUME NEW p \in Handlers
  PROVE  CallsLeft(p) \in Nat
<1>1. Len(RetryDelays) \in Nat /\ p.attempt \in Nat /\ p.attempt <= Len(RetryDelays)
  BY ConstantTypes DEF Handlers
<1>2. 11 + Len(RetryDelays) - p.attempt \in Nat /\ 12 + Len(RetryDelays) \in Nat
  BY <1>1
<1> QED
  BY <1>2 DEF CallsLeft

\* The places from which no more than four, or fewer, calls are left.
LEMMA CallsAtPlace ==
  ASSUME NEW p
  PROVE  /\ p.pc = "idle" => CallsLeft(p) = 0
         /\ p.pc \in { "needsRepair", "abort" } => CallsLeft(p) = 1
         /\ p.pc = "release" => CallsLeft(p) = 2
         /\ p.pc \in { "addTask", "repairCheck" } => CallsLeft(p) = 3
         /\ p.pc \in { "addCheck", "addSchedule", "repairFind" } => CallsLeft(p) = 4
         /\ p.pc \in { "markSkipped", "markCompleted", "markFailed", "markStartFailed",
                       "finish", "steal" } => CallsLeft(p) = 5
         /\ p.pc \in { "markStarted", "repairRead" } => CallsLeft(p) = 6
BY DEF CallsLeft

LEMMA CallsOfStart ==
  ASSUME NEW p
  PROVE  /\ p.pc = "startJob" => CallsLeft(p) = 7
         /\ p.pc = "dupCheck" => CallsLeft(p) = 8
         /\ p.pc = "queue" => CallsLeft(p) = 9
         /\ p.pc = "read" => CallsLeft(p) = 10
         /\ p.pc = "lease" => CallsLeft(p) = 11 + Len(RetryDelays) - p.attempt
         /\ p.pc = "lookup" => CallsLeft(p) = 12 + Len(RetryDelays)
BY DEF CallsLeft

\* Handlers with fewer than n calls to make.
Nearer(n) == { x \in Handlers : CallsLeft(x) < n }

\* What is left of a handler that only gives up its lease.
LEMMA ExitCalls ==
  ASSUME NEW p \in Handlers
  PROVE  /\ Idle \in Handlers /\ CallsLeft(Idle) = 0
         /\ Failed(p) \in Handlers /\ CallsLeft(Failed(p)) = 1
         /\ Exit(p, "abort") \in Handlers /\ CallsLeft(Exit(p, "abort")) = 1
         /\ Leave(p, TRUE) \in Handlers /\ CallsLeft(Leave(p, TRUE)) = 2
         /\ Leave(p, FALSE) \in Handlers /\ CallsLeft(Leave(p, FALSE)) = 2
<1>1. Idle \in Handlers /\ Idle.pc = "idle"
  BY IdlePlaced DEF PlacedHandlers, Idle
<1>2. Failed(p) \in Handlers /\ Failed(p).pc = "needsRepair"
  BY FailedType DEF PlacedHandlers
<1>3. "abort" \in ExitPcs
  BY DEF ExitPcs
<1>4. Exit(p, "abort") \in Handlers /\ Exit(p, "abort").pc = "abort"
  BY <1>3, ExitType DEF PlacedHandlers
<1>5. /\ Leave(p, TRUE) \in Handlers /\ Leave(p, TRUE).pc = "release"
      /\ Leave(p, FALSE) \in Handlers /\ Leave(p, FALSE).pc = "release"
  BY LeaveType DEF PlacedHandlers
<1> QED
  BY <1>1, <1>2, <1>4, <1>5, CallsAtPlace

LEMMA DepartureCalls ==
  ASSUME NEW x \in Departures
  PROVE  x \in Handlers /\ CallsLeft(x) \in {1, 2, 4}
<1>1. x \in Handlers /\ x.pc \in { "needsRepair", "release", "addCheck", "abort" }
  BY DEF Departures, PlacedHandlers, ExitPcs
<1> QED
  BY <1>1, CallsAtPlace

\* The handler in slot o makes a call and goes on with fewer to make.
Advances(o) == \E x \in Nearer(CallsLeft(op[o])) : Becomes(o, x)

LEMMA ReadsAdvance ==
  ASSUME TypeInv, NEW o \in Ops,
         \/ Lookup(o) \/ ReadSchedule(o) \/ ShouldSkip(o) \/ CheckPending(o)
         \/ RepairRead(o) \/ RepairFind(o) \/ RepairCheck(o)
  PROVE  Advances(o)
<1> DEFINE p == op[o]
<1>0. p \in Handlers /\ Placed(p) /\ sched \in Schedules
  BY DEF TypeInv, TypeOK, PlacedHandlers
<1>d. /\ \A n \in {3, 4, 6, 8, 10} : Failed(p) \in Nearer(n) /\ Exit(p, "abort") \in Nearer(n)
      /\ \A n \in {3, 4, 6, 8, 10} : Leave(p, TRUE) \in Nearer(n) /\ Leave(p, FALSE) \in Nearer(n)
      /\ \A n \in {3, 4, 6, 8, 10} : Idle \in Nearer(n)
  <2>1. /\ Idle \in Handlers /\ CallsLeft(Idle) = 0
        /\ Failed(p) \in Handlers /\ CallsLeft(Failed(p)) = 1
        /\ Exit(p, "abort") \in Handlers /\ CallsLeft(Exit(p, "abort")) = 1
        /\ Leave(p, TRUE) \in Handlers /\ CallsLeft(Leave(p, TRUE)) = 2
        /\ Leave(p, FALSE) \in Handlers /\ CallsLeft(Leave(p, FALSE)) = 2
    BY <1>0, ExitCalls
  <2>2. \A n \in {3, 4, 6, 8, 10} : 0 < n /\ 1 < n /\ 2 < n
    OBVIOUS
  <2> QED
    BY <2>1, <2>2, Zenon DEF Nearer
<1>a. ASSUME NEW x \in Nearer(CallsLeft(p)), NEW y \in Nearer(CallsLeft(p)), ReadStore(o, {x}, y)
      PROVE  Advances(o)
  BY <1>a DEF ReadStore, Advances, Becomes
<1>1. CASE Lookup(o)
  <2> DEFINE l == [ p EXCEPT !.pc = "lease" ]
             x == IF tasks[p.task].jobId THEN l ELSE Idle
             n == 12 + Len(RetryDelays)
  <2>1. ReadStore(o, {x}, Idle)
    BY <1>1 DEF Lookup
  <2>2. CallsLeft(p) = n /\ n \in Nat /\ n > 0
    BY <1>1, CallsOfStart, ConstantTypes DEF Lookup
  <2>3. l \in Handlers /\ l.pc = "lease"
    BY <1>0, MovedHandler DEF Pcs
  <2> HIDE DEF l
  <2>4. l.attempt \in Nat /\ CallsLeft(l) = 11 + Len(RetryDelays) - l.attempt
    BY <2>3, CallsOfStart, ConstantTypes DEF Handlers
  <2>5. l \in Nearer(n)
    BY <2>3, <2>4, ConstantTypes DEF Nearer
  <2>6. Idle \in Nearer(n)
    BY <1>0, <2>2, ExitCalls DEF Nearer
  <2>7. x \in Nearer(CallsLeft(p)) /\ Idle \in Nearer(CallsLeft(p))
    BY <2>2, <2>5, <2>6
  <2> HIDE DEF x
  <2> QED
    BY <1>a, <2>1, <2>7
<1>2. CASE ReadSchedule(o)
  <2> DEFINE q == [ p EXCEPT !.pc = "queue" ]
             f == [ p EXCEPT !.pc = "finish" ]
             x == CASE p.kind = SCHEDULE_STATE_START_TASK -> q
                    [] p.kind = SCHEDULE_STATE_END_TASK   -> f
                    [] p.kind = SCHEDULE_STATE_PASTURE    -> Leave(p, TRUE)
  <2>1. ReadStore(o, {x}, Idle)
    BY <1>2 DEF ReadSchedule
  <2>2. p.kind \in UpdateKinds /\ CallsLeft(p) = 10
    BY <1>0, <1>2, CallsOfStart DEF ReadSchedule, Placed
  <2>3. q \in Handlers /\ q.pc = "queue" /\ f \in Handlers /\ f.pc = "finish"
    BY <1>0, MovedHandler DEF Pcs, LeasedPcs
  <2> HIDE DEF q, f
  <2>4. q \in Nearer(10) /\ f \in Nearer(10)
    BY <2>3, CallsOfStart, CallsAtPlace DEF Nearer
  <2>5. Leave(p, TRUE) \in Nearer(10) /\ Idle \in Nearer(10)
    BY <1>d
  <2>6. x \in Nearer(10)
    BY <2>2, <2>4, <2>5
       DEF UpdateKinds, SCHEDULE_STATE_START_TASK, SCHEDULE_STATE_END_TASK, SCHEDULE_STATE_PASTURE
  <2> HIDE DEF x
  <2> QED
    BY <1>a, <2>1, <2>2, <2>5, <2>6
<1>3. CASE ShouldSkip(o)
  <2> DEFINE m == [ p EXCEPT !.pc = "markSkipped" ]
             s == [ p EXCEPT !.pc = "startJob" ]
             x == IF sched.skip /\ TasksIn(TASK_STATE_STARTED) # {} THEN m ELSE s
  <2>1. ReadStore(o, {x}, Failed(p)) /\ CallsLeft(p) = 8
    BY <1>3, CallsOfStart DEF ShouldSkip
  <2>2. m \in Handlers /\ m.pc = "markSkipped" /\ s \in Handlers /\ s.pc = "startJob"
    BY <1>0, MovedHandler DEF Pcs, LeasedPcs
  <2> HIDE DEF m, s
  <2>3. m \in Nearer(8) /\ s \in Nearer(8)
    BY <2>2, CallsOfStart, CallsAtPlace DEF Nearer
  <2>4. Failed(p) \in Nearer(8) /\ x \in Nearer(8)
    BY <1>d, <2>3
  <2> HIDE DEF x
  <2> QED
    BY <1>a, <2>1, <2>4
<1>4. CASE CheckPending(o)
  <2> DEFINE a == [ p EXCEPT !.pc = "addTask" ]
             x == IF TasksIn(TASK_STATE_PENDING) # {} THEN Leave(p, FALSE) ELSE a
  <2>1. ReadStore(o, {x}, Failed(p)) /\ CallsLeft(p) = 4
    BY <1>4, CallsAtPlace DEF CheckPending
  <2>2. a \in Handlers /\ a.pc = "addTask"
    BY <1>0, MovedHandler DEF Pcs, LeasedPcs
  <2> HIDE DEF a
  <2>3. a \in Nearer(4)
    BY <2>2, CallsAtPlace DEF Nearer
  <2>4. Failed(p) \in Nearer(4) /\ x \in Nearer(4)
    BY <1>d, <2>3
  <2> HIDE DEF x
  <2> QED
    BY <1>a, <2>1, <2>4
<1>5. CASE RepairRead(o)
  <2> DEFINE x == [ p EXCEPT !.pc = "steal", !.status = RepairSource(sched) ]
  <2>1. ReadStore(o, {x}, Idle) /\ CallsLeft(p) = 6
    BY <1>5, CallsAtPlace DEF RepairRead
  <2>2. RepairSource(sched) \in ScheduleUpdateStateType \cup {None}
    BY <1>0 DEF RepairSource, Schedules
  <2>3. x \in Handlers /\ x.pc = "steal"
    BY <1>0, <2>2 DEF Handlers, Pcs
  <2> HIDE DEF x
  <2>4. x \in Nearer(6) /\ Idle \in Nearer(6)
    BY <1>d, <2>3, CallsAtPlace DEF Nearer
  <2> QED
    BY <1>a, <2>1, <2>4
<1>6. CASE RepairFind(o)
  <2> DEFINE y == [ p EXCEPT !.pc = "repairCheck", !.task = sched.updateTaskPk ]
             x == CASE sched.repairState = SCHEDULE_STATE_ADD_TASK ->
                         IF sched.pasture THEN Leave(p, TRUE) ELSE y
                    [] sched.repairState \in { SCHEDULE_STATE_START_TASK, SCHEDULE_STATE_END_TASK,
                                               SCHEDULE_STATE_PASTURE } -> Exit(p, "abort")
                    [] OTHER -> Leave(p, TRUE)
  <2>1. ReadStore(o, {x}, Idle) /\ CallsLeft(p) = 4
    BY <1>6, CallsAtPlace DEF RepairFind
  <2>2. y \in Handlers /\ y.pc = "repairCheck"
    BY <1>0 DEF Handlers, Pcs, LeasedPcs, Schedules
  <2> HIDE DEF y
  <2>3. y \in Nearer(4) /\ Idle \in Nearer(4)
    BY <1>d, <2>2, CallsAtPlace DEF Nearer
  <2>4. Leave(p, TRUE) \in Nearer(4) /\ Exit(p, "abort") \in Nearer(4)
    BY <1>d
  <2>5. x \in Nearer(4)
    BY <2>3, <2>4
       DEF SCHEDULE_STATE_ADD_TASK, SCHEDULE_STATE_START_TASK, SCHEDULE_STATE_END_TASK,
           SCHEDULE_STATE_PASTURE
  <2> HIDE DEF x
  <2> QED
    BY <1>a, <2>1, <2>3, <2>5
<1>7. CASE RepairCheck(o)
  <2> DEFINE x == IF p.task # None /\ TasksIn(TASK_STATE_PENDING) # {} THEN Leave(p, FALSE)
                  ELSE Exit(p, "abort")
  <2>1. ReadStore(o, {x}, Exit(p, "abort")) /\ CallsLeft(p) = 3
    BY <1>7, CallsAtPlace DEF RepairCheck
  <2>2. x \in Nearer(3) /\ Exit(p, "abort") \in Nearer(3)
    BY <1>d
  <2> HIDE DEF x
  <2> QED
    BY <1>a, <2>1, <2>2
<1> QED
  BY <1>1, <1>2, <1>3, <1>4, <1>5, <1>6, <1>7

LEMMA UpdatesAdvance ==
  ASSUME TypeInv, NEW o \in Ops,
         \/ AddScheduledJob(o) \/ TakeLease(o) \/ ReleaseLease(o) \/ MarkNeedsRepair(o)
         \/ StealLease(o) \/ RepairAbort(o)
  PROVE  Advances(o)
<1> DEFINE p == op[o]
           n == CallsLeft(p)
<1>0. p \in Handlers /\ Placed(p) /\ sched \in Schedules
  BY DEF TypeInv, TypeOK, PlacedHandlers
<1>d. /\ Idle \in Handlers /\ CallsLeft(Idle) = 0
      /\ Failed(p) \in Handlers /\ CallsLeft(Failed(p)) = 1
      /\ Exit(p, "abort") \in Handlers /\ CallsLeft(Exit(p, "abort")) = 1
      /\ Leave(p, TRUE) \in Handlers /\ CallsLeft(Leave(p, TRUE)) = 2
  BY <1>0, ExitCalls
<1>a. ASSUME NEW condition, NEW row, NEW accepted, NEW rejected \in Nearer(n),
             accepted \subseteq Nearer(n),
             UpdateSchedule(o, condition, row, accepted, rejected)
      PROVE  Advances(o)
  BY <1>a DEF UpdateSchedule, Advances, Becomes
<1>1. CASE AddScheduledJob(o)
  <2> DEFINE x == [ p EXCEPT !.pc = "addTask" ]
             accepted == { x } \cup
               (IF "invalid" \in NextActions THEN { Leave(p, TRUE) } ELSE {})
  <2>1. n = 4
    BY <1>1, CallsAtPlace DEF AddScheduledJob
  <2>2. x \in Handlers /\ x.pc = "addTask"
    BY <1>0, MovedHandler DEF Pcs, LeasedPcs
  <2>3. PICK creation \in Creations, skip \in Skips :
          UpdateSchedule(o, TRUE, NewSchedule(creation, skip, p.task, o, p.now), accepted, Failed(p))
    BY <1>1 DEF AddScheduledJob
  <2> HIDE DEF x
  <2>4. CallsLeft(x) = 3
    BY <2>2, CallsAtPlace
  <2> HIDE DEF n
  <2>n. 1 < n /\ 2 < n /\ 3 < n
    BY <2>1
  <2>5. x \in Nearer(n) /\ Leave(p, TRUE) \in Nearer(n) /\ Failed(p) \in Nearer(n)
    BY <1>d, <2>2, <2>4, <2>n, Zenon DEF Nearer
  <2>6. accepted \subseteq Nearer(n)
    BY <2>5
  <2> HIDE DEF accepted
  <2> QED
    BY <1>a, <2>3, <2>5, <2>6
<1>2. CASE TakeLease(o)
  <2> DEFINE x == [ p EXCEPT !.pc = "read", !.attempt = 0, !.owed = 0 ]
             w == [ p EXCEPT !.attempt = @ + 1, !.wait = RetryDelays[p.attempt + 1] ]
  <2>1. UpdateSchedule(o, CanLease(sched), Lease(sched, p.kind, p.task, o, p.now), {x}, RetryLease(p))
    BY <1>2 DEF TakeLease
  <2>2. /\ p.pc = "lease" /\ n = 11 + Len(RetryDelays) - p.attempt
        /\ p.attempt \in Nat /\ p.attempt <= Len(RetryDelays)
    BY <1>0, <1>2, CallsOfStart, ConstantTypes DEF TakeLease, Handlers
  <2>3. x \in Handlers /\ x.pc = "read"
    <3>1. 0 \in 0..Len(RetryDelays) /\ 0 \in Int
      BY ConstantTypes
    <3> QED
      BY <1>0, <3>1 DEF Handlers, Pcs, LeasedPcs
  <2> HIDE DEF x
  <2>4. CallsLeft(x) = 10
    BY <2>3, CallsOfStart
  <2> HIDE DEF n
  <2>5. x \in Nearer(n)
    BY <2>2, <2>3, <2>4, ConstantTypes DEF Nearer
  <2>6. p.attempt < Len(RetryDelays) => w \in Nearer(n)
    <3> SUFFICES ASSUME p.attempt < Len(RetryDelays) PROVE w \in Nearer(n)
      OBVIOUS
    <3>1. p.attempt + 1 \in 0..Len(RetryDelays) /\ RetryDelays[p.attempt + 1] \in Int
      BY <2>2, ConstantTypes
    <3>2. w \in Handlers /\ w.pc = "lease" /\ w.attempt = p.attempt + 1
      BY <1>0, <2>2, <3>1 DEF Handlers
    <3> HIDE DEF w
    <3>3. CallsLeft(w) = 11 + Len(RetryDelays) - (p.attempt + 1)
      BY <3>2, CallsOfStart
    <3>4. CallsLeft(w) < n
      BY <2>2, <3>3, ConstantTypes
    <3> QED
      BY <3>2, <3>4 DEF Nearer
  <2>7. Idle \in Nearer(n)
    BY <1>d, <2>2, ConstantTypes DEF Nearer
  <2>8. RetryLease(p) \in Nearer(n)
    BY <2>6, <2>7 DEF RetryLease
  <2> QED
    BY <1>a, <2>1, <2>5, <2>8
<1>3. CASE ReleaseLease(o)
  <2> DEFINE y == IF p.kind = SCHEDULE_STATE_REPAIR THEN Exit(p, "abort") ELSE Idle
  <2>1. UpdateSchedule(o, OwnsLease(sched, o), Release(sched, p.pasture), {Idle}, y) /\ n = 2
    BY <1>3, CallsAtPlace DEF ReleaseLease
  <2> HIDE DEF n
  <2>2. Idle \in Nearer(n) /\ Exit(p, "abort") \in Nearer(n)
    BY <1>d, <2>1 DEF Nearer
  <2>3. y \in Nearer(n)
    BY <2>2
  <2> HIDE DEF y
  <2> QED
    BY <1>a, <2>1, <2>2, <2>3
<1>4. CASE MarkNeedsRepair(o)
  <2>1. UpdateSchedule(o, OwnsLease(sched, o), NeedsRepair(sched, p.now, FALSE), {Idle}, Idle) /\ n = 1
    BY <1>4, CallsAtPlace DEF MarkNeedsRepair
  <2> HIDE DEF n
  <2>2. Idle \in Nearer(n)
    BY <1>d, <2>1 DEF Nearer
  <2> QED
    BY <1>a, <2>1, <2>2
<1>5. CASE StealLease(o)
  <2> DEFINE x == [ p EXCEPT !.pc = "repairFind", !.status = None ]
  <2>1. UpdateSchedule(o, CanSteal(sched, p.now), Steal(sched, p.status, o, p.now), {x}, Idle) /\ n = 5
    BY <1>5, CallsAtPlace DEF StealLease
  <2>2. x \in Handlers /\ x.pc = "repairFind"
    BY <1>0 DEF Handlers, Pcs, LeasedPcs
  <2> HIDE DEF x
  <2>3. CallsLeft(x) = 4
    BY <2>2, CallsAtPlace
  <2> HIDE DEF n
  <2>4. x \in Nearer(n) /\ Idle \in Nearer(n)
    BY <1>d, <2>1, <2>2, <2>3 DEF Nearer
  <2> QED
    BY <1>a, <2>1, <2>4
<1>6. CASE RepairAbort(o)
  <2>1. UpdateSchedule(o, OwnsLease(sched, o), Release(sched, TRUE), {Idle}, Idle) /\ n = 1
    BY <1>6, CallsAtPlace DEF RepairAbort
  <2> HIDE DEF n
  <2>2. Idle \in Nearer(n)
    BY <1>d, <2>1 DEF Nearer
  <2> QED
    BY <1>a, <2>1, <2>2
<1> QED
  BY <1>1, <1>2, <1>3, <1>4, <1>5, <1>6

\* A write of a task's row.
LEMMA MarksAdvance ==
  ASSUME TypeInv, NEW o \in Ops,
         \/ MarkTaskQueued(o) \/ MarkTaskSkipped(o) \/ MarkTaskCompleted(o) \/ MarkTaskFailed(o)
         \/ MarkTaskStartFailed(o) \/ MarkTaskFinished(o)
  PROVE  Advances(o)
<1> DEFINE p == op[o]
           n == CallsLeft(p)
<1>0. p \in Handlers
  BY DEF TypeInv, TypeOK
<1>d. /\ Failed(p) \in Handlers /\ CallsLeft(Failed(p)) = 1
      /\ Leave(p, FALSE) \in Handlers /\ CallsLeft(Leave(p, FALSE)) = 2
      /\ AfterStart(p) \subseteq Departures /\ AfterFinish(p) \subseteq Departures
      /\ AfterFailure(p) \subseteq Departures /\ AfterFailedStart(p) \subseteq Departures
  BY <1>0, ExitCalls, FollowUpDeparts
<1>a. ASSUME NEW expected, NEW new, NEW accepted, accepted \subseteq Nearer(n),
             NEW rejected \in Nearer(n), MarkTask(o, expected, new, accepted, rejected)
      PROVE  Advances(o)
  BY <1>a DEF MarkTask, UpdateTask, Advances, Becomes
<1>b. n = 5 => /\ Failed(p) \in Nearer(n) /\ Leave(p, FALSE) \in Nearer(n)
               /\ Departures \subseteq Nearer(n)
  <2> HIDE DEF n
  <2> SUFFICES ASSUME n = 5
               PROVE  /\ Failed(p) \in Nearer(n) /\ Leave(p, FALSE) \in Nearer(n)
                      /\ Departures \subseteq Nearer(n)
    OBVIOUS
  <2>n. 1 < n /\ 2 < n /\ 4 < n
    OBVIOUS
  <2>1. Failed(p) \in Nearer(n) /\ Leave(p, FALSE) \in Nearer(n)
    BY <1>d, <2>n, Zenon DEF Nearer
  <2>2. Departures \subseteq Nearer(n)
    BY <2>n, DepartureCalls, Zenon DEF Nearer
  <2> QED
    BY <2>1, <2>2
<1>c. n = 5 => /\ AfterStart(p) \subseteq Nearer(n) /\ AfterFinish(p) \subseteq Nearer(n)
               /\ AfterFailure(p) \subseteq Nearer(n) /\ AfterFailedStart(p) \subseteq Nearer(n)
  BY <1>b, <1>d, Zenon
<1>1. CASE MarkTaskQueued(o)
  <2> DEFINE x == [ p EXCEPT !.pc = "dupCheck" ]
  <2>1. MarkTask(o, TASK_STATE_PENDING, TASK_STATE_QUEUED, {x}, Failed(p)) /\ n = 9
    BY <1>1, CallsOfStart DEF MarkTaskQueued
  <2>2. x \in Handlers /\ x.pc = "dupCheck"
    BY <1>0, MovedHandler DEF Pcs, LeasedPcs
  <2> HIDE DEF x
  <2>3. CallsLeft(x) = 8
    BY <2>2, CallsOfStart
  <2> HIDE DEF n
  <2>4. x \in Nearer(n) /\ Failed(p) \in Nearer(n)
    BY <1>d, <2>1, <2>2, <2>3 DEF Nearer
  <2> QED
    BY <1>a, <2>1, <2>4
<1>2. CASE MarkTaskSkipped(o)
  <2>1. MarkTask(o, TASK_STATE_QUEUED, TASK_STATE_COMPLETED, AfterStart(p), Failed(p)) /\ n = 5
    BY <1>2, CallsAtPlace DEF MarkTaskSkipped
  <2> QED
    BY <1>a, <1>b, <1>c, <2>1
<1>3. CASE MarkTaskCompleted(o)
  <2>1. MarkTask(o, TASK_STATE_STARTED, TASK_STATE_COMPLETED, AfterStart(p), Failed(p)) /\ n = 5
    BY <1>3, CallsAtPlace DEF MarkTaskCompleted
  <2> QED
    BY <1>a, <1>b, <1>c, <2>1
<1>4. CASE MarkTaskFailed(o)
  <2>1. MarkTask(o, TASK_STATE_QUEUED, TASK_STATE_FAILED, AfterFailedStart(p), Failed(p)) /\ n = 5
    BY <1>4, CallsAtPlace DEF MarkTaskFailed
  <2> QED
    BY <1>a, <1>b, <1>c, <2>1
<1>5. CASE MarkTaskStartFailed(o)
  <2> DEFINE x == IF p.status = "rejected" THEN Failed(p) ELSE Leave(p, FALSE)
  <2>1. MarkTask(o, TASK_STATE_QUEUED, TASK_STATE_START_ERROR, {x}, Failed(p)) /\ n = 5
    BY <1>5, CallsAtPlace DEF MarkTaskStartFailed
  <2>2. x \in Nearer(n)
    BY <1>b, <2>1
  <2> HIDE DEF x
  <2> QED
    BY <1>a, <1>b, <2>1, <2>2
<1>6. CASE MarkTaskFinished(o)
  <2>1. n = 5
    BY <1>6, CallsAtPlace DEF MarkTaskFinished
  <2>2. CASE MarkTask(o, TASK_STATE_STARTED, TASK_STATE_COMPLETED, AfterFinish(p), Failed(p))
    BY <1>a, <1>b, <1>c, <2>1, <2>2
  <2>3. CASE MarkTask(o, TASK_STATE_STARTED, TASK_STATE_COMPLETE_ERROR, AfterFailure(p), Failed(p))
    BY <1>a, <1>b, <1>c, <2>1, <2>3
  <2>4. CASE Becomes(o, Failed(p))
    BY <1>b, <2>1, <2>4 DEF Advances
  <2> QED
    BY <1>6, <2>2, <2>3, <2>4 DEF MarkTaskFinished, Becomes
<1> QED
  BY <1>1, <1>2, <1>3, <1>4, <1>5, <1>6

\* The call of the job framework, the record of its answer, and a new task's row.
LEMMA JobStepsAdvance ==
  ASSUME TypeInv, NEW o \in Ops, StartJob(o) \/ MarkTaskStarted(o) \/ AddTask(o)
  PROVE  Advances(o)
<1> DEFINE p == op[o]
           n == CallsLeft(p)
<1>0. p \in Handlers /\ Placed(p)
  BY DEF TypeInv, TypeOK, PlacedHandlers
<1>d. /\ Failed(p) \in Handlers /\ CallsLeft(Failed(p)) = 1
      /\ Leave(p, FALSE) \in Handlers /\ CallsLeft(Leave(p, FALSE)) = 2
      /\ AfterStart(p) \subseteq Departures
  BY <1>0, ExitCalls, FollowUpDeparts
<1>a. ASSUME NEW t, NEW condition, NEW row, NEW accepted, accepted \subseteq Nearer(n),
             NEW rejected \in Nearer(n), UpdateTask(o, t, condition, row, accepted, rejected)
      PROVE  Advances(o)
  BY <1>a DEF UpdateTask, Advances, Becomes
<1>1. CASE StartJob(o)
  <2>1. n = 7
    BY <1>1, CallsOfStart DEF StartJob
  <2>2. PICK reply \in Responses :
          op' = [op EXCEPT ![o] =
                   CASE reply \in {"running", "completed", "failed"} ->
                          [ p EXCEPT !.pc = "markStarted", !.status = reply ]
                     [] reply \in {"did-not-start", "rejected"} ->
                          [ p EXCEPT !.pc = "markStartFailed", !.status = reply ]
                     [] reply = "unknown" -> Failed(p) ]
    BY <1>1 DEF StartJob
  <2>3. reply \in JobReplies
    BY ConstantTypes
  <2>4. ASSUME NEW pc \in {"markStarted", "markStartFailed"}
        PROVE  [ p EXCEPT !.pc = pc, !.status = reply ] \in Nearer(n)
    <3> DEFINE x == [ p EXCEPT !.pc = pc, !.status = reply ]
    <3>1. x \in Handlers /\ x.pc = pc
      BY <1>0, <2>3 DEF Handlers, Pcs, LeasedPcs
    <3> HIDE DEF x
    <3>2. CallsLeft(x) \in {5, 6}
      BY <3>1, CallsAtPlace
    <3> HIDE DEF n
    <3>3. x \in Nearer(n)
      BY <2>1, <3>1, <3>2 DEF Nearer
    <3> QED
      BY <3>3 DEF x
  <2>5. Failed(p) \in Nearer(n)
    BY <1>d, <2>1 DEF Nearer
  <2> HIDE DEF n
  <2>6. CASE reply \in {"running", "completed", "failed"}
    BY <2>2, <2>4, <2>6 DEF Advances, Becomes, n
  <2>7. CASE reply \in {"did-not-start", "rejected"}
    BY <2>2, <2>4, <2>7 DEF Advances, Becomes, n
  <2>8. CASE reply = "unknown"
    BY <2>2, <2>5, <2>8 DEF Advances, Becomes, n
  <2> QED
    BY <2>3, <2>6, <2>7, <2>8 DEF JobReplies
<1>2. CASE MarkTaskStarted(o)
  <2> DEFINE c == [ p EXCEPT !.pc = "markCompleted" ]
             f == [ p EXCEPT !.pc = "markFailed" ]
             accepted == CASE p.status = "running"   -> AfterStart(p)
                           [] p.status = "completed" -> { c }
                           [] p.status = "failed"    -> { f }
  <2>1. p.status \in {"running", "completed", "failed"} /\ n = 6
    BY <1>0, <1>2, CallsAtPlace DEF MarkTaskStarted, Placed
  <2>2. c \in Handlers /\ c.pc = "markCompleted" /\ f \in Handlers /\ f.pc = "markFailed"
    BY <1>0, MovedHandler DEF Pcs, LeasedPcs
  <2>3. UpdateTask(o, p.task, tasks[p.task].state = TASK_STATE_QUEUED,
          [tasks[p.task] EXCEPT !.state = TASK_STATE_STARTED, !.jobId = TRUE], accepted, Failed(p))
    BY <1>2 DEF MarkTaskStarted
  <2> HIDE DEF c, f
  <2>4. CallsLeft(c) = 5 /\ CallsLeft(f) = 5
    BY <2>2, CallsAtPlace
  <2> HIDE DEF n
  <2>5. c \in Nearer(n) /\ f \in Nearer(n) /\ Failed(p) \in Nearer(n) /\ Departures \subseteq Nearer(n)
    BY <1>d, <2>1, <2>2, <2>4, DepartureCalls DEF Nearer
  <2>6. accepted \subseteq Nearer(n)
    BY <1>d, <2>1, <2>5
  <2> HIDE DEF accepted
  <2> QED
    BY <1>a, <2>3, <2>5, <2>6
<1>3. CASE AddTask(o)
  <2> DEFINE accepted == { Leave(p, FALSE) }
             row == [ state |-> TASK_STATE_PENDING, executeAt |-> p.now + p.delay, jobId |-> FALSE ]
  <2>1. n = 3
    BY <1>3, CallsAtPlace DEF AddTask
  <2>2. PICK t \in Tasks : UpdateTask(o, t, TRUE, row, accepted, Failed(p))
    BY <1>3 DEF AddTask
  <2> HIDE DEF n
  <2>n. 1 < n /\ 2 < n
    BY <2>1
  <2>3. accepted \subseteq Nearer(n) /\ Failed(p) \in Nearer(n)
    BY <1>d, <2>n, Zenon DEF Nearer
  <2> HIDE DEF accepted, row
  <2> QED
    BY <1>a, <2>2, <2>3
<1> QED
  BY <1>1, <1>2, <1>3

LEMMA StepAdvances ==
  ASSUME TypeInv, NEW o \in Ops, Step(o)
  PROVE  Advances(o)
BY ReadsAdvance, UpdatesAdvance, MarksAdvance, JobStepsAdvance
   DEF Step, InLease, StartTask, AddFollowUp, Repair

\* What HandlersAdvance says of a step.
HandlersGoOn ==
  /\ \A o \in Ops :
       op[o].pc # "idle" =>
         op'[o] \in { op[o], Aged(op[o]) } \/ CallsLeft(op'[o]) < CallsLeft(op[o])
  /\ op' = op => \A o \in Ops : ~Step(o)

LEMMA NextGoesOn ==
  ASSUME TypeInv, Next
  PROVE  HandlersGoOn
<1>0. op \in [Ops -> Handlers]
  BY DEF TypeInv, TypeOK
<1>a. ASSUME NEW o \in Ops, Advances(o)
      PROVE  /\ CallsLeft(op'[o]) < CallsLeft(op[o])
             /\ \A q \in Ops \ {o} : op'[q] = op[q]
  BY <1>0, <1>a DEF Advances, Becomes, Nearer
<1>1. op' = op => \A o \in Ops : ~Step(o)
  <2> SUFFICES ASSUME op' = op, NEW o \in Ops, Step(o) PROVE FALSE
    OBVIOUS
  <2>1. CallsLeft(op[o]) < CallsLeft(op[o])
    BY <1>a, StepAdvances
  <2>2. CallsLeft(op[o]) \in Nat
    BY <1>0, CallsAreCounted
  <2> QED
    BY <2>1, <2>2
<1>2. ASSUME NEW q \in Ops, op[q].pc # "idle"
      PROVE  op'[q] \in { op[q], Aged(op[q]) } \/ CallsLeft(op'[q]) < CallsLeft(op[q])
  <2>1. CASE Tick
    BY <2>1 DEF Tick
  <2>2. ASSUME NEW o \in Ops, Step(o)
        PROVE  op'[q] = op[q] \/ CallsLeft(op'[q]) < CallsLeft(op[q])
    BY <1>a, <2>2, StepAdvances
  <2>3. ASSUME NEW o \in Ops,
               \/ CreateScheduledJob(o) \/ Disable(o) \/ PollExpired(o)
               \/ \E t \in Tasks : PollTask(o, t) \/ FinishNotice(o, t)
        PROVE  op'[q] = op[q]
    <3>1. op[o].pc = "idle" /\ \E h : op' = [op EXCEPT ![o] = h]
      BY <2>3 DEF CreateScheduledJob, Disable, PollExpired, PollTask, FinishNotice, Begin, Free
    <3> QED
      BY <1>0, <1>2, <3>1
  <2>4. ASSUME NEW o \in Ops, Crash(o)
        PROVE  op'[q] = op[q] \/ CallsLeft(op'[q]) < CallsLeft(op[q])
    <3>1. CASE q # o
      BY <1>0, <2>4, <3>1 DEF Crash
    <3>2. CASE q = o
      <4>1. op'[q] = Idle
        BY <1>0, <2>4, <3>2 DEF Crash
      <4>2. CallsLeft(Idle) = 0
        BY <1>0, ExitCalls
      <4>3. CallsLeft(op[q]) # 0
        <5>1. op[q].pc \in Pcs \ {"idle"} /\ 11 + Len(RetryDelays) - op[q].attempt > 0
              /\ 12 + Len(RetryDelays) > 0
          BY <1>0, <1>2, ConstantTypes DEF Handlers
        <5> QED
          BY <5>1 DEF CallsLeft, Pcs, LeasedPcs
      <4> QED
        BY <1>0, <4>1, <4>2, <4>3, CallsAreCounted
    <3> QED
      BY <3>1, <3>2
  <2>5. ASSUME NEW t \in Tasks, JobFinishes(t) \/ DeleteFinishedTask(t) PROVE op'[q] = op[q]
    BY <2>5 DEF JobFinishes, DeleteFinishedTask
  <2> QED
    BY <2>1, <2>2, <2>3, <2>4, <2>5 DEF Next
<1> QED
  BY <1>1, <1>2 DEF HandlersGoOn

\* Every handler makes at most as many calls as are counted when it begins (controller):
\* for any retries, whatever calls fail, and whoever overtakes it.  With the fairness of
\* its steps, every handler therefore ends.
THEOREM HandlersEnd == Spec => HandlersAdvance
<1>1. Spec => []TypeInv
  BY TypeInvInitially, TypeInvStep, PTL DEF Spec
<1>2. TypeInv /\ [Next]_vars => [HandlersGoOn]_vars
  BY NextGoesOn
<1>3. HandlersAdvance <=> [][HandlersGoOn]_vars
  BY PTL DEF HandlersAdvance, HandlersGoOn
<1> QED
  BY <1>1, <1>2, <1>3, PTL DEF Spec

==============================================================================
