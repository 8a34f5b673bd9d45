---------------------------- MODULE OverlapProofs ----------------------------
(***************************************************************************)
(* Why a schedule has at most one pending task, and why jobs do not overlap *)
(* under always-skip, while handlers are punctual.                         *)
(*                                                                         *)
(* Both checks look at the rows first and act in a later step, so that they *)
(* rest on the lease: nobody else works inside it meanwhile (WorkAlone).    *)
(* shouldSkipTask looks at started tasks only.  A job whose task never got  *)
(* from queued to started is invisible to it; what saves the schedule is    *)
(* that it has no pending task then, and nobody left to add one.            *)
(***************************************************************************)
EXTENDS JobProofs, LeaseProofs

Pending(rows) == { t \in Tasks : rows[t].state = TASK_STATE_PENDING }

\* Tasks whose job runs although the row says that it is still to be started.
Unseen(rows, jobs) ==
  { t \in Tasks : rows[t].state = TASK_STATE_QUEUED /\ jobs[t] = RunningReply }

Busy(rows, jobs) ==
  Unseen(rows, jobs) \cup { t \in Tasks : rows[t].state = TASK_STATE_STARTED }

\* Where a handler launches a task, or is to add the next one.
SchedulingPcs == LaunchPcs \cup AnsweredPcs \cup { "addCheck", "addTask" }

\* What the handler p rests on, under always-skip.
Undisturbed(p, pending, busy, unseen) ==
  /\ p.pc \in { "dupCheck", "startJob", "markStarted" } => pending = {}
  /\ p.pc = "startJob" => busy = {}
  /\ p.pc = "markStarted" => busy \subseteq {p.task}
  /\ p.pc \in SchedulingPcs \ { "markStarted" } => unseen = {}

AddsOnlyOne == \A o \in Ops : op[o].pc = "addTask" => Pending(tasks) = {}

SkipInv ==
  /\ \A t, u \in Busy(tasks, job) : t = u
  /\ Unseen(tasks, job) # {} => Pending(tasks) = {}
  /\ \A o \in Ops :
       Undisturbed(op[o], Pending(tasks), Busy(tasks, job), Unseen(tasks, job))

OverlapInv ==
  /\ \A t, u \in Pending(tasks) : t = u
  /\ AddsOnlyOne
  /\ sched.skip => SkipInv

\* Inside the lease a handler works alone.
LEMMA WorkAlone ==
  ASSUME LeaseInv, NEW o \in Ops, op[o].pc \in WorkPcs, NEW q \in Ops, op[q].pc \in WorkPcs
  PROVE  o = q
<1>1. sched.creation # None
  BY DEF LeaseInv, Unborn, WorkPcs, LeasedPcs, CreatorPcs
<1>2. Holds(o) /\ Holds(q) /\ op[o].pc # "abort" /\ op[q].pc # "abort"
  BY <1>1 DEF Holds, WorkPcs
<1>3. sched.leaseOwner = o /\ sched.leaseOwner = q
  BY <1>2 DEF LeaseInv, LeaseHeld, OwnsLease
<1>4. QED
  BY <1>3

LEMMA SchedulingIsWork == SchedulingPcs \subseteq WorkPcs
BY DEF SchedulingPcs, WorkPcs, LeasedPcs, LaunchPcs, AnsweredPcs

LEMMA OverlapInvInitially == Init => OverlapInv
<1> SUFFICES ASSUME Init PROVE OverlapInv
  OBVIOUS
<1>1. \A t \in Tasks : tasks[t].state = TASK_ABSENT
  BY DEF Init, NoTask
<1>2. Pending(tasks) = {} /\ Busy(tasks, job) = {} /\ Unseen(tasks, job) = {}
  BY <1>1, StatesDiffer DEF Pending, Busy, Unseen
<1>3. QED
  BY <1>2 DEF OverlapInv, AddsOnlyOne, SkipInv, Undisturbed

------------------------------------------------------------------------------
(* A step of the handler in slot o                                         *)

OnlyMoves(o) == \A q \in Ops : q # o => op'[q] = op[q]

\* No task becomes pending or busy.
Shrinks ==
  /\ Pending(tasks') \subseteq Pending(tasks)
  /\ Busy(tasks', job') \subseteq Busy(tasks, job)
  /\ Unseen(tasks', job') \subseteq Unseen(tasks, job)

LEMMA UndisturbedShrinks ==
  ASSUME NEW p, NEW P1, NEW B1, NEW U1, Undisturbed(p, P1, B1, U1),
         NEW P2 \in SUBSET P1, NEW B2 \in SUBSET B1, NEW U2 \in SUBSET U1
  PROVE  Undisturbed(p, P2, B2, U2)
BY DEF Undisturbed

\* A step that lets no task become pending or busy, of a handler that does not
\* come to schedule anything.
LEMMA PlainKeeps ==
  ASSUME OverlapInv, NEW o, OnlyMoves(o), op'[o].pc \notin SchedulingPcs, Shrinks,
         sched'.skip = sched.skip
  PROVE  OverlapInv'
<1> DEFINE P1 == Pending(tasks)   P2 == Pending(tasks')
           B1 == Busy(tasks, job)   B2 == Busy(tasks', job')
           U1 == Unseen(tasks, job)   U2 == Unseen(tasks', job')
<1>1. P2 \subseteq P1 /\ B2 \subseteq B1 /\ U2 \subseteq U1
  BY DEF Shrinks
<1>2. \A t, u \in P2 : t = u
  BY <1>1 DEF OverlapInv
<1>3. \A q \in Ops : op'[q].pc = "addTask" => P2 = {}
  BY <1>1 DEF OverlapInv, AddsOnlyOne, OnlyMoves, SchedulingPcs
<1>4. ASSUME sched.skip
      PROVE  /\ \A t, u \in B2 : t = u
             /\ U2 # {} => P2 = {}
             /\ \A q \in Ops : Undisturbed(op'[q], P2, B2, U2)
  <2>1. /\ \A t, u \in B1 : t = u
        /\ U1 # {} => P1 = {}
        /\ \A q \in Ops : Undisturbed(op[q], P1, B1, U1)
    BY <1>4 DEF OverlapInv, SkipInv
  <2> HIDE DEF P1, P2, B1, B2, U1, U2
  <2>2. \A q \in Ops : q # o => Undisturbed(op'[q], P2, B2, U2)
    BY <1>1, <2>1, UndisturbedShrinks DEF OnlyMoves
  <2>3. Undisturbed(op'[o], P2, B2, U2)
    BY DEF Undisturbed, SchedulingPcs, LaunchPcs
  <2>4. QED
    BY <1>1, <2>1, <2>2, <2>3
<1>5. QED
  BY <1>2, <1>3, <1>4
     DEF OverlapInv, AddsOnlyOne, SkipInv, Undisturbed, Pending, Busy, Unseen

\* A step inside the lease: only the handler that makes it is concerned.
LEMMA WorkKeepsOverlap ==
  ASSUME LeaseInv, NEW o \in Ops, op[o].pc \in WorkPcs, OnlyMoves(o), sched' = sched,
         \A t, u \in Pending(tasks') : t = u,
         op'[o].pc = "addTask" => Pending(tasks') = {},
         sched.skip =>
           /\ \A t, u \in Busy(tasks', job') : t = u
           /\ Unseen(tasks', job') # {} => Pending(tasks') = {}
           /\ Undisturbed(op'[o], Pending(tasks'), Busy(tasks', job'), Unseen(tasks', job'))
  PROVE  OverlapInv'
<1>1. \A q \in Ops : q # o => op'[q].pc \notin SchedulingPcs
  BY WorkAlone, SchedulingIsWork DEF OnlyMoves
<1>2. \A q \in Ops : op'[q].pc = "addTask" => Pending(tasks') = {}
  BY <1>1 DEF SchedulingPcs
<1>3. ASSUME NEW q \in Ops, sched.skip
      PROVE  Undisturbed(op'[q], Pending(tasks'), Busy(tasks', job'), Unseen(tasks', job'))
  BY <1>1, <1>3 DEF Undisturbed, SchedulingPcs, LaunchPcs
<1>4. QED
  BY <1>2, <1>3
     DEF OverlapInv, AddsOnlyOne, SkipInv, Undisturbed, Pending, Busy, Unseen

------------------------------------------------------------------------------
(* Steps that change no task                                               *)

LEMMA PlainMove ==
  ASSUME TypeInv, OverlapInv, NEW o \in Ops, NEW x, Becomes(o, x), x.pc \notin SchedulingPcs,
         UNCHANGED << tasks, job >>, sched'.skip = sched.skip
  PROVE  OverlapInv'
<1>1. OnlyMoves(o) /\ op'[o] = x
  BY DEF OnlyMoves, Becomes, TypeInv, TypeOK
<1>2. Shrinks
  BY DEF Shrinks, Pending, Busy, Unseen
<1>3. QED
  BY <1>1, <1>2, PlainKeeps

LEMMA ExitIsPlain ==
  ASSUME NEW p \in Handlers
  PROVE  /\ Idle.pc \notin SchedulingPcs
         /\ Failed(p).pc \notin SchedulingPcs
         /\ \A pastured \in BOOLEAN : Leave(p, pastured).pc \notin SchedulingPcs
         /\ Exit(p, "abort").pc \notin SchedulingPcs
BY FailedType, LeaveType, ExitType
   DEF Idle, SchedulingPcs, LaunchPcs, AnsweredPcs, ExitPcs

LEMMA BeginOverlap ==
  ASSUME TypeInv, OverlapInv, NEW o \in Ops,
         \/ CreateScheduledJob(o) \/ Disable(o) \/ PollExpired(o)
         \/ \E t \in Tasks : PollTask(o, t) \/ FinishNotice(o, t)
  PROVE  OverlapInv'
<1>0. Idle \in Handlers
  BY IdlePlaced DEF PlacedHandlers
<1>1. ASSUME NEW pc, NEW kind, NEW t, NEW status
      PROVE  /\ Handler(pc, kind, t, status).pc = pc
             /\ [ Handler(pc, kind, t, status) EXCEPT !.owed = 0 ].pc = pc
  BY DEF Handler, Idle
<1>2. ASSUME NEW x, Becomes(o, x), x.pc \in {"addSchedule", "lease", "repairRead", "lookup"},
             UNCHANGED << sched, tasks, job >>
      PROVE  OverlapInv'
  BY <1>2, PlainMove DEF SchedulingPcs, LaunchPcs, AnsweredPcs
<1>3. CASE CreateScheduledJob(o)
  <2>1. PICK t \in Tasks :
          op' = [op EXCEPT ![o] =
                 [ Handler("addSchedule", SCHEDULE_STATE_ADD_TASK, t, None) EXCEPT !.owed = 0 ]]
    BY <1>3 DEF CreateScheduledJob
  <2> DEFINE x == [ Handler("addSchedule", SCHEDULE_STATE_ADD_TASK, t, None) EXCEPT !.owed = 0 ]
  <2>2. x.pc = "addSchedule" /\ Becomes(o, x)
    BY <1>1, <2>1 DEF Becomes
  <2> HIDE DEF x
  <2>3. QED
    BY <1>2, <1>3, <2>2 DEF CreateScheduledJob
<1>4. CASE Disable(o)
  <2> DEFINE x == Handler("lease", SCHEDULE_STATE_PASTURE, None, None)
  <2>1. x.pc = "lease" /\ Becomes(o, x)
    BY <1>1, <1>4 DEF Disable, Begin, Becomes
  <2> HIDE DEF x
  <2>2. QED
    BY <1>2, <1>4, <2>1 DEF Disable, Begin
<1>5. CASE PollExpired(o)
  <2> DEFINE x == [ Handler("repairRead", SCHEDULE_STATE_REPAIR, None, None) EXCEPT !.owed = 0 ]
  <2>1. x.pc = "repairRead" /\ Becomes(o, x)
    BY <1>1, <1>5 DEF PollExpired, Begin, Becomes
  <2> HIDE DEF x
  <2>2. QED
    BY <1>2, <1>5, <2>1 DEF PollExpired, Begin
<1>6. ASSUME NEW t \in Tasks, PollTask(o, t) PROVE OverlapInv'
  <2> DEFINE x == Handler("lease", SCHEDULE_STATE_START_TASK, t, None)
  <2>1. x.pc = "lease" /\ Becomes(o, x)
    BY <1>1, <1>6 DEF PollTask, Begin, Becomes
  <2> HIDE DEF x
  <2>2. QED
    BY <1>2, <1>6, <2>1 DEF PollTask, Begin
<1>7. ASSUME NEW t \in Tasks, FinishNotice(o, t) PROVE OverlapInv'
  <2> DEFINE x == Handler("lookup", SCHEDULE_STATE_END_TASK, t, job[t])
  <2>1. x.pc = "lookup" /\ Becomes(o, x)
    BY <1>1, <1>7 DEF FinishNotice, Begin, Becomes
  <2> HIDE DEF x
  <2>2. QED
    BY <1>2, <1>7, <2>1 DEF FinishNotice, Begin
<1>8. QED
  BY <1>3, <1>4, <1>5, <1>6, <1>7

LEMMA OutsideReadsOverlap ==
  ASSUME TypeInv, OverlapInv, NEW o \in Ops,
         \/ Lookup(o) \/ ReadSchedule(o) \/ RepairRead(o) \/ RepairFind(o) \/ RepairCheck(o)
  PROVE  OverlapInv'
<1> DEFINE p == op[o]
<1>0. p \in Handlers /\ Placed(p)
  BY DEF TypeInv, TypeOK, PlacedHandlers
<1>1. ASSUME NEW x, NEW y, ReadStore(o, {x}, y),
             x.pc \notin SchedulingPcs, y.pc \notin SchedulingPcs
      PROVE  OverlapInv'
  <2>1. /\ Becomes(o, x) \/ Becomes(o, y)
        /\ UNCHANGED << sched, tasks, job >>
    BY <1>1 DEF ReadStore, Becomes
  <2>2. QED
    BY <1>1, <2>1, PlainMove
<1>2. CASE Lookup(o)
  <2> DEFINE y == IF tasks[p.task].jobId THEN [ p EXCEPT !.pc = "lease" ] ELSE Idle
  <2>1. ReadStore(o, {y}, Idle)
    BY <1>2 DEF Lookup
  <2>2. y.pc \notin SchedulingPcs
    BY <1>0, MovedHandler, ExitIsPlain DEF Pcs, SchedulingPcs, LaunchPcs, AnsweredPcs
  <2> HIDE DEF y
  <2>3. QED
    BY <1>0, <1>1, <2>1, <2>2, ExitIsPlain
<1>3. CASE ReadSchedule(o)
  <2> DEFINE x == CASE p.kind = SCHEDULE_STATE_START_TASK -> [ p EXCEPT !.pc = "queue" ]
                    [] p.kind = SCHEDULE_STATE_END_TASK   -> [ p EXCEPT !.pc = "finish" ]
                    [] p.kind = SCHEDULE_STATE_PASTURE    -> Leave(p, TRUE)
  <2>1. ReadStore(o, {x}, Idle) /\ p.kind \in UpdateKinds
    BY <1>0, <1>3 DEF ReadSchedule, Placed
  <2>2. /\ [ p EXCEPT !.pc = "queue" ].pc \notin SchedulingPcs
        /\ [ p EXCEPT !.pc = "finish" ].pc \notin SchedulingPcs
        /\ Leave(p, TRUE).pc \notin SchedulingPcs
    <3>1. [ p EXCEPT !.pc = "queue" ].pc = "queue" /\ [ p EXCEPT !.pc = "finish" ].pc = "finish"
      BY <1>0 DEF Handlers
    <3>2. QED
      BY <1>0, <3>1, ExitIsPlain DEF SchedulingPcs, LaunchPcs, AnsweredPcs
  <2>3. x.pc \notin SchedulingPcs
    BY <2>1, <2>2
       DEF UpdateKinds, SCHEDULE_STATE_START_TASK, SCHEDULE_STATE_END_TASK, SCHEDULE_STATE_PASTURE
  <2> HIDE DEF x
  <2>4. QED
    BY <1>0, <1>1, <2>1, <2>3, ExitIsPlain
<1>4. CASE RepairRead(o)
  <2> DEFINE x == [ p EXCEPT !.pc = "steal", !.status = RepairSource(sched) ]
  <2>1. ReadStore(o, {x}, Idle)
    BY <1>4 DEF RepairRead
  <2>2. x.pc = "steal"
    BY <1>0 DEF Handlers
  <2> HIDE DEF x
  <2>3. QED
    BY <1>0, <1>1, <2>1, <2>2, ExitIsPlain DEF SchedulingPcs, LaunchPcs, AnsweredPcs
<1>5. CASE RepairFind(o)
  <2> DEFINE y == [ p EXCEPT !.pc = "repairCheck", !.task = sched.updateTaskPk ]
             x == CASE sched.repairState = SCHEDULE_STATE_ADD_TASK ->
                         IF sched.pasture THEN Leave(p, TRUE) ELSE y
                    [] sched.repairState \in { SCHEDULE_STATE_START_TASK, SCHEDULE_STATE_END_TASK,
                                               SCHEDULE_STATE_PASTURE } -> Exit(p, "abort")
                    [] OTHER -> Leave(p, TRUE)
  <2>1. ReadStore(o, {x}, Idle)
    BY <1>5 DEF RepairFind
  <2>2. y.pc = "repairCheck"
    BY <1>0 DEF Handlers
  <2> HIDE DEF y
  <2>3. x = y \/ x = Leave(p, TRUE) \/ x = Exit(p, "abort")
    BY DEF SCHEDULE_STATE_ADD_TASK, SCHEDULE_STATE_START_TASK, SCHEDULE_STATE_END_TASK,
           SCHEDULE_STATE_PASTURE
  <2> HIDE DEF x
  <2>4. x.pc \notin SchedulingPcs
    BY <1>0, <2>2, <2>3, ExitIsPlain DEF SchedulingPcs, LaunchPcs, AnsweredPcs
  <2>5. QED
    BY <1>0, <1>1, <2>1, <2>4, ExitIsPlain
<1>6. CASE RepairCheck(o)
  <2> DEFINE x == IF p.task # None /\ TasksIn(TASK_STATE_PENDING) # {} THEN Leave(p, FALSE)
                  ELSE Exit(p, "abort")
  <2>1. ReadStore(o, {x}, Exit(p, "abort"))
    BY <1>6 DEF RepairCheck
  <2>2. x.pc \notin SchedulingPcs
    BY <1>0, ExitIsPlain
  <2> HIDE DEF x
  <2>3. QED
    BY <1>0, <1>1, <2>1, <2>2, ExitIsPlain
<1>7. QED
  BY <1>2, <1>3, <1>4, <1>5, <1>6

LEMMA LeaseStepsOverlap ==
  ASSUME TypeInv, OverlapInv, NEW o \in Ops,
         \/ TakeLease(o) \/ ReleaseLease(o) \/ MarkNeedsRepair(o) \/ StealLease(o) \/ RepairAbort(o)
  PROVE  OverlapInv'
<1> DEFINE p == op[o]
<1>0. p \in Handlers /\ sched \in Schedules
  BY DEF TypeInv, TypeOK
<1>1. ASSUME NEW condition, NEW row, NEW x, NEW y, UpdateSchedule(o, condition, row, {x}, y),
             row.skip = sched.skip, x.pc \notin SchedulingPcs, y.pc \notin SchedulingPcs
      PROVE  OverlapInv'
  <2>1. /\ Becomes(o, x) \/ Becomes(o, y)
        /\ sched' = sched \/ sched' = row
        /\ UNCHANGED << tasks, job >>
    BY <1>1 DEF UpdateSchedule, Becomes
  <2>2. QED
    BY <1>1, <2>1, PlainMove
<1>2. CASE TakeLease(o)
  <2> DEFINE x == [ p EXCEPT !.pc = "read", !.attempt = 0, !.owed = 0 ]
             y == RetryLease(p)
             row == Lease(sched, p.kind, p.task, o, p.now)
  <2>1. UpdateSchedule(o, CanLease(sched), row, {x}, y) /\ p.pc = "lease"
    BY <1>2 DEF TakeLease
  <2>2. x.pc = "read" /\ row.skip = sched.skip
    BY <1>0 DEF Handlers, Lease, Schedules
  <2>3. y.pc \in {"lease", "idle"}
    BY <1>0, <2>1 DEF RetryLease, Handlers, Idle
  <2> HIDE DEF x, y, row
  <2>4. QED
    BY <1>1, <2>1, <2>2, <2>3 DEF SchedulingPcs, LaunchPcs, AnsweredPcs
<1>3. CASE ReleaseLease(o)
  <2> DEFINE y == IF p.kind = SCHEDULE_STATE_REPAIR THEN Exit(p, "abort") ELSE Idle
             row == Release(sched, p.pasture)
  <2>1. UpdateSchedule(o, OwnsLease(sched, o), row, {Idle}, y)
    BY <1>3 DEF ReleaseLease
  <2>2. row.skip = sched.skip
    BY <1>0 DEF Release, Schedules
  <2>3. y.pc \notin SchedulingPcs
    BY <1>0, ExitIsPlain
  <2> HIDE DEF y, row
  <2>4. QED
    BY <1>0, <1>1, <2>1, <2>2, <2>3, ExitIsPlain
<1>4. CASE MarkNeedsRepair(o)
  <2> DEFINE row == NeedsRepair(sched, p.now, FALSE)
  <2>1. UpdateSchedule(o, OwnsLease(sched, o), row, {Idle}, Idle)
    BY <1>4 DEF MarkNeedsRepair
  <2>2. row.skip = sched.skip
    BY <1>0 DEF NeedsRepair, Schedules
  <2> HIDE DEF row
  <2>3. QED
    BY <1>0, <1>1, <2>1, <2>2, ExitIsPlain
<1>5. CASE StealLease(o)
  <2> DEFINE x == [ p EXCEPT !.pc = "repairFind", !.status = None ]
             row == Steal(sched, p.status, o, p.now)
  <2>1. UpdateSchedule(o, CanSteal(sched, p.now), row, {x}, Idle)
    BY <1>5 DEF StealLease
  <2>2. x.pc = "repairFind" /\ row.skip = sched.skip
    BY <1>0 DEF Handlers, Steal, Schedules
  <2> HIDE DEF x, row
  <2>3. QED
    BY <1>0, <1>1, <2>1, <2>2, ExitIsPlain DEF SchedulingPcs, LaunchPcs, AnsweredPcs
<1>6. CASE RepairAbort(o)
  <2> DEFINE row == Release(sched, TRUE)
  <2>1. UpdateSchedule(o, OwnsLease(sched, o), row, {Idle}, Idle)
    BY <1>6 DEF RepairAbort
  <2>2. row.skip = sched.skip
    BY <1>0 DEF Release, Schedules
  <2> HIDE DEF row
  <2>3. QED
    BY <1>0, <1>1, <2>1, <2>2, ExitIsPlain
<1>7. QED
  BY <1>2, <1>3, <1>4, <1>5, <1>6

\* The row is created before any task.
LEMMA AddScheduledJobOverlap ==
  ASSUME TypeInv, LeaseInv, OverlapInv, NEW o \in Ops, AddScheduledJob(o)
  PROVE  OverlapInv'
<1>1. op[o].pc = "addSchedule" /\ sched.creation = None
  BY DEF AddScheduledJob, LeaseInv, CreatorFirst
<1>2. /\ \A t \in Tasks : tasks[t].state = TASK_ABSENT /\ job[t] # RunningReply
      /\ UNCHANGED << tasks, job >>
  BY <1>1 DEF LeaseInv, Unborn, AddScheduledJob, UpdateSchedule
<1>3. Pending(tasks') = {} /\ Busy(tasks', job') = {} /\ Unseen(tasks', job') = {}
  BY <1>2, StatesDiffer DEF Pending, Busy, Unseen
<1>4. QED
  BY <1>3 DEF OverlapInv, AddsOnlyOne, SkipInv, Undisturbed, Pending, Busy, Unseen

------------------------------------------------------------------------------
(* The work inside the lease                                               *)

\* The handler departs.  It may have to add the next task, if no job is unseen.
LEMMA DepartOverlap ==
  ASSUME TypeInv, LeaseInv, OverlapInv, NEW o \in Ops, op[o].pc \in WorkPcs,
         NEW x, x.pc \in ExitPcs, Becomes(o, x), sched' = sched, Shrinks,
         sched.skip /\ x.pc = "addCheck" => Unseen(tasks', job') = {}
  PROVE  OverlapInv'
<1> DEFINE P1 == Pending(tasks)   P2 == Pending(tasks')
           B1 == Busy(tasks, job)   B2 == Busy(tasks', job')
           U1 == Unseen(tasks, job)   U2 == Unseen(tasks', job')
<1>1. OnlyMoves(o) /\ op'[o] = x
  BY DEF OnlyMoves, Becomes, TypeInv, TypeOK
<1>2. /\ P2 \subseteq P1 /\ B2 \subseteq B1 /\ U2 \subseteq U1
      /\ \A t, u \in P1 : t = u
      /\ sched.skip => (\A t, u \in B1 : t = u) /\ (U1 # {} => P1 = {})
      /\ sched.skip /\ x.pc = "addCheck" => U2 = {}
  BY DEF Shrinks, OverlapInv, SkipInv
<1> HIDE DEF P1, P2, B1, B2, U1, U2
<1>3. sched.skip => Undisturbed(x, P2, B2, U2)
  BY <1>2 DEF Undisturbed, ExitPcs, SchedulingPcs, LaunchPcs, AnsweredPcs
<1>4. /\ \A t, u \in P2 : t = u
      /\ op'[o].pc = "addTask" => P2 = {}
      /\ sched.skip =>
           (\A t, u \in B2 : t = u) /\ (U2 # {} => P2 = {}) /\ Undisturbed(op'[o], P2, B2, U2)
  BY <1>1, <1>2, <1>3 DEF ExitPcs
<1>5. QED
  BY <1>1, <1>4, WorkKeepsOverlap DEF P2, B2, U2

\* markTaskState with a state that is neither pending nor busy.
LEMMA MarkOverlap ==
  ASSUME TypeInv, LeaseInv, OverlapInv, NEW o \in Ops, op[o].pc \in WorkPcs, op[o].task \in Tasks,
         NEW expected, NEW state \in FinishedTaskStates, NEW STATE accepted, NEW STATE rejected,
         accepted \subseteq Departures, rejected.pc = "needsRepair",
         sched.skip /\ tasks[op[o].task].state = expected => Unseen(tasks, job) = {},
         MarkTask(o, expected, state, accepted, rejected)
  PROVE  OverlapInv'
<1> DEFINE t == op[o].task
           row == [tasks[t] EXCEPT !.state = state]
<1>0. tasks \in [Tasks -> TaskRows]
  BY DEF TypeInv, TypeOK
<1>1. /\ UpdateTask(o, t, tasks[t].state = expected, row, accepted, rejected)
      /\ job' = job
  BY DEF MarkTask
<1>2. row.state = state
  BY <1>0 DEF TaskRows
<1> HIDE DEF row
<1>3. /\ tasks' = tasks \/ tasks' = [tasks EXCEPT ![t] = row]
      /\ sched' = sched
      /\ \/ Becomes(o, rejected)
         \/ tasks[t].state = expected /\ \E x \in accepted : Becomes(o, x)
  BY <1>1 DEF UpdateTask, Becomes
<1>4. \A u \in Tasks : tasks'[u].state = tasks[u].state \/ tasks'[u].state \in FinishedTaskStates
  BY <1>0, <1>2, <1>3
<1>5. Shrinks
  BY <1>1, <1>4, StatesDiffer DEF Shrinks, Pending, Busy, Unseen
<1>6. CASE Becomes(o, rejected)
  BY <1>3, <1>5, <1>6, DepartOverlap DEF ExitPcs
<1>7. ASSUME tasks[t].state = expected, NEW x \in accepted, Becomes(o, x) PROVE OverlapInv'
  <2>1. x.pc \in ExitPcs
    BY DEF Departures
  <2>2. sched.skip => Unseen(tasks', job') = {}
    BY <1>5, <1>7 DEF Shrinks
  <2>3. QED
    BY <1>3, <1>5, <1>7, <2>1, <2>2, DepartOverlap
<1>8. QED
  BY <1>3, <1>6, <1>7

LEMMA MarksOverlap ==
  ASSUME TypeInv, LeaseInv, OverlapInv, NEW o \in Ops,
         \/ MarkTaskSkipped(o) \/ MarkTaskCompleted(o) \/ MarkTaskFailed(o)
         \/ MarkTaskStartFailed(o) \/ MarkTaskFinished(o)
  PROVE  OverlapInv'
<1> DEFINE p == op[o]
           t == p.task
<1>0. /\ p \in Handlers /\ t \in Tasks /\ p.pc \in WorkPcs
  BY PlacedTask
     DEF TypeInv, TypeOK, MarkTaskSkipped, MarkTaskCompleted, MarkTaskFailed, MarkTaskStartFailed,
         MarkTaskFinished, TaskPcs, LaunchPcs, AnsweredPcs, WorkPcs, LeasedPcs
<1>d. /\ Leave(p, FALSE) \in Departures /\ Failed(p) \in Departures
      /\ AfterStart(p) \subseteq Departures /\ AfterFinish(p) \subseteq Departures
      /\ AfterFailure(p) \subseteq Departures /\ AfterFailedStart(p) \subseteq Departures
      /\ Failed(p).pc = "needsRepair"
  BY <1>0, Departed, FollowUpDeparts, FailedType
<1>u. sched.skip /\ p.pc \in SchedulingPcs \ {"markStarted"} => Unseen(tasks, job) = {}
  BY DEF OverlapInv, SkipInv, Undisturbed
<1>1. CASE MarkTaskSkipped(o)
  BY <1>0, <1>d, <1>u, <1>1, StatesDiffer, MarkOverlap DEF MarkTaskSkipped, SchedulingPcs, LaunchPcs
<1>2. CASE MarkTaskCompleted(o)
  BY <1>0, <1>d, <1>u, <1>2, StatesDiffer, MarkOverlap
     DEF MarkTaskCompleted, SchedulingPcs, AnsweredPcs
<1>3. CASE MarkTaskFailed(o)
  BY <1>0, <1>d, <1>u, <1>3, StatesDiffer, MarkOverlap
     DEF MarkTaskFailed, SchedulingPcs, AnsweredPcs
<1>4. CASE MarkTaskStartFailed(o)
  <2> DEFINE x == IF p.status = "rejected" THEN Failed(p) ELSE Leave(p, FALSE)
             accepted == {x}
  <2>1. MarkTask(o, TASK_STATE_QUEUED, TASK_STATE_START_ERROR, accepted, Failed(p))
        /\ p.pc = "markStartFailed"
    BY <1>4 DEF MarkTaskStartFailed
  <2>2. accepted \subseteq Departures
    BY <1>d
  <2> HIDE DEF accepted
  <2>3. QED
    BY <1>0, <1>d, <1>u, <2>1, <2>2, StatesDiffer, MarkOverlap DEF SchedulingPcs, LaunchPcs
<1>5. CASE MarkTaskFinished(o)
  <2>1. sched.skip /\ tasks[t].state = TASK_STATE_STARTED => Unseen(tasks, job) = {}
    <3> SUFFICES ASSUME sched.skip, tasks[t].state = TASK_STATE_STARTED,
                        NEW u \in Unseen(tasks, job)
                 PROVE  FALSE
      OBVIOUS
    <3>1. t \in Busy(tasks, job) /\ u \in Busy(tasks, job)
      BY <1>0 DEF Busy
    <3>2. t = u
      BY <3>1 DEF OverlapInv, SkipInv
    <3>3. QED
      BY <3>2, StatesDiffer DEF Unseen
  <2>2. CASE MarkTask(o, TASK_STATE_STARTED, TASK_STATE_COMPLETED, AfterFinish(p), Failed(p))
    BY <1>0, <1>d, <2>1, <2>2, StatesDiffer, MarkOverlap
  <2>3. CASE MarkTask(o, TASK_STATE_STARTED, TASK_STATE_COMPLETE_ERROR, AfterFailure(p), Failed(p))
    BY <1>0, <1>d, <2>1, <2>3, StatesDiffer, MarkOverlap
  <2>4. CASE Becomes(o, Failed(p)) /\ UNCHANGED << sched, tasks, job >>
    BY <1>0, <2>4, PlainMove, ExitIsPlain
  <2>5. QED
    BY <1>5, <2>2, <2>3, <2>4 DEF MarkTaskFinished, Becomes
<1>6. QED
  BY <1>1, <1>2, <1>3, <1>4, <1>5

\* markTaskQueued: the one pending task leaves the schedule without any.
LEMMA MarkQueuedOverlap ==
  ASSUME TypeInv, LeaseInv, RecordInv, OverlapInv, NEW o \in Ops, MarkTaskQueued(o)
  PROVE  OverlapInv'
<1> DEFINE p == op[o]
           t == p.task
           x == [ p EXCEPT !.pc = "dupCheck" ]
           row == [tasks[t] EXCEPT !.state = TASK_STATE_QUEUED]
           rejected == Failed(p)
<1>0. /\ p \in Handlers /\ p.pc \in WorkPcs /\ t \in Tasks /\ tasks \in [Tasks -> TaskRows]
  BY PlacedTask DEF TypeInv, TypeOK, MarkTaskQueued, TaskPcs, WorkPcs, LeasedPcs
<1>1. /\ UpdateTask(o, t, tasks[t].state = TASK_STATE_PENDING, row, {x}, rejected)
      /\ job' = job
  BY DEF MarkTaskQueued, MarkTask
<1>2. row.state = TASK_STATE_QUEUED /\ x.pc = "dupCheck" /\ rejected.pc = "needsRepair"
  BY <1>0, FailedType DEF TaskRows, Handlers
<1> HIDE DEF x, row, rejected
<1>3. /\ sched' = sched
      /\ \/ tasks' = tasks /\ Becomes(o, rejected)
         \/ /\ tasks[t].state = TASK_STATE_PENDING
            /\ tasks' = [tasks EXCEPT ![t] = row]
            /\ Becomes(o, x) \/ Becomes(o, rejected)
  BY <1>1 DEF UpdateTask, Becomes
<1>4. CASE tasks' = tasks /\ Becomes(o, rejected)
  BY <1>1, <1>2, <1>3, <1>4, PlainMove DEF SchedulingPcs, LaunchPcs, AnsweredPcs
<1>5. ASSUME tasks[t].state = TASK_STATE_PENDING, tasks' = [tasks EXCEPT ![t] = row],
             NEW y, y = x \/ y = rejected, Becomes(o, y)
      PROVE  OverlapInv'
  <2>1. OnlyMoves(o) /\ op'[o] = y
    BY <1>5 DEF OnlyMoves, Becomes, TypeInv, TypeOK
  <2>2. /\ tasks'[t].state = TASK_STATE_QUEUED
        /\ \A u \in Tasks : u # t => tasks'[u] = tasks[u]
    BY <1>0, <1>2, <1>5
  <2>3. t \in Pending(tasks) /\ job[t] # RunningReply
    BY <1>0, <1>5 DEF Pending, RecordInv, TasksRecorded, TaskRecord, RunningReply
  <2>4. Pending(tasks') = {}
    BY <2>2, <2>3, StatesDiffer DEF Pending, OverlapInv
  <2>5. Shrinks
    BY <1>1, <1>5, <2>2, <2>3, <2>4, StatesDiffer DEF Shrinks, Busy, Unseen
  <2>6. sched.skip => Unseen(tasks, job) = {} /\ \A u, v \in Busy(tasks, job) : u = v
    BY <2>3 DEF OverlapInv, SkipInv
  <2>7. sched.skip =>
          /\ \A u, v \in Busy(tasks', job') : u = v
          /\ Unseen(tasks', job') = {}
    BY <2>5, <2>6 DEF Shrinks
  <2>8. sched.skip => Undisturbed(y, Pending(tasks'), Busy(tasks', job'), Unseen(tasks', job'))
    BY <1>2, <1>5, <2>4, <2>7 DEF Undisturbed
  <2>9. QED
    BY <1>0, <1>3, <2>1, <2>4, <2>7, <2>8, WorkKeepsOverlap
<1>6. QED
  BY <1>3, <1>4, <1>5

\* shouldSkipTask: no task is started, and none is unseen.
LEMMA ShouldSkipOverlap ==
  ASSUME TypeInv, LeaseInv, OverlapInv, NEW o \in Ops, ShouldSkip(o)
  PROVE  OverlapInv'
<1> DEFINE p == op[o]
           x == IF sched.skip /\ TasksIn(TASK_STATE_STARTED) # {}
                THEN [ p EXCEPT !.pc = "markSkipped" ] ELSE [ p EXCEPT !.pc = "startJob" ]
<1>0. p \in Handlers /\ p.pc = "dupCheck" /\ p.pc \in WorkPcs
  BY DEF TypeInv, TypeOK, ShouldSkip, WorkPcs, LeasedPcs
<1>1. ReadStore(o, {x}, Failed(p))
  BY DEF ShouldSkip
<1>2. /\ x.pc \in {"markSkipped", "startJob"}
      /\ sched.skip /\ x.pc = "startJob" => TasksIn(TASK_STATE_STARTED) = {}
  <2>1. [ p EXCEPT !.pc = "markSkipped" ].pc = "markSkipped"
        /\ [ p EXCEPT !.pc = "startJob" ].pc = "startJob"
    BY <1>0 DEF Handlers
  <2>2. QED
    BY <2>1
<1> HIDE DEF x
<1>3. /\ Becomes(o, x) \/ Becomes(o, Failed(p))
      /\ UNCHANGED << sched, tasks, job >>
  BY <1>1 DEF ReadStore, Becomes
<1>4. CASE Becomes(o, Failed(p))
  BY <1>0, <1>3, <1>4, PlainMove, ExitIsPlain
<1>5. CASE Becomes(o, x)
  <2>1. OnlyMoves(o) /\ op'[o] = x
    BY <1>5 DEF OnlyMoves, Becomes, TypeInv, TypeOK
  <2>2. sched.skip => SkipInv /\ Pending(tasks) = {} /\ Unseen(tasks, job) = {}
    BY <1>0 DEF OverlapInv, SkipInv, Undisturbed, SchedulingPcs, LaunchPcs
  <2>3. sched.skip /\ x.pc = "startJob" => Busy(tasks, job) = {}
    BY <1>2, <2>2 DEF Busy, TasksIn
  <2>4. sched.skip => Undisturbed(x, Pending(tasks), Busy(tasks, job), Unseen(tasks, job))
    BY <1>2, <2>2, <2>3 DEF Undisturbed
  <2>5. QED
    BY <1>0, <1>2, <1>3, <2>1, <2>2, <2>4, WorkKeepsOverlap DEF OverlapInv, SkipInv
<1>6. QED
  BY <1>3, <1>4, <1>5

\* startJob: the only step that makes a task busy, when no task is.
LEMMA StartJobOverlap ==
  ASSUME TypeInv, LeaseInv, RecordInv, OverlapInv, NEW o \in Ops, StartJob(o)
  PROVE  OverlapInv'
<1> DEFINE p == op[o]
           t == p.task
<1>0. /\ p \in Handlers /\ p.pc = "startJob" /\ p.pc \in WorkPcs /\ t \in Tasks
      /\ job \in [Tasks -> JobReplies \cup {"none"}] /\ op \in [Ops -> Handlers]
  BY PlacedTask DEF TypeInv, TypeOK, StartJob, TaskPcs, LaunchPcs, WorkPcs, LeasedPcs
<1>1. PICK reply \in Responses :
        /\ job' = [job EXCEPT ![t] =
                    IF reply \in {"running", "completed", "failed"} THEN reply ELSE "none"]
        /\ op' = [op EXCEPT ![o] =
                  CASE reply \in {"running", "completed", "failed"} ->
                         [ p EXCEPT !.pc = "markStarted", !.status = reply ]
                    [] reply \in {"did-not-start", "rejected"} ->
                         [ p EXCEPT !.pc = "markStartFailed", !.status = reply ]
                    [] reply = "unknown" -> Failed(p) ]
        /\ UNCHANGED << sched, tasks >>
  BY DEF StartJob
<1>2. reply \in JobReplies
  BY ConstantTypes
<1>3. OnlyMoves(o)
  BY <1>1 DEF OnlyMoves, TypeInv, TypeOK
<1>4. \/ op'[o].pc = "markStarted" /\ op'[o].task = t
      \/ op'[o].pc \in {"markStartFailed", "needsRepair"} /\ job'[t] = "none"
  <2>1. CASE reply \in {"running", "completed", "failed"}
    BY <1>0, <1>1, <2>1 DEF Handlers
  <2>2. CASE reply \in {"did-not-start", "rejected"}
    BY <1>0, <1>1, <2>2 DEF Handlers
  <2>3. CASE reply = "unknown"
    BY <1>0, <1>1, <2>3, FailedType
  <2>4. QED
    BY <1>2, <2>1, <2>2, <2>3 DEF JobReplies
<1>5. \A u \in Tasks : u # t => job'[u] = job[u]
  BY <1>0, <1>1
<1>6. \A u, v \in Pending(tasks') : u = v
  BY <1>1 DEF OverlapInv
<1>7. op'[o].pc # "addTask"
  BY <1>4
<1>8. ASSUME sched.skip
      PROVE  /\ \A u, v \in Busy(tasks', job') : u = v
             /\ Unseen(tasks', job') # {} => Pending(tasks') = {}
             /\ Undisturbed(op'[o], Pending(tasks'), Busy(tasks', job'), Unseen(tasks', job'))
  <2>1. Pending(tasks) = {} /\ Busy(tasks, job) = {}
    BY <1>0, <1>8 DEF OverlapInv, SkipInv, Undisturbed
  <2>2. Pending(tasks') = {}
    BY <1>1, <2>1
  <2>3. Busy(tasks', job') \subseteq {t}
    BY <1>1, <1>5, <2>1 DEF Busy, Unseen
  <2>4. job'[t] = "none" => Unseen(tasks', job') = {}
    BY <2>3 DEF Busy, Unseen, RunningReply
  <2>5. Undisturbed(op'[o], Pending(tasks'), Busy(tasks', job'), Unseen(tasks', job'))
    BY <1>4, <2>2, <2>3, <2>4 DEF Undisturbed, SchedulingPcs, LaunchPcs, AnsweredPcs
  <2>6. QED
    BY <2>2, <2>3, <2>5
<1>9. QED
  BY <1>0, <1>1, <1>3, <1>6, <1>7, <1>8, WorkKeepsOverlap

\* markTaskStarted: the busy task is the handler's own, and is seen from now on.
LEMMA MarkStartedOverlap ==
  ASSUME TypeInv, LeaseInv, OverlapInv, NEW o \in Ops, MarkTaskStarted(o)
  PROVE  OverlapInv'
<1> DEFINE p == op[o]
           t == p.task
           row == [tasks[t] EXCEPT !.state = TASK_STATE_STARTED, !.jobId = TRUE]
           accepted == CASE p.status = "running"   -> AfterStart(p)
                         [] p.status = "completed" -> { [ p EXCEPT !.pc = "markCompleted" ] }
                         [] p.status = "failed"    -> { [ p EXCEPT !.pc = "markFailed" ] }
           rejected == Failed(p)
<1>0. /\ p \in Handlers /\ p.pc = "markStarted" /\ p.pc \in WorkPcs /\ t \in Tasks
      /\ p.status \in {"running", "completed", "failed"}
      /\ tasks \in [Tasks -> TaskRows]
  BY PlacedTask
     DEF TypeInv, TypeOK, PlacedHandlers, MarkTaskStarted, Placed, TaskPcs, LaunchPcs, WorkPcs,
         LeasedPcs
<1>1. /\ UpdateTask(o, t, tasks[t].state = TASK_STATE_QUEUED, row, accepted, rejected)
      /\ job' = job
  BY DEF MarkTaskStarted
<1>2. row.state = TASK_STATE_STARTED /\ rejected.pc = "needsRepair"
  BY <1>0, FailedType DEF TaskRows
<1>3. \A x \in accepted : x.pc \in ExitPcs \cup AnsweredPcs
  <2>1. [ p EXCEPT !.pc = "markCompleted" ].pc = "markCompleted"
        /\ [ p EXCEPT !.pc = "markFailed" ].pc = "markFailed"
    BY <1>0 DEF Handlers
  <2>2. \A x \in AfterStart(p) : x.pc \in ExitPcs
    BY <1>0, FollowUpDeparts DEF Departures
  <2>3. QED
    BY <1>0, <2>1, <2>2 DEF AnsweredPcs
<1> HIDE DEF row, accepted, rejected
<1>4. /\ sched' = sched
      /\ \/ tasks' = tasks /\ Becomes(o, rejected)
         \/ /\ tasks[t].state = TASK_STATE_QUEUED
            /\ tasks' = [tasks EXCEPT ![t] = row]
            /\ \E x \in accepted \cup {rejected} : Becomes(o, x)
  BY <1>1 DEF UpdateTask, Becomes
<1>5. CASE tasks' = tasks /\ Becomes(o, rejected)
  BY <1>1, <1>2, <1>4, <1>5, PlainMove DEF SchedulingPcs, LaunchPcs, AnsweredPcs
<1>6. ASSUME tasks' = [tasks EXCEPT ![t] = row], NEW x \in accepted \cup {rejected}, Becomes(o, x)
      PROVE  OverlapInv'
  <2>1. OnlyMoves(o) /\ op'[o] = x
    BY <1>6 DEF OnlyMoves, Becomes, TypeInv, TypeOK
  <2>2. x.pc \in ExitPcs \cup AnsweredPcs
    BY <1>2, <1>3 DEF ExitPcs
  <2>3. /\ tasks'[t].state = TASK_STATE_STARTED
        /\ \A u \in Tasks : u # t => tasks'[u] = tasks[u]
    BY <1>0, <1>2, <1>6
  <2>4. Pending(tasks') \subseteq Pending(tasks)
    BY <2>3, StatesDiffer DEF Pending
  <2>5. \A u, v \in Pending(tasks') : u = v
    BY <2>4 DEF OverlapInv
  <2>6. x.pc # "addTask"
    BY <2>2 DEF ExitPcs, AnsweredPcs
  <2>7. ASSUME sched.skip
        PROVE  /\ \A u, v \in Busy(tasks', job') : u = v
               /\ Unseen(tasks', job') = {}
               /\ Undisturbed(x, Pending(tasks'), Busy(tasks', job'), Unseen(tasks', job'))
    <3>1. Busy(tasks, job) \subseteq {t}
      BY <1>0, <2>7 DEF OverlapInv, SkipInv, Undisturbed
    <3>2. Busy(tasks', job') \subseteq {t}
      BY <1>1, <2>3, <3>1 DEF Busy, Unseen
    <3>3. Unseen(tasks', job') = {}
      BY <2>3, <3>2, StatesDiffer DEF Busy, Unseen
    <3>4. Undisturbed(x, Pending(tasks'), Busy(tasks', job'), Unseen(tasks', job'))
      BY <2>2, <3>3 DEF Undisturbed, ExitPcs, AnsweredPcs
    <3>5. QED
      BY <3>2, <3>3, <3>4
  <2>8. QED
    BY <1>0, <1>4, <2>1, <2>5, <2>6, <2>7, WorkKeepsOverlap
<1>7. QED
  BY <1>4, <1>5, <1>6

\* addTaskDuplicateCheck looks for a pending task.
LEMMA CheckPendingOverlap ==
  ASSUME TypeInv, LeaseInv, OverlapInv, NEW o \in Ops, CheckPending(o)
  PROVE  OverlapInv'
<1> DEFINE p == op[o]
           x == [ p EXCEPT !.pc = "addTask" ]
           y == IF TasksIn(TASK_STATE_PENDING) # {} THEN Leave(p, FALSE) ELSE x
<1>0. p \in Handlers /\ p.pc = "addCheck" /\ p.pc \in WorkPcs
  BY DEF TypeInv, TypeOK, CheckPending, WorkPcs, LeasedPcs
<1>1. ReadStore(o, {y}, Failed(p))
  BY DEF CheckPending
<1>2. x.pc = "addTask"
  BY <1>0 DEF Handlers
<1> HIDE DEF x
<1>3. y = Leave(p, FALSE) \/ (y = x /\ Pending(tasks) = {})
  BY DEF Pending, TasksIn
<1> HIDE DEF y
<1>4. /\ Becomes(o, y) \/ Becomes(o, Failed(p))
      /\ UNCHANGED << sched, tasks, job >>
  BY <1>1 DEF ReadStore, Becomes
<1>5. CASE Becomes(o, Failed(p)) \/ Becomes(o, Leave(p, FALSE))
  BY <1>0, <1>4, <1>5, PlainMove, ExitIsPlain
<1>6. CASE Becomes(o, x) /\ Pending(tasks) = {}
  <2>1. OnlyMoves(o) /\ op'[o] = x
    BY <1>6 DEF OnlyMoves, Becomes, TypeInv, TypeOK
  <2>2. sched.skip => SkipInv /\ Unseen(tasks, job) = {}
    BY <1>0 DEF OverlapInv, SkipInv, Undisturbed, SchedulingPcs, LaunchPcs
  <2>3. sched.skip => Undisturbed(x, Pending(tasks), Busy(tasks, job), Unseen(tasks, job))
    BY <1>2, <2>2 DEF Undisturbed
  <2>4. QED
    BY <1>0, <1>4, <1>6, <2>1, <2>2, <2>3, WorkKeepsOverlap DEF OverlapInv, SkipInv
<1>7. QED
  BY <1>3, <1>4, <1>5, <1>6

\* addTask: there is no other pending task.
LEMMA AddTaskOverlap ==
  ASSUME TypeInv, StartInv, LeaseInv, OverlapInv, NEW o \in Ops, AddTask(o)
  PROVE  OverlapInv'
<1> DEFINE p == op[o]
           row == [ state |-> TASK_STATE_PENDING, executeAt |-> p.now + p.delay, jobId |-> FALSE ]
           accepted == { Leave(p, FALSE) }
           rejected == Failed(p)
<1>0. /\ p \in Handlers /\ p.pc = "addTask" /\ p.pc \in WorkPcs
      /\ job \in [Tasks -> JobReplies \cup {"none"}] /\ tasks \in [Tasks -> TaskRows]
  BY DEF TypeInv, TypeOK, AddTask, WorkPcs, LeasedPcs
<1>1. PICK t \in Tasks :
        /\ IF p.task # None THEN t = p.task ELSE Unused(t)
        /\ UpdateTask(o, t, TRUE, row, accepted, rejected)
        /\ job' = [job EXCEPT ![t] = "none"]
  BY DEF AddTask
<1>2. \A x \in accepted \cup {rejected} : x.pc \in {"release", "needsRepair"}
  BY <1>0, LeaveType, FailedType
<1>3. row.state = TASK_STATE_PENDING
  OBVIOUS
<1> HIDE DEF row, accepted, rejected
<1>4. /\ tasks' = tasks \/ tasks' = [tasks EXCEPT ![t] = row]
      /\ sched' = sched
      /\ \E x \in accepted \cup {rejected} : Becomes(o, x)
  BY <1>1 DEF UpdateTask, Becomes
<1>5. PICK x : x.pc \in {"release", "needsRepair"} /\ Becomes(o, x)
  BY <1>2, <1>4
<1>6. OnlyMoves(o) /\ op'[o] = x
  BY <1>5 DEF OnlyMoves, Becomes, TypeInv, TypeOK
<1>7. tasks[t].state = TASK_ABSENT
  BY <1>0, <1>1 DEF StartInv, FirstTaskIsFresh, Unused, Creating, CreatingHandler
<1>8. /\ tasks'[t].state \in {TASK_ABSENT, TASK_STATE_PENDING}
      /\ job'[t] = "none"
      /\ \A u \in Tasks : u # t => tasks'[u] = tasks[u] /\ job'[u] = job[u]
  BY <1>0, <1>1, <1>3, <1>4, <1>7
<1>9. Pending(tasks) = {}
  BY <1>0 DEF OverlapInv, AddsOnlyOne
<1>10. Pending(tasks') \subseteq {t}
  BY <1>8, <1>9 DEF Pending
<1>11. Busy(tasks', job') \subseteq Busy(tasks, job) /\ Unseen(tasks', job') \subseteq Unseen(tasks, job)
  BY <1>8, StatesDiffer DEF Busy, Unseen
<1>12. ASSUME sched.skip
       PROVE  /\ \A u, v \in Busy(tasks', job') : u = v
              /\ Unseen(tasks', job') = {}
              /\ Undisturbed(x, Pending(tasks'), Busy(tasks', job'), Unseen(tasks', job'))
  <2>1. SkipInv /\ Unseen(tasks, job) = {}
    BY <1>0, <1>12 DEF OverlapInv, SkipInv, Undisturbed, SchedulingPcs, LaunchPcs
  <2>2. (\A u, v \in Busy(tasks', job') : u = v) /\ Unseen(tasks', job') = {}
    BY <1>11, <2>1 DEF SkipInv
  <2>3. Undisturbed(x, Pending(tasks'), Busy(tasks', job'), Unseen(tasks', job'))
    BY <1>5, <2>2 DEF Undisturbed
  <2>4. QED
    BY <2>2, <2>3
<1>13. QED
  BY <1>0, <1>4, <1>5, <1>6, <1>10, <1>12, WorkKeepsOverlap

------------------------------------------------------------------------------
(* The environment                                                         *)

LEMMA StillOverlap ==
  ASSUME TypeInv, OverlapInv, Shrinks, sched'.skip = sched.skip,
         \A q \in Ops : op'[q].pc = op[q].pc /\ op'[q].task = op[q].task
  PROVE  OverlapInv'
<1> DEFINE P1 == Pending(tasks)   P2 == Pending(tasks')
           B1 == Busy(tasks, job)   B2 == Busy(tasks', job')
           U1 == Unseen(tasks, job)   U2 == Unseen(tasks', job')
<1>1. P2 \subseteq P1 /\ B2 \subseteq B1 /\ U2 \subseteq U1
  BY DEF Shrinks
<1>2. /\ \A t, u \in P2 : t = u
      /\ \A q \in Ops : op'[q].pc = "addTask" => P2 = {}
  BY <1>1 DEF OverlapInv, AddsOnlyOne
<1>3. ASSUME sched.skip
      PROVE  /\ \A t, u \in B2 : t = u
             /\ U2 # {} => P2 = {}
             /\ \A q \in Ops : Undisturbed(op'[q], P2, B2, U2)
  <2>1. /\ \A t, u \in B1 : t = u
        /\ U1 # {} => P1 = {}
        /\ \A q \in Ops : Undisturbed(op[q], P1, B1, U1)
    BY <1>3 DEF OverlapInv, SkipInv
  <2> HIDE DEF P1, P2, B1, B2, U1, U2
  <2>2. \A q \in Ops : Undisturbed(op[q], P2, B2, U2)
    BY <1>1, <2>1, UndisturbedShrinks
  <2>3. \A q \in Ops : Undisturbed(op'[q], P2, B2, U2)
    BY <2>2 DEF Undisturbed
  <2>4. QED
    BY <1>1, <2>1, <2>3
<1>4. QED
  BY <1>2, <1>3
     DEF OverlapInv, AddsOnlyOne, SkipInv, Undisturbed, Pending, Busy, Unseen

LEMMA EnvironmentOverlap ==
  ASSUME TypeInv, OverlapInv,
         \/ Tick \/ \E o \in Ops : Crash(o)
         \/ \E t \in Tasks : JobFinishes(t) \/ DeleteFinishedTask(t)
  PROVE  OverlapInv'
<1>1. CASE Tick
  <2>1. \A t \in Tasks : tasks'[t].state = tasks[t].state
    BY <1>1 DEF Tick, TypeInv, TypeOK, TaskRows
  <2>2. \A q \in Ops : op'[q].pc = op[q].pc /\ op'[q].task = op[q].task
    BY <1>1 DEF Tick, Aged, TypeInv, TypeOK, Handlers
  <2>3. job' = job /\ sched'.skip = sched.skip
    BY <1>1 DEF Tick, TypeInv, TypeOK, Schedules
  <2>4. Shrinks
    BY <2>1, <2>3 DEF Shrinks, Pending, Busy, Unseen
  <2>5. QED
    BY <2>2, <2>3, <2>4, StillOverlap
<1>2. ASSUME NEW o \in Ops, Crash(o) PROVE OverlapInv'
  BY <1>2, PlainMove, ExitIsPlain, IdlePlaced DEF Crash, Becomes, PlacedHandlers
<1>3. ASSUME NEW t \in Tasks, JobFinishes(t) PROVE OverlapInv'
  <2>1. /\ job[t] = RunningReply
        /\ \A u \in Tasks : u # t => job'[u] = job[u]
        /\ UNCHANGED << sched, tasks, op >>
    BY <1>3 DEF JobFinishes, TypeInv, TypeOK
  <2>2. Shrinks
    BY <2>1 DEF Shrinks, Pending, Busy, Unseen
  <2>3. QED
    BY <2>1, <2>2, StillOverlap
<1>4. ASSUME NEW t \in Tasks, DeleteFinishedTask(t) PROVE OverlapInv'
  <2>1. /\ tasks'[t].state = TASK_ABSENT
        /\ \A u \in Tasks : u # t => tasks'[u] = tasks[u] /\ job'[u] = job[u]
        /\ UNCHANGED << sched, op >>
    BY <1>4 DEF DeleteFinishedTask, NoTask, TypeInv, TypeOK
  <2>2. Shrinks
    BY <2>1, StatesDiffer DEF Shrinks, Pending, Busy, Unseen
  <2>3. QED
    BY <2>1, <2>2, StillOverlap
<1>5. QED
  BY <1>1, <1>2, <1>3, <1>4

------------------------------------------------------------------------------
LEMMA OverlapInvStep ==
  TypeInv /\ StartInv /\ RecordInv /\ LeaseInv /\ OverlapInv /\ [Next]_vars => OverlapInv'
<1> SUFFICES ASSUME TypeInv, StartInv, RecordInv, LeaseInv, OverlapInv, [Next]_vars
             PROVE  OverlapInv'
  OBVIOUS
<1>1. CASE \/ Tick \/ \E o \in Ops : Crash(o)
           \/ \E t \in Tasks : JobFinishes(t) \/ DeleteFinishedTask(t)
  BY <1>1, EnvironmentOverlap
<1>2. ASSUME NEW o \in Ops,
             \/ CreateScheduledJob(o) \/ Disable(o) \/ PollExpired(o)
             \/ \E t \in Tasks : PollTask(o, t) \/ FinishNotice(o, t)
      PROVE  OverlapInv'
  BY <1>2, BeginOverlap
<1>3. ASSUME NEW o \in Ops, Step(o) PROVE OverlapInv'
  BY <1>3, OutsideReadsOverlap, LeaseStepsOverlap, AddScheduledJobOverlap, MarksOverlap,
     MarkQueuedOverlap, ShouldSkipOverlap, StartJobOverlap, MarkStartedOverlap,
     CheckPendingOverlap, AddTaskOverlap
     DEF Step, InLease, StartTask, AddFollowUp, Repair
<1>4. CASE UNCHANGED vars
  BY <1>4
     DEF vars, OverlapInv, AddsOnlyOne, SkipInv, Undisturbed, Pending, Busy, Unseen
<1>5. QED
  BY <1>1, <1>2, <1>3, <1>4 DEF Next

LEMMA OverlapInvHolds ==
  ASSUME Punctual
  PROVE  Spec => [](RecordInv /\ OverlapInv)
<1>1. Spec => [](TypeInv /\ LeaseInv)
  BY LeaseInvHolds
<1>2. QED
  BY <1>1, RecordInvHolds, OverlapInvInitially, OverlapInvStep, PTL DEF Spec

\* With an SQL store and handlers no older than the lease time, a schedule never has
\* two pending tasks: "at most one queued task per scheduled job"
\* (controller/combined.ts addTaskDuplicateCheck).
THEOREM OnePendingTask ==
  ASSUME Punctual
  PROVE  Spec => []AtMostOnePending
<1>1. OverlapInv => AtMostOnePending
  BY DEF OverlapInv, AtMostOnePending, Pending, TasksIn
<1>2. QED
  BY <1>1, OverlapInvHolds, PTL

\* Under the same assumptions the jobs of an always-skip schedule never run at once
\* (controller/combined.ts shouldSkipTask).
THEOREM JobsDoNotOverlap ==
  ASSUME Punctual
  PROVE  Spec => []NoOverlap
<1>1. RecordInv /\ OverlapInv => NoOverlap
  <2> SUFFICES ASSUME RecordInv, OverlapInv, sched.skip,
                      NEW t \in Tasks, NEW u \in Tasks,
                      job[t] = RunningReply, job[u] = RunningReply
               PROVE  t = u
    BY DEF NoOverlap
  <2>1. t \in Busy(tasks, job) /\ u \in Busy(tasks, job)
    BY DEF Busy, Unseen, RecordInv, TasksRecorded, TaskRecord
  <2>2. QED
    BY <2>1 DEF OverlapInv, SkipInv
<1>2. QED
  BY <1>1, OverlapInvHolds, PTL

==============================================================================
