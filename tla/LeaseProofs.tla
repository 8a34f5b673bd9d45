----------------------------- MODULE LeaseProofs -----------------------------
(***************************************************************************)
(* Why the lease is a lock while handlers are punctual: when no handler     *)
(* lives longer than the lease time, and dates are compared as SQL does.    *)
(*                                                                         *)
(* A lease expires at the time its handler began plus the lease time        *)
(* (LeaseHeld), so that it is not expired while that handler lives, and a   *)
(* repair finds only leases whose handler is gone.                         *)
(***************************************************************************)
EXTENDS SchedulerProofs

Punctual == StoreKind = "sql" /\ MaxAge <= LeaseTime

CreatorPcs == { "addSchedule", "needsRepair" }
\* Where a handler has not asked for the lease yet.
OutsidePcs == { "lookup", "repairRead", "steal", "addSchedule" }

\* The fields of the lease are set and cleared together.
LeaseFields == sched.updateState = None <=> sched.leaseOwner = None

\* Before the row exists there is only its creator, and nothing else to act upon.
Unborn ==
  sched.creation = None =>
    /\ sched.updateState = None /\ sched.leaseExpires = None
    /\ \A o \in Ops :
         op[o].pc = "idle" \/ (op[o].pc \in CreatorPcs /\ op[o].kind = SCHEDULE_STATE_ADD_TASK)
    /\ \A t \in Tasks :
         tasks[t].state = TASK_ABSENT /\ notices[t] = 0 /\ job[t] # RunningReply

Creator(o) == op[o].pc # "idle" /\ op[o].kind = SCHEDULE_STATE_ADD_TASK

OneCreator == \A o, q \in Ops : Creator(o) /\ Creator(q) => o = q

CreatorFirst == \A o \in Ops : op[o].pc = "addSchedule" => sched.creation = None

Ages == \A o \in Ops : op[o].now <= 0 /\ -op[o].now <= MaxAge

\* The row names the handler that works inside the lease, and the lease expires
\* when a handler as old as the lease time would be done.
LeaseHeld ==
  \A o \in Ops : Holds(o) =>
    /\ op[o].pc = "abort" \/ OwnsLease(sched, o)
    /\ OwnsLease(sched, o) => sched.leaseExpires = op[o].now + LeaseTime

OutsiderOwnsNothing == \A o \in Ops : op[o].pc \in OutsidePcs => sched.leaseOwner # o

LeaseInv ==
  /\ LeaseFields
  /\ Unborn
  /\ OneCreator
  /\ CreatorFirst
  /\ Ages
  /\ LeaseHeld
  /\ OutsiderOwnsNothing

LEMMA LeaseInvInitially == Init => LeaseInv
<1> SUFFICES ASSUME Init PROVE LeaseInv
  OBVIOUS
<1>1. sched.creation = None /\ sched.updateState = None /\ sched.leaseOwner = None
      /\ sched.leaseExpires = None
  BY DEF Init, NoSchedule
<1>2. \A o \in Ops : op[o].pc = "idle" /\ op[o].kind = None /\ op[o].now = 0
  BY DEF Init, Idle
<1>3. \A t \in Tasks : tasks[t].state = TASK_ABSENT /\ notices[t] = 0 /\ job[t] # RunningReply
  BY DEF Init, NoTask, RunningReply
<1>4. LeaseFields /\ Unborn /\ LeaseHeld /\ CreatorFirst /\ OutsiderOwnsNothing
  BY <1>1, <1>2, <1>3
     DEF LeaseFields, Unborn, LeaseHeld, Holds, CreatorFirst, OutsiderOwnsNothing, OutsidePcs
<1>5. OneCreator
  BY <1>2 DEF OneCreator, Creator
<1>6. Ages
  BY <1>2, ConstantTypes DEF Ages
<1>7. QED
  BY <1>4, <1>5, <1>6 DEF LeaseInv

\* One step of the abstract lock, or none.
LockStep == [Lock!LockNext]_(Lock!lock)

------------------------------------------------------------------------------
(* How a handler goes on                                                   *)

\* p goes on as x without a change of the schedule's row: it keeps its time and its
\* kind, and neither enters nor leaves the lease.
Moves(p, x) ==
  /\ p.pc \notin {"idle", "abort"} \cup CreatorPcs
  /\ x.now = p.now
  /\ x.kind = p.kind
  /\ x.pc # "addSchedule"
  /\ x.pc \in LeasedPcs <=> p.pc \in LeasedPcs
  /\ x.pc \in OutsidePcs => p.pc \in OutsidePcs

Onward(p) == { x \in Handlers : Moves(p, x) } \cup { Idle }

\* Where a handler works inside its lease.
WorkPcs == LeasedPcs \ { "abort", "needsRepair" }

LEMMA ExitFields ==
  ASSUME NEW p \in Handlers, NEW pc \in ExitPcs
  PROVE  /\ Exit(p, pc) \in Handlers
         /\ Exit(p, pc).pc = pc
         /\ Exit(p, pc).kind = p.kind
         /\ Exit(p, pc).now = p.now
         /\ Exit(p, pc).pasture = FALSE
<1>1. Idle \in Handlers /\ Idle.pasture = FALSE
  BY IdlePlaced DEF PlacedHandlers, Idle
<1>2. Exit(p, pc) \in Handlers /\ Exit(p, pc).pc = pc /\ Exit(p, pc).kind = p.kind
  BY ExitType DEF PlacedHandlers
<1>3. Exit(p, pc).now = p.now /\ Exit(p, pc).pasture = FALSE
  BY <1>1 DEF Exit, Handlers
<1>4. QED
  BY <1>2, <1>3

LEMMA WorkMoves ==
  ASSUME NEW p \in Handlers, p.pc \in WorkPcs,
         NEW x \in Handlers, x.now = p.now, x.kind = p.kind, x.pc \in LeasedPcs
  PROVE  x \in Onward(p)
BY DEF Onward, Moves, WorkPcs, LeasedPcs, CreatorPcs, OutsidePcs

LEMMA MovedOnward ==
  ASSUME NEW p \in Handlers, p.pc \in WorkPcs, NEW pc \in LeasedPcs
  PROVE  [ p EXCEPT !.pc = pc ] \in Onward(p)
<1> DEFINE x == [ p EXCEPT !.pc = pc ]
<1>1. pc \in Pcs
  BY DEF Pcs
<1>2. x \in Handlers /\ x.pc = pc /\ x.kind = p.kind
  BY <1>1, MovedHandler
<1>3. x.now = p.now
  BY DEF Handlers
<1> HIDE DEF x
<1>4. QED
  BY <1>2, <1>3, WorkMoves DEF x

LEMMA LeaveFields ==
  ASSUME NEW p \in Handlers, NEW pastured \in BOOLEAN
  PROVE  /\ Leave(p, pastured) \in Handlers
         /\ Leave(p, pastured).pc = "release"
         /\ Leave(p, pastured).kind = p.kind
         /\ Leave(p, pastured).now = p.now
<1> DEFINE e == Exit(p, "release")
<1>1. e \in Handlers /\ e.pc = "release" /\ e.kind = p.kind /\ e.now = p.now
  BY ExitFields DEF ExitPcs
<1>2. Leave(p, pastured) = [ e EXCEPT !.pasture = pastured ]
  BY DEF Leave
<1> HIDE DEF e
<1>3. QED
  BY <1>1, <1>2 DEF Handlers

LEMMA ExitOnward ==
  ASSUME NEW p \in Handlers, p.pc \in WorkPcs
  PROVE  /\ \A pc \in ExitPcs : Exit(p, pc) \in Onward(p)
         /\ Failed(p) \in Onward(p)
         /\ \A pastured \in BOOLEAN : Leave(p, pastured) \in Onward(p)
         /\ \A seconds \in Nat : Queue(p, seconds) \in Onward(p)
<1>1. \A pc \in ExitPcs : Exit(p, pc) \in Onward(p)
  BY ExitFields, WorkMoves DEF ExitPcs, LeasedPcs
<1>2. Failed(p) \in Onward(p)
  BY <1>1 DEF Failed, ExitPcs
<1>3. \A pastured \in BOOLEAN : Leave(p, pastured) \in Onward(p)
  BY LeaveFields, WorkMoves DEF LeasedPcs
<1>4. ASSUME NEW seconds \in Nat PROVE Queue(p, seconds) \in Onward(p)
  <2> DEFINE e == Exit(p, "addCheck")
             x == [ e EXCEPT !.delay = seconds ]
  <2>1. e \in Handlers /\ e.pc = "addCheck" /\ e.kind = p.kind /\ e.now = p.now
    BY ExitFields DEF ExitPcs
  <2> HIDE DEF e
  <2>2. x \in Handlers /\ x.pc = "addCheck" /\ x.kind = p.kind /\ x.now = p.now
    BY <2>1 DEF Handlers
  <2>3. QED
    BY <2>2, WorkMoves DEF Queue, e, LeasedPcs
<1>5. QED
  BY <1>1, <1>2, <1>3, <1>4

LEMMA FollowOnward ==
  ASSUME NEW p \in Handlers, p.pc \in WorkPcs, NEW answer \in Answers, NEW pastured \in BOOLEAN
  PROVE  Follow(p, answer, pastured) \in Onward(p)
<1>1. answer \in {"queue", "disable", "invalid"}
  BY ConstantTypes DEF Answers
<1>2. CASE answer = "queue"
  BY <1>2, ExitOnward, ConstantTypes DEF Follow
<1>3. CASE answer = "disable"
  BY <1>3, ExitOnward DEF Follow
<1>4. CASE answer = "invalid"
  BY <1>4, ExitOnward DEF Follow
<1>5. QED
  BY <1>1, <1>2, <1>3, <1>4

LEMMA FollowUpOnward ==
  ASSUME NEW p \in Handlers, p.pc \in WorkPcs
  PROVE  /\ AfterStart(p) \subseteq Onward(p)
         /\ AfterFinish(p) \subseteq Onward(p)
         /\ AfterFailure(p) \subseteq Onward(p)
         /\ AfterFailedStart(p) \subseteq Onward(p)
<1>1. AfterStart(p) \subseteq Onward(p)
  BY FollowOnward, ExitOnward DEF AfterStart
<1>2. AfterFinish(p) \subseteq Onward(p)
  BY FollowOnward, ExitOnward DEF AfterFinish
<1>3. AfterFailure(p) \subseteq Onward(p)
  <2>1. \A r \in Retries \cup {None} :
          (IF r = None THEN AfterFinish(p) ELSE { Queue(p, r) }) \subseteq Onward(p)
    BY <1>2, ExitOnward, ConstantTypes
  <2>2. QED
    BY <2>1 DEF AfterFailure, RetryAnswers
<1>4. AfterFailedStart(p) \subseteq Onward(p)
  <2>1. { Follow(p, a, FALSE) : a \in Answers } \subseteq Onward(p)
    BY FollowOnward
  <2>2. \A r \in Retries \cup {None} :
          (IF r # None THEN { Queue(p, r) }
           ELSE IF sched.creation = "finish" THEN { Follow(p, a, FALSE) : a \in Answers }
           ELSE AfterStart(p)) \subseteq Onward(p)
    BY <1>1, <2>1, ExitOnward, ConstantTypes
  <2>3. RetryAnswers \subseteq Retries \cup {None}
    BY DEF RetryAnswers
  <2> QED
    BY <2>2, <2>3 DEF AfterFailedStart
<1>5. QED
  BY <1>1, <1>2, <1>3, <1>4

------------------------------------------------------------------------------
(* Steps that leave the schedule's row alone                               *)

\* The abstract lock in terms of the row and the handlers, for one step.
LEMMA LockSame ==
  ASSUME sched'.leaseOwner = sched.leaseOwner, Attended' => Attended
  PROVE  LockStep
<1>1. Attended \in BOOLEAN /\ Attended' \in BOOLEAN
  BY DEF Attended
<1>2. CASE Attended' = Attended
  BY <1>2 DEF LockStep, Lock!lock
<1>3. CASE Attended /\ ~Attended'
  <2>1. Attended' = FALSE
    BY <1>1, <1>3
  <2>2. Lock!Abandon
    BY <1>3, <2>1 DEF Lock!Abandon
  <2>3. QED
    BY <2>2 DEF LockStep, Lock!LockNext
<1>4. QED
  BY <1>1, <1>2, <1>3

LEMMA MoveKeeps ==
  ASSUME TypeInv, LeaseInv, NEW o \in Ops, NEW x \in Onward(op[o]), Becomes(o, x),
         sched' = sched,
         sched.creation # None \/ UNCHANGED << tasks, notices, job >>
  PROVE  LeaseInv' /\ LockStep
<1>1. op'[o] = x /\ \A q \in Ops : q # o => op'[q] = op[q]
  BY DEF Becomes, TypeInv, TypeOK
<1>2. x = Idle \/ Moves(op[o], x)
  BY DEF Onward
<1>3. x = Idle => x.pc = "idle" /\ x.now = 0
  BY DEF Idle
<1>4. Moves(op[o], x) => sched.creation # None
  BY DEF Moves, LeaseInv, Unborn
<1>5. LeaseFields'
  BY DEF LeaseInv, LeaseFields
<1>6. Unborn'
  <2>1. CASE sched.creation # None
    BY <2>1 DEF Unborn
  <2>2. CASE sched.creation = None
    BY <1>1, <1>2, <1>3, <1>4, <2>2 DEF LeaseInv, Unborn
  <2>3. QED
    BY <2>1, <2>2
<1>7. OneCreator'
  BY <1>1, <1>2, <1>3 DEF LeaseInv, OneCreator, Creator, Moves
<1>8. CreatorFirst'
  BY <1>1, <1>2, <1>3 DEF LeaseInv, CreatorFirst, Moves
<1>9. Ages'
  BY <1>1, <1>2, <1>3, ConstantTypes DEF LeaseInv, Ages, Moves
<1>10. \A q \in Ops : Holds(q)' => Holds(q) /\ op'[q].now = op[q].now /\ (op[q].pc = "abort" => op'[q].pc = "abort")
  BY <1>1, <1>2, <1>3 DEF Holds, Moves, LeasedPcs
<1>11. LeaseHeld'
  BY <1>10 DEF LeaseInv, LeaseHeld, OwnsLease
<1>12. OutsiderOwnsNothing'
  BY <1>1, <1>2, <1>3 DEF LeaseInv, OutsiderOwnsNothing, Moves, OutsidePcs
<1>13. Attended' => Attended
  BY <1>10 DEF Attended, OwnsLease
<1>14. QED
  BY <1>5, <1>6, <1>7, <1>8, <1>9, <1>11, <1>12, <1>13, LockSame DEF LeaseInv

\* A handler begins in a free slot.
LEMMA BeginKeepsLease ==
  ASSUME TypeInv, LeaseInv, NEW o \in Ops, Free(o), NEW x, Becomes(o, x),
         x.now = 0, x.pc \notin LeasedPcs,
         IF x.pc = "addSchedule"
         THEN /\ sched.creation = None
              /\ x.kind = SCHEDULE_STATE_ADD_TASK
              /\ \A q \in Ops : op[q].kind # SCHEDULE_STATE_ADD_TASK
         ELSE sched.creation # None /\ x.kind # SCHEDULE_STATE_ADD_TASK,
         sched' = sched, UNCHANGED << tasks, job >>,
         sched.creation = None => UNCHANGED notices
  PROVE  LeaseInv' /\ LockStep
<1>1. op'[o] = x /\ \A q \in Ops : q # o => op'[q] = op[q]
  BY DEF Becomes, TypeInv, TypeOK
<1>2. op[o].pc = "idle" /\ sched.leaseOwner # o
  BY DEF Free
<1>3. LeaseFields'
  BY DEF LeaseInv, LeaseFields
<1>4. Unborn'
  BY <1>1 DEF LeaseInv, Unborn, CreatorPcs
<1>5. OneCreator'
  BY <1>1 DEF LeaseInv, OneCreator, Creator
<1>6. CreatorFirst'
  BY <1>1 DEF LeaseInv, CreatorFirst
<1>7. Ages'
  BY <1>1, ConstantTypes DEF LeaseInv, Ages
<1>8. \A q \in Ops : Holds(q)' <=> Holds(q) /\ q # o
  BY <1>1, <1>2 DEF Holds, LeasedPcs
<1>9. LeaseHeld'
  BY <1>1, <1>8 DEF LeaseInv, LeaseHeld, OwnsLease
<1>10. OutsiderOwnsNothing'
  BY <1>1, <1>2 DEF LeaseInv, OutsiderOwnsNothing
<1>11. Attended' => Attended
  BY <1>8 DEF Attended, OwnsLease
<1>12. QED
  BY <1>3, <1>4, <1>5, <1>6, <1>7, <1>9, <1>10, <1>11, LockSame DEF LeaseInv

------------------------------------------------------------------------------
(* Steps that write the lease                                              *)

LEMMA LockGranted ==
  ASSUME NEW o \in Ops, sched.leaseOwner = None, sched'.leaseOwner = o
  PROVE  LockStep
<1>1. Attended' \in BOOLEAN
  BY DEF Attended
<1>2. QED
  BY <1>1 DEF LockStep, Lock!LockNext, Lock!Grant

LEMMA LockTakenOver ==
  ASSUME NEW o \in Ops, sched.leaseOwner \notin {None, o}, ~Attended, sched'.leaseOwner = o
  PROVE  LockStep
<1>1. Attended' \in BOOLEAN
  BY DEF Attended
<1>2. QED
  BY <1>1 DEF LockStep, Lock!LockNext, Lock!TakeOver

\* The handler in slot o comes by the lease while nobody else believes to hold it.
LEMMA GrantKeeps ==
  ASSUME TypeInv, LeaseInv, NEW o \in Ops, op[o].pc # "idle",
         sched'.creation # None, sched'.updateState # None, sched'.leaseOwner = o,
         sched'.leaseExpires = op[o].now + LeaseTime,
         NEW x, Becomes(o, x), x.pc \notin OutsidePcs,
         x = Idle \/ (x.now = op[o].now /\ x.kind = op[o].kind),
         \A q \in Ops \ {o} : op[q].pc # "addSchedule" /\ (Holds(q)' => op[q].pc = "abort")
  PROVE  LeaseInv'
<1>1. op'[o] = x /\ \A q \in Ops : q # o => op'[q] = op[q]
  BY DEF Becomes, TypeInv, TypeOK
<1>2. x = Idle => x.pc = "idle" /\ x.now = 0
  BY DEF Idle
<1>3. LeaseFields' /\ Unborn'
  BY NoneIsNone DEF LeaseFields, Unborn
<1>4. OneCreator'
  BY <1>1, <1>2 DEF LeaseInv, OneCreator, Creator
<1>5. CreatorFirst'
  BY <1>1 DEF CreatorFirst, OutsidePcs
<1>6. Ages'
  BY <1>1, <1>2, ConstantTypes DEF LeaseInv, Ages
<1>7. LeaseHeld'
  BY <1>1, <1>2 DEF LeaseHeld, OwnsLease, Holds, LeasedPcs
<1>8. OutsiderOwnsNothing'
  BY <1>1 DEF OutsiderOwnsNothing
<1>9. QED
  BY <1>3, <1>4, <1>5, <1>6, <1>7, <1>8 DEF LeaseInv

\* A conditional update: refused, or applied with or without its answer.
LEMMA UpdateOutcomes ==
  ASSUME NEW o, NEW condition, NEW row, NEW accepted, NEW rejected,
         UpdateSchedule(o, condition, row, accepted, rejected)
  PROVE  /\ UNCHANGED << tasks, job, notices >>
         /\ \/ sched' = sched /\ Becomes(o, rejected)
            \/ /\ condition /\ sched' = row
               /\ \E x \in accepted \cup {rejected} : Becomes(o, x)
BY DEF UpdateSchedule, Becomes

LEMMA TakeLeaseKeeps ==
  ASSUME TypeInv, LeaseInv, NEW o \in Ops, TakeLease(o)
  PROVE  LeaseInv' /\ LockStep
<1> DEFINE p == op[o]
           y == [ p EXCEPT !.pc = "read", !.attempt = 0, !.owed = 0 ]
<1>1. p \in Handlers /\ p.pc = "lease" /\ p.kind \in UpdateKinds /\ p.now \in Int
  BY DEF TypeInv, TypeOK, PlacedHandlers, Placed, TakeLease, Handlers
<1>2. sched \in Schedules /\ sched.creation # None
  BY <1>1 DEF TypeInv, TypeOK, LeaseInv, Unborn, CreatorPcs
<1>3. y.now = p.now /\ y.kind = p.kind /\ y.pc = "read"
  BY <1>1 DEF Handlers
<1>4. RetryLease(p) = Idle \/
        (RetryLease(p) \in Handlers /\ RetryLease(p).now = p.now /\ RetryLease(p).kind = p.kind
           /\ RetryLease(p).pc = "lease")
  <2>1. CASE p.attempt < Len(RetryDelays)
    <3> DEFINE w == [ p EXCEPT !.attempt = @ + 1, !.wait = RetryDelays[p.attempt + 1] ]
    <3>1. p.attempt + 1 \in 0..Len(RetryDelays) /\ RetryDelays[p.attempt + 1] \in Int
      BY <1>1, <2>1, ConstantTypes DEF Handlers
    <3>2. w \in Handlers /\ w.now = p.now /\ w.kind = p.kind /\ w.pc = "lease"
      BY <1>1, <3>1 DEF Handlers
    <3>3. QED
      BY <2>1, <3>2 DEF RetryLease
  <2>2. CASE ~(p.attempt < Len(RetryDelays))
    BY <2>2 DEF RetryLease
  <2>3. QED
    BY <2>1, <2>2
<1>5. RetryLease(p) \in Onward(p)
  BY <1>1, <1>4 DEF Onward, Moves, CreatorPcs, OutsidePcs, LeasedPcs
<1>6. UpdateSchedule(o, CanLease(sched), Lease(sched, p.kind, p.task, o, p.now), {y}, RetryLease(p))
  BY DEF TakeLease
<1> HIDE DEF y
<1>7. CASE sched' = sched /\ Becomes(o, RetryLease(p))
  BY <1>2, <1>5, <1>7, MoveKeeps
<1>8. ASSUME CanLease(sched), sched' = Lease(sched, p.kind, p.task, o, p.now),
             NEW x \in {y, RetryLease(p)}, Becomes(o, x)
      PROVE  LeaseInv' /\ LockStep
  <2>1. /\ sched'.creation = sched.creation /\ sched'.updateState = p.kind
        /\ sched'.leaseOwner = o /\ sched'.leaseExpires = p.now + LeaseTime
    BY <1>2, <1>8 DEF Lease, LeaseExpiry, Schedules
  <2>2. sched.updateState = None /\ sched.leaseOwner = None
    BY <1>8 DEF CanLease, LeaseInv, LeaseFields
  <2>3. sched'.updateState # None
    BY <1>1, <2>1, NoneIsNone DEF UpdateKinds, ScheduleUpdateStateType
  <2>4. \A q \in Ops \ {o} : op[q].pc # "addSchedule" /\ (Holds(q)' => op[q].pc = "abort")
    <3> SUFFICES ASSUME NEW q \in Ops \ {o}
                 PROVE  op[q].pc # "addSchedule" /\ (Holds(q)' => op[q].pc = "abort")
      OBVIOUS
    <3>1. op'[q] = op[q]
      BY <1>8 DEF Becomes, TypeInv, TypeOK
    <3>2. QED
      BY <1>2, <2>2, <3>1 DEF LeaseInv, CreatorFirst, LeaseHeld, Holds, OwnsLease
  <2>5. x.pc \notin OutsidePcs /\ (x = Idle \/ (x.now = p.now /\ x.kind = p.kind))
    BY <1>3, <1>4, <1>8 DEF OutsidePcs, Idle
  <2>6. LeaseInv'
    BY <1>1, <1>2, <1>8, <2>1, <2>3, <2>4, <2>5, GrantKeeps
  <2>7. QED
    BY <2>1, <2>2, <2>6, LockGranted
<1>9. QED
  BY <1>6, <1>7, <1>8, UpdateOutcomes

\* The creation of the row was rejected: its creator goes on without a lease.
LEMMA CreationRefused ==
  ASSUME TypeInv, LeaseInv, NEW o \in Ops, op[o].pc = "addSchedule",
         sched' = sched, UNCHANGED << tasks, job, notices >>, Becomes(o, Failed(op[o]))
  PROVE  LeaseInv' /\ LockStep
<1> DEFINE x == Failed(op[o])
<1>1. op[o] \in Handlers /\ op[o].kind = SCHEDULE_STATE_ADD_TASK
  BY DEF TypeInv, TypeOK, PlacedHandlers, Placed
<1>2. x.pc = "needsRepair" /\ x.kind = SCHEDULE_STATE_ADD_TASK /\ x.now = op[o].now
  BY <1>1, ExitFields DEF Failed, ExitPcs
<1>3. op'[o] = x /\ \A q \in Ops : q # o => op'[q] = op[q]
  BY DEF Becomes, TypeInv, TypeOK
<1> HIDE DEF x
<1>4. sched.creation = None /\ sched'.creation = None
  BY DEF LeaseInv, CreatorFirst
<1>5. LeaseFields'
  BY DEF LeaseInv, LeaseFields
<1>6. Unborn'
  BY <1>2, <1>3, <1>4 DEF LeaseInv, Unborn, CreatorPcs
<1>7. OneCreator'
  BY <1>1, <1>2, <1>3 DEF LeaseInv, OneCreator, Creator
<1>8. CreatorFirst' /\ LeaseHeld'
  BY <1>4 DEF CreatorFirst, LeaseHeld, Holds
<1>9. Ages'
  BY <1>2, <1>3 DEF LeaseInv, Ages
<1>10. OutsiderOwnsNothing'
  BY <1>2, <1>3 DEF LeaseInv, OutsiderOwnsNothing, OutsidePcs
<1>11. Attended' => Attended
  BY <1>4 DEF Attended, Holds
<1>12. QED
  BY <1>5, <1>6, <1>7, <1>8, <1>9, <1>10, <1>11, LockSame DEF LeaseInv

LEMMA AddScheduledJobKeeps ==
  ASSUME TypeInv, LeaseInv, NEW o \in Ops, AddScheduledJob(o)
  PROVE  LeaseInv' /\ LockStep
<1> DEFINE p == op[o]
<1>1. p \in Handlers /\ p.pc = "addSchedule" /\ p.kind = SCHEDULE_STATE_ADD_TASK /\ p.now \in Int
  BY DEF TypeInv, TypeOK, PlacedHandlers, Placed, AddScheduledJob, Handlers
<1>2. sched.creation = None /\ sched.leaseOwner = None
  BY <1>1 DEF LeaseInv, CreatorFirst, Unborn, LeaseFields
<1>3. \A q \in Ops \ {o} : op[q].pc = "idle"
  BY <1>1, <1>2 DEF LeaseInv, Unborn, OneCreator, Creator
<1> DEFINE accepted == { [ p EXCEPT !.pc = "addTask" ] } \cup
                         (IF "invalid" \in NextActions THEN { Leave(p, TRUE) } ELSE {})
<1>4. PICK creation \in Creations, skip \in Skips :
        UpdateSchedule(o, TRUE, NewSchedule(creation, skip, p.task, o, p.now), accepted, Failed(p))
  BY DEF AddScheduledJob
<1>5. \A x \in accepted \cup {Failed(p)} :
        x.now = p.now /\ x.kind = p.kind /\ x.pc \in {"addTask", "release", "needsRepair"}
  <2>1. [ p EXCEPT !.pc = "addTask" ].now = p.now /\ [ p EXCEPT !.pc = "addTask" ].kind = p.kind
        /\ [ p EXCEPT !.pc = "addTask" ].pc = "addTask"
    BY <1>1 DEF Handlers
  <2>2. Failed(p).now = p.now /\ Failed(p).kind = p.kind /\ Failed(p).pc = "needsRepair"
    BY <1>1, ExitFields DEF Failed, ExitPcs
  <2>3. Leave(p, TRUE).now = p.now /\ Leave(p, TRUE).kind = p.kind /\ Leave(p, TRUE).pc = "release"
    BY <1>1, LeaveFields
  <2>4. QED
    BY <2>1, <2>2, <2>3
<1> HIDE DEF accepted
<1>6. CASE sched' = sched /\ Becomes(o, Failed(p))
  BY <1>1, <1>4, <1>6, UpdateOutcomes, CreationRefused
<1>7. ASSUME sched' = NewSchedule(creation, skip, p.task, o, p.now),
             NEW x \in accepted \cup {Failed(p)}, Becomes(o, x)
      PROVE  LeaseInv' /\ LockStep
  <2>1. /\ sched'.creation # None /\ sched'.updateState # None
        /\ sched'.leaseOwner = o /\ sched'.leaseExpires = p.now + LeaseTime
    BY <1>7, NoneIsNone DEF NewSchedule, LeaseExpiry, ScheduleUpdateStateType
  <2>2. \A q \in Ops \ {o} : op[q].pc # "addSchedule" /\ ~Holds(q)'
    BY <1>3, <1>7 DEF Becomes, TypeInv, TypeOK, Holds, LeasedPcs
  <2>3. x.pc \notin OutsidePcs /\ x.now = p.now /\ x.kind = p.kind
    BY <1>5, <1>7 DEF OutsidePcs
  <2>4. LeaseInv'
    BY <1>1, <1>7, <2>1, <2>2, <2>3, GrantKeeps
  <2>5. QED
    BY <1>2, <2>1, <2>4, LockGranted
<1>8. QED
  BY <1>4, <1>6, <1>7, UpdateOutcomes

\* While handlers are punctual, nobody works inside a lease that a repair may take.
LEMMA ExpiredIsUnattended ==
  ASSUME Punctual, TypeInv, LeaseInv, NEW o \in Ops, CanSteal(sched, op[o].now)
  PROVE  \A q \in Ops : ~(Holds(q) /\ OwnsLease(sched, q))
<1> SUFFICES ASSUME NEW q \in Ops, Holds(q), OwnsLease(sched, q) PROVE FALSE
  OBVIOUS
<1>1. op[o].now \in Int /\ op[q].now \in Int
  BY DEF TypeInv, TypeOK, Handlers
<1>2. sched.leaseExpires = op[q].now + LeaseTime
  BY DEF LeaseInv, LeaseHeld
<1>3. sched.leaseExpires < op[o].now
  BY DEF CanSteal, Before, Punctual
<1>4. op[o].now <= 0 /\ -op[q].now <= MaxAge
  BY DEF LeaseInv, Ages
<1>5. QED
  BY <1>1, <1>2, <1>3, <1>4, ConstantTypes DEF Punctual

LEMMA StealLeaseKeeps ==
  ASSUME Punctual, TypeInv, LeaseInv, NEW o \in Ops, StealLease(o)
  PROVE  LeaseInv' /\ LockStep
<1> DEFINE p == op[o]
           y == [ p EXCEPT !.pc = "repairFind", !.status = None ]
<1>1. p \in Handlers /\ p.pc = "steal" /\ p.now \in Int
  BY DEF TypeInv, TypeOK, StealLease, Handlers
<1>2. sched \in Schedules /\ sched.creation # None
  BY <1>1 DEF TypeInv, TypeOK, LeaseInv, Unborn, CreatorPcs
<1>3. y.now = p.now /\ y.kind = p.kind /\ y.pc = "repairFind"
  BY <1>1 DEF Handlers
<1>4. UpdateSchedule(o, CanSteal(sched, p.now), Steal(sched, p.status, o, p.now), {y}, Idle)
  BY DEF StealLease
<1> HIDE DEF y
<1>5. CASE sched' = sched /\ Becomes(o, Idle)
  BY <1>2, <1>5, MoveKeeps DEF Onward
<1>6. ASSUME CanSteal(sched, p.now), sched' = Steal(sched, p.status, o, p.now),
             NEW x \in {y, Idle}, Becomes(o, x)
      PROVE  LeaseInv' /\ LockStep
  <2>1. /\ sched'.creation = sched.creation /\ sched'.updateState = SCHEDULE_STATE_REPAIR
        /\ sched'.leaseOwner = o /\ sched'.leaseExpires = p.now + LeaseTime
    BY <1>2, <1>6 DEF Steal, LeaseExpiry, Schedules
  <2>2. sched.leaseOwner \notin {None, o}
    BY <1>1, <1>6 DEF CanSteal, LeaseInv, LeaseFields, OutsiderOwnsNothing, OutsidePcs
  <2>3. sched'.updateState # None
    BY <2>1, NoneIsNone DEF ScheduleUpdateStateType
  <2>4. \A q \in Ops : ~(Holds(q) /\ OwnsLease(sched, q))
    BY <1>6, ExpiredIsUnattended
  <2>5. \A q \in Ops \ {o} : op[q].pc # "addSchedule" /\ (Holds(q)' => op[q].pc = "abort")
    <3> SUFFICES ASSUME NEW q \in Ops \ {o}
                 PROVE  op[q].pc # "addSchedule" /\ (Holds(q)' => op[q].pc = "abort")
      OBVIOUS
    <3>1. op'[q] = op[q]
      BY <1>6 DEF Becomes, TypeInv, TypeOK
    <3>2. QED
      BY <1>2, <2>4, <3>1 DEF LeaseInv, CreatorFirst, LeaseHeld, Holds
  <2>6. x.pc \notin OutsidePcs /\ (x = Idle \/ (x.now = p.now /\ x.kind = p.kind))
    BY <1>3, <1>6 DEF OutsidePcs, Idle
  <2>7. LeaseInv'
    BY <1>1, <1>2, <1>6, <2>1, <2>3, <2>5, <2>6, GrantKeeps
  <2>8. ~Attended
    BY <2>4 DEF Attended
  <2>9. QED
    BY <2>1, <2>2, <2>7, <2>8, LockTakenOver
<1>7. QED
  BY <1>4, <1>5, <1>6, UpdateOutcomes

\* The holder clears the lease.
LEMMA ReleaseKeeps ==
  ASSUME TypeInv, LeaseInv, NEW o \in Ops, op[o].pc \in {"release", "abort"}, OwnsLease(sched, o),
         NEW pastured, sched' = Release(sched, pastured),
         NEW x, Becomes(o, x),
         x = Idle \/ (x.now = op[o].now /\ x.kind = op[o].kind /\ x.pc = "abort")
  PROVE  LeaseInv' /\ LockStep
<1>1. op'[o] = x /\ \A q \in Ops : q # o => op'[q] = op[q]
  BY DEF Becomes, TypeInv, TypeOK
<1>2. x = Idle => x.pc = "idle" /\ x.now = 0
  BY DEF Idle
<1>3. sched \in Schedules /\ sched.creation # None /\ sched.leaseOwner = o
  BY DEF TypeInv, TypeOK, LeaseInv, Unborn, OwnsLease
<1>4. sched'.creation = sched.creation /\ sched'.updateState = None /\ sched'.leaseOwner = None
  BY <1>3 DEF Release, Schedules
<1>5. LeaseFields' /\ Unborn'
  BY <1>3, <1>4 DEF LeaseFields, Unborn
<1>6. OneCreator'
  BY <1>1, <1>2 DEF LeaseInv, OneCreator, Creator
<1>7. CreatorFirst'
  BY <1>1, <1>2, <1>4 DEF LeaseInv, CreatorFirst
<1>8. Ages'
  BY <1>1, <1>2, ConstantTypes DEF LeaseInv, Ages
<1>9. LeaseHeld'
  BY <1>1, <1>2, <1>3, <1>4 DEF LeaseInv, LeaseHeld, OwnsLease, Holds, LeasedPcs
<1>10. OutsiderOwnsNothing'
  BY <1>4, NoneIsNone DEF OutsiderOwnsNothing
<1>11. Attended /\ Attended' = FALSE
  BY <1>3, <1>4 DEF Attended, OwnsLease, Holds, LeasedPcs
<1>12. LockStep
  BY <1>4, <1>11 DEF LockStep, Lock!LockNext, Lock!GiveUp
<1>13. QED
  BY <1>5, <1>6, <1>7, <1>8, <1>9, <1>10, <1>12 DEF LeaseInv

LEMMA ReleaseLeaseKeeps ==
  ASSUME TypeInv, LeaseInv, NEW o \in Ops, ReleaseLease(o) \/ RepairAbort(o)
  PROVE  LeaseInv' /\ LockStep
<1> DEFINE p == op[o]
<1>1. p \in Handlers
  BY DEF TypeInv, TypeOK
<1>2. CASE ReleaseLease(o)
  <2> DEFINE y == IF p.kind = SCHEDULE_STATE_REPAIR THEN Exit(p, "abort") ELSE Idle
  <2>1. p.pc = "release" /\ sched.creation # None
    BY <1>2 DEF ReleaseLease, LeaseInv, Unborn, CreatorPcs
  <2>2. UpdateSchedule(o, OwnsLease(sched, o), Release(sched, p.pasture), {Idle}, y)
    BY <1>2 DEF ReleaseLease
  <2>3. y = Idle \/ (y.now = p.now /\ y.kind = p.kind /\ y.pc = "abort")
    BY <1>1, ExitFields DEF ExitPcs
  <2>4. y \in Onward(p)
    BY <1>1, <2>1, ExitOnward DEF Onward, WorkPcs, LeasedPcs, ExitPcs
  <2> HIDE DEF y
  <2>5. CASE sched' = sched /\ Becomes(o, y)
    BY <2>1, <2>4, <2>5, MoveKeeps
  <2>6. ASSUME OwnsLease(sched, o), sched' = Release(sched, p.pasture),
               NEW x \in {Idle, y}, Becomes(o, x)
        PROVE  LeaseInv' /\ LockStep
    BY <2>1, <2>3, <2>6, ReleaseKeeps
  <2>7. QED
    BY <2>2, <2>5, <2>6, UpdateOutcomes
<1>3. CASE RepairAbort(o)
  <2>1. p.pc = "abort" /\ sched.creation # None
    BY <1>3 DEF RepairAbort, LeaseInv, Unborn, CreatorPcs
  <2> DEFINE condition == OwnsLease(sched, o)
             row == Release(sched, TRUE)
  <2>2. UpdateSchedule(o, condition, row, {Idle}, Idle)
    BY <1>3 DEF RepairAbort
  <2>3. CASE sched' = sched /\ Becomes(o, Idle)
    BY <2>1, <2>3, MoveKeeps DEF Onward
  <2>4. CASE condition /\ sched' = row /\ Becomes(o, Idle)
    BY <2>1, <2>4, ReleaseKeeps
  <2> HIDE DEF condition, row
  <2>5. (sched' = sched \/ (condition /\ sched' = row)) /\ Becomes(o, Idle)
    BY <2>2, UpdateOutcomes
  <2>6. QED
    BY <2>3, <2>4, <2>5
<1>4. QED
  BY <1>2, <1>3

\* The holder lets the lease expire and is gone.
LEMMA MarkNeedsRepairKeeps ==
  ASSUME TypeInv, LeaseInv, NEW o \in Ops, MarkNeedsRepair(o)
  PROVE  LeaseInv' /\ LockStep
<1> DEFINE condition == OwnsLease(sched, o)
           row == NeedsRepair(sched, op[o].now, FALSE)
<1>1. UpdateSchedule(o, condition, row, {Idle}, Idle)
  BY DEF MarkNeedsRepair
<1> HIDE DEF condition, row
<1>2. UNCHANGED << tasks, job, notices >> /\ Becomes(o, Idle)
  BY <1>1, UpdateOutcomes
<1>3. CASE sched' = sched
  BY <1>2, <1>3, MoveKeeps DEF Onward
<1>4. CASE condition /\ sched' = row
  <2>1. op'[o] = Idle /\ \A q \in Ops : q # o => op'[q] = op[q]
    BY <1>2 DEF Becomes, TypeInv, TypeOK
  <2>2. Idle.pc = "idle" /\ Idle.now = 0
    BY DEF Idle
  <2>3. sched \in Schedules /\ sched.creation # None /\ sched.leaseOwner = o
    BY <1>4 DEF TypeInv, TypeOK, LeaseInv, Unborn, OwnsLease, condition
  <2>4. /\ sched'.creation = sched.creation /\ sched'.updateState = sched.updateState
        /\ sched'.leaseOwner = sched.leaseOwner
    BY <1>4, <2>3 DEF NeedsRepair, Schedules, row
  <2>5. LeaseFields' /\ Unborn'
    BY <2>3, <2>4 DEF LeaseInv, LeaseFields, Unborn
  <2>6. OneCreator'
    BY <2>1, <2>2 DEF LeaseInv, OneCreator, Creator
  <2>7. CreatorFirst'
    BY <2>1, <2>2, <2>4 DEF LeaseInv, CreatorFirst
  <2>8. Ages'
    BY <2>1, <2>2, ConstantTypes DEF LeaseInv, Ages
  <2>9. \A q \in Ops : ~OwnsLease(sched', q) \/ ~Holds(q)'
    BY <2>1, <2>2, <2>3, <2>4 DEF OwnsLease, Holds, LeasedPcs
  <2>10. LeaseHeld'
    BY <2>1, <2>2, <2>3, <2>4, <2>9 DEF LeaseInv, LeaseHeld, OwnsLease, Holds, LeasedPcs
  <2>11. OutsiderOwnsNothing'
    BY <2>1, <2>2, <2>4 DEF LeaseInv, OutsiderOwnsNothing, OutsidePcs
  <2>12. ~Attended'
    BY <2>9 DEF Attended
  <2>13. QED
    BY <2>4, <2>5, <2>6, <2>7, <2>8, <2>10, <2>11, <2>12, LockSame DEF LeaseInv
<1>5. QED
  BY <1>1, <1>3, <1>4, UpdateOutcomes

------------------------------------------------------------------------------
(* A second passes *)

LEMMA TickKeepsLease ==
  ASSUME TypeInv, LeaseInv, Tick
  PROVE  LeaseInv' /\ LockStep
<1>1. ASSUME NEW o \in Ops
      PROVE  /\ op'[o] = Aged(op[o])
             /\ op'[o].pc = op[o].pc /\ op'[o].kind = op[o].kind
             /\ op'[o].now = IF op[o].pc = "idle" THEN op[o].now ELSE op[o].now - 1
             /\ op[o].now \in Int
             /\ -op'[o].now <= MaxAge
  <2> DEFINE p == op[o]
             wait == IF p.wait > 0 THEN p.wait - 1 ELSE p.wait
             owed == IF p.wait > 0 THEN p.owed - 1 ELSE p.owed
             x == [ p EXCEPT !.now = p.now - 1, !.wait = wait, !.owed = owed ]
  <2>1. op'[o] = Aged(p) /\ -Aged(p).now <= MaxAge
    BY DEF Tick
  <2>2. p \in Handlers /\ p.now \in Int
    BY DEF TypeInv, TypeOK, Handlers
  <2>3. Aged(p) = IF p.pc = "idle" THEN p ELSE x
    BY DEF Aged
  <2> HIDE DEF wait, owed
  <2>4. x.pc = p.pc /\ x.kind = p.kind /\ x.now = p.now - 1
    BY <2>2 DEF Handlers
  <2> HIDE DEF x
  <2>5. QED
    BY <2>1, <2>2, <2>3, <2>4
<1>2. sched \in Schedules
  BY DEF TypeInv, TypeOK
<1>3. /\ sched'.creation = sched.creation /\ sched'.updateState = sched.updateState
      /\ sched'.leaseOwner = sched.leaseOwner
      /\ sched'.leaseExpires = Elapsed(sched.leaseExpires, Past)
  BY <1>2 DEF Tick, Schedules
<1>4. LeaseFields'
  BY <1>3 DEF LeaseInv, LeaseFields
<1>5. Unborn'
  <2>1. ASSUME NEW t \in Tasks PROVE tasks'[t].state = tasks[t].state
    BY DEF Tick, TypeInv, TypeOK, TaskRows
  <2>2. notices' = notices /\ job' = job
    BY DEF Tick
  <2>3. sched.leaseExpires = None => sched'.leaseExpires = None
    BY <1>3 DEF Elapsed
  <2>4. QED
    BY <1>1, <1>3, <2>1, <2>2, <2>3 DEF LeaseInv, Unborn
<1>6. OneCreator' /\ CreatorFirst'
  BY <1>1, <1>3 DEF LeaseInv, OneCreator, Creator, CreatorFirst
<1>7. Ages'
  BY <1>1 DEF LeaseInv, Ages
<1>8. \A o \in Ops : (Holds(o)' <=> Holds(o)) /\ (OwnsLease(sched', o) <=> OwnsLease(sched, o))
  BY <1>1, <1>3 DEF Holds, OwnsLease
<1>9. LeaseHeld'
  <2> SUFFICES ASSUME NEW o \in Ops, Holds(o), OwnsLease(sched, o)
               PROVE  sched'.leaseExpires = op'[o].now + LeaseTime
    BY <1>1, <1>8 DEF LeaseInv, LeaseHeld
  <2>1. sched.leaseExpires = op[o].now + LeaseTime /\ op'[o].now = op[o].now - 1
    BY <1>1 DEF LeaseInv, LeaseHeld, Holds, LeasedPcs
  <2>2. op[o].now \in Int /\ -op[o].now <= MaxAge /\ LeaseTime \in Nat /\ MaxAge \in Nat
    BY <1>1, ConstantTypes DEF LeaseInv, Ages
  <2>3. sched.leaseExpires > Past /\ sched.leaseExpires # None
    BY <2>1, <2>2, NoneIsNone DEF Past
  <2>4. sched'.leaseExpires = sched.leaseExpires - 1
    BY <1>3, <2>3 DEF Elapsed
  <2>5. QED
    BY <2>1, <2>2, <2>4
<1>10. OutsiderOwnsNothing'
  BY <1>1, <1>3 DEF LeaseInv, OutsiderOwnsNothing
<1>11. Attended' => Attended
  BY <1>8 DEF Attended
<1>12. QED
  BY <1>3, <1>4, <1>5, <1>6, <1>7, <1>9, <1>10, <1>11, LockSame DEF LeaseInv

------------------------------------------------------------------------------
(* The steps that read the store, and what begins a handler                *)

LEMMA ReadKeeps ==
  ASSUME TypeInv, LeaseInv, NEW o \in Ops, op[o].pc \notin {"idle"} \cup CreatorPcs,
         NEW x, NEW y, x \in Onward(op[o]), y \in Onward(op[o]), ReadStore(o, {x}, y)
  PROVE  LeaseInv' /\ LockStep
<1>1. \E z \in {x, y} : Becomes(o, z)
  BY DEF ReadStore, Becomes
<1>2. UNCHANGED << sched, tasks, job, notices >>
  BY DEF ReadStore
<1>3. QED
  BY <1>1, <1>2, MoveKeeps

LEMMA ReadStepsKeep ==
  ASSUME TypeInv, LeaseInv, NEW o \in Ops,
         \/ Lookup(o) \/ ReadSchedule(o) \/ ShouldSkip(o) \/ CheckPending(o)
         \/ RepairRead(o) \/ RepairFind(o) \/ RepairCheck(o)
  PROVE  LeaseInv' /\ LockStep
<1> DEFINE p == op[o]
<1>0. p \in Handlers /\ Placed(p) /\ sched \in Schedules
  BY DEF TypeInv, TypeOK, PlacedHandlers
<1>i. Idle \in Onward(p)
  BY DEF Onward
<1>w. ASSUME p.pc \in WorkPcs
      PROVE  /\ p.pc \notin {"idle"} \cup CreatorPcs
             /\ Failed(p) \in Onward(p) /\ Exit(p, "abort") \in Onward(p)
             /\ Leave(p, TRUE) \in Onward(p) /\ Leave(p, FALSE) \in Onward(p)
             /\ \A pc \in LeasedPcs : [ p EXCEPT !.pc = pc ] \in Onward(p)
  BY <1>0, <1>w, ExitOnward, MovedOnward DEF ExitPcs, WorkPcs, LeasedPcs, CreatorPcs
<1>1. CASE Lookup(o)
  <2> DEFINE x == IF tasks[p.task].jobId THEN [ p EXCEPT !.pc = "lease" ] ELSE Idle
  <2>1. ReadStore(o, {x}, Idle) /\ p.pc = "lookup"
    BY <1>1 DEF Lookup
  <2>2. [ p EXCEPT !.pc = "lease" ] \in Onward(p)
    <3> DEFINE z == [ p EXCEPT !.pc = "lease" ]
    <3>1. z \in Handlers /\ z.pc = "lease" /\ z.kind = p.kind /\ z.now = p.now
      BY <1>0 DEF Handlers, Pcs
    <3> HIDE DEF z
    <3>2. QED
      BY <2>1, <3>1 DEF z, Onward, Moves, CreatorPcs, OutsidePcs, LeasedPcs
  <2>3. x \in Onward(p)
    BY <1>i, <2>2
  <2> HIDE DEF x
  <2>4. QED
    BY <1>i, <2>1, <2>3, ReadKeeps DEF CreatorPcs
<1>2. CASE ReadSchedule(o)
  <2> DEFINE x == CASE p.kind = SCHEDULE_STATE_START_TASK -> [ p EXCEPT !.pc = "queue" ]
                    [] p.kind = SCHEDULE_STATE_END_TASK   -> [ p EXCEPT !.pc = "finish" ]
                    [] p.kind = SCHEDULE_STATE_PASTURE    -> Leave(p, TRUE)
  <2>1. ReadStore(o, {x}, Idle) /\ p.pc \in WorkPcs
    BY <1>2 DEF ReadSchedule, WorkPcs, LeasedPcs
  <2>2. p.kind \in UpdateKinds
    BY <1>0, <1>2 DEF ReadSchedule, Placed
  <2>3. x \in { [ p EXCEPT !.pc = "queue" ], [ p EXCEPT !.pc = "finish" ], Leave(p, TRUE) }
    BY <2>2 DEF UpdateKinds, SCHEDULE_STATE_START_TASK, SCHEDULE_STATE_END_TASK, SCHEDULE_STATE_PASTURE
  <2> HIDE DEF x
  <2>4. x \in Onward(p)
    BY <1>w, <2>1, <2>3 DEF LeasedPcs
  <2>5. QED
    BY <1>i, <1>w, <2>1, <2>4, ReadKeeps
<1>3. CASE ShouldSkip(o)
  <2> DEFINE x == IF sched.skip /\ TasksIn(TASK_STATE_STARTED) # {}
                  THEN [ p EXCEPT !.pc = "markSkipped" ] ELSE [ p EXCEPT !.pc = "startJob" ]
  <2>1. ReadStore(o, {x}, Failed(p)) /\ p.pc \in WorkPcs
    BY <1>3 DEF ShouldSkip, WorkPcs, LeasedPcs
  <2>2. x \in { [ p EXCEPT !.pc = "markSkipped" ], [ p EXCEPT !.pc = "startJob" ] }
    OBVIOUS
  <2> HIDE DEF x
  <2>3. x \in Onward(p)
    BY <1>w, <2>1, <2>2 DEF LeasedPcs
  <2>4. QED
    BY <1>w, <2>1, <2>3, ReadKeeps
<1>4. CASE CheckPending(o)
  <2> DEFINE x == IF TasksIn(TASK_STATE_PENDING) # {} THEN Leave(p, FALSE)
                  ELSE [ p EXCEPT !.pc = "addTask" ]
  <2>1. ReadStore(o, {x}, Failed(p)) /\ p.pc \in WorkPcs
    BY <1>4 DEF CheckPending, WorkPcs, LeasedPcs
  <2>2. x \in { Leave(p, FALSE), [ p EXCEPT !.pc = "addTask" ] }
    OBVIOUS
  <2> HIDE DEF x
  <2>3. x \in Onward(p)
    BY <1>w, <2>1, <2>2 DEF LeasedPcs
  <2>4. QED
    BY <1>w, <2>1, <2>3, ReadKeeps
<1>5. CASE RepairRead(o)
  <2> DEFINE x == [ p EXCEPT !.pc = "steal", !.status = RepairSource(sched) ]
  <2>1. ReadStore(o, {x}, Idle) /\ p.pc = "repairRead"
    BY <1>5 DEF RepairRead
  <2>2. RepairSource(sched) \in ScheduleUpdateStateType \cup {None}
    BY <1>0 DEF RepairSource, Schedules
  <2>3. x \in Handlers /\ x.pc = "steal" /\ x.kind = p.kind /\ x.now = p.now
    BY <1>0, <2>2 DEF Handlers, Pcs
  <2> HIDE DEF x
  <2>4. x \in Onward(p)
    BY <2>1, <2>3 DEF Onward, Moves, CreatorPcs, OutsidePcs, LeasedPcs
  <2>5. QED
    BY <1>i, <2>1, <2>4, ReadKeeps DEF CreatorPcs
<1>6. CASE RepairFind(o)
  <2> DEFINE y == [ p EXCEPT !.pc = "repairCheck", !.task = sched.updateTaskPk ]
             x == CASE sched.repairState = SCHEDULE_STATE_ADD_TASK ->
                         IF sched.pasture THEN Leave(p, TRUE) ELSE y
                    [] sched.repairState \in { SCHEDULE_STATE_START_TASK, SCHEDULE_STATE_END_TASK,
                                               SCHEDULE_STATE_PASTURE } -> Exit(p, "abort")
                    [] OTHER -> Leave(p, TRUE)
  <2>1. ReadStore(o, {x}, Idle) /\ p.pc \in WorkPcs
    BY <1>6 DEF RepairFind, WorkPcs, LeasedPcs
  <2>2. y \in Handlers /\ y.pc = "repairCheck" /\ y.kind = p.kind /\ y.now = p.now
    BY <1>0 DEF Handlers, Pcs, LeasedPcs, Schedules
  <2> HIDE DEF y
  <2>3. y \in Onward(p)
    BY <1>0, <2>1, <2>2, WorkMoves DEF LeasedPcs
  <2>4. x \in { Leave(p, TRUE), y, Exit(p, "abort") }
    BY DEF SCHEDULE_STATE_ADD_TASK, SCHEDULE_STATE_START_TASK, SCHEDULE_STATE_END_TASK,
           SCHEDULE_STATE_PASTURE
  <2> HIDE DEF x
  <2>5. x \in Onward(p)
    BY <1>w, <2>1, <2>3, <2>4
  <2>6. QED
    BY <1>i, <1>w, <2>1, <2>5, ReadKeeps
<1>7. CASE RepairCheck(o)
  <2> DEFINE x == IF p.task # None /\ TasksIn(TASK_STATE_PENDING) # {} THEN Leave(p, FALSE)
                  ELSE Exit(p, "abort")
  <2>1. ReadStore(o, {x}, Exit(p, "abort")) /\ p.pc \in WorkPcs
    BY <1>7 DEF RepairCheck, WorkPcs, LeasedPcs
  <2>2. x \in { Leave(p, FALSE), Exit(p, "abort") }
    OBVIOUS
  <2> HIDE DEF x
  <2>3. x \in Onward(p)
    BY <1>w, <2>1, <2>2
  <2>4. QED
    BY <1>w, <2>1, <2>3, ReadKeeps
<1>8. QED
  BY <1>1, <1>2, <1>3, <1>4, <1>5, <1>6, <1>7

LEMMA BeginStepsKeep ==
  ASSUME TypeInv, LeaseInv, NEW o \in Ops,
         \/ CreateScheduledJob(o) \/ Disable(o) \/ PollExpired(o)
         \/ \E t \in Tasks : PollTask(o, t) \/ FinishNotice(o, t)
  PROVE  LeaseInv' /\ LockStep
<1>h. ASSUME NEW pc, NEW kind, NEW t, NEW status
      PROVE  /\ Handler(pc, kind, t, status).pc = pc
             /\ Handler(pc, kind, t, status).kind = kind
             /\ Handler(pc, kind, t, status).now = 0
             /\ [ Handler(pc, kind, t, status) EXCEPT !.owed = 0 ].pc = pc
             /\ [ Handler(pc, kind, t, status) EXCEPT !.owed = 0 ].kind = kind
             /\ [ Handler(pc, kind, t, status) EXCEPT !.owed = 0 ].now = 0
  BY DEF Handler, Idle
<1>k. SCHEDULE_STATE_ADD_TASK \notin { SCHEDULE_STATE_START_TASK, SCHEDULE_STATE_END_TASK,
                                       SCHEDULE_STATE_PASTURE, SCHEDULE_STATE_REPAIR }
  BY DEF SCHEDULE_STATE_ADD_TASK, SCHEDULE_STATE_START_TASK, SCHEDULE_STATE_END_TASK,
         SCHEDULE_STATE_PASTURE, SCHEDULE_STATE_REPAIR
<1>n. notices \in [Tasks -> 0..MaxNotices]
  BY DEF TypeInv, TypeOK
<1>1. CASE CreateScheduledJob(o)
  <2> DEFINE h(t) == [ Handler("addSchedule", SCHEDULE_STATE_ADD_TASK, t, None) EXCEPT !.owed = 0 ]
  <2>1. PICK t \in Tasks : Becomes(o, h(t))
    BY <1>1 DEF CreateScheduledJob, Becomes
  <2>2. h(t).pc = "addSchedule" /\ h(t).kind = SCHEDULE_STATE_ADD_TASK /\ h(t).now = 0
    BY <1>h
  <2>3. /\ Free(o) /\ sched.creation = None
        /\ \A q \in Ops : op[q].kind # SCHEDULE_STATE_ADD_TASK
        /\ UNCHANGED << sched, tasks, job, notices >>
    BY <1>1 DEF CreateScheduledJob
  <2> HIDE DEF h
  <2>4. QED
    BY <2>1, <2>2, <2>3, BeginKeepsLease DEF LeasedPcs
<1>2. ASSUME NEW h, NEW pc, NEW kind, Begin(o, h), sched.creation # None,
             h.pc = pc, h.kind = kind, h.now = 0, pc \in {"lease", "lookup", "repairRead"},
             kind # SCHEDULE_STATE_ADD_TASK
      PROVE  LeaseInv' /\ LockStep
  <2>1. Free(o) /\ Becomes(o, h) /\ UNCHANGED << sched, tasks, job >>
    BY <1>2 DEF Begin, Becomes
  <2>2. QED
    BY <1>2, <2>1, BeginKeepsLease DEF LeasedPcs
<1>3. CASE Disable(o)
  BY <1>2, <1>3, <1>h, <1>k DEF Disable
<1>4. CASE PollExpired(o)
  <2>1. sched.creation # None
    BY <1>4 DEF PollExpired, Before, LeaseInv, Unborn
  <2> DEFINE h == [ Handler("repairRead", SCHEDULE_STATE_REPAIR, None, None) EXCEPT !.owed = 0 ]
  <2>2. h.pc = "repairRead" /\ h.kind = SCHEDULE_STATE_REPAIR /\ h.now = 0
    BY <1>h
  <2>3. Begin(o, h)
    BY <1>4 DEF PollExpired
  <2> HIDE DEF h
  <2>4. QED
    BY <1>2, <1>k, <2>1, <2>2, <2>3
<1>5. ASSUME NEW t \in Tasks, PollTask(o, t) PROVE LeaseInv' /\ LockStep
  <2>1. sched.creation # None
    BY <1>5 DEF PollTask, Ready, LeaseInv, Unborn, TASK_ABSENT, TASK_STATE_PENDING
  <2>2. QED
    BY <1>2, <1>5, <1>h, <1>k, <2>1 DEF PollTask
<1>6. ASSUME NEW t \in Tasks, FinishNotice(o, t) PROVE LeaseInv' /\ LockStep
  <2>1. sched.creation # None
    BY <1>6, <1>n DEF FinishNotice, LeaseInv, Unborn
  <2>2. QED
    BY <1>2, <1>6, <1>h, <1>k, <2>1 DEF FinishNotice
<1>7. QED
  BY <1>1, <1>3, <1>4, <1>5, <1>6

------------------------------------------------------------------------------
(* The steps that change a task                                            *)

\* A step that changes a task's state is one of the handler that owns the lease.
TaskStep ==
  \A t \in Tasks :
    /\ tasks'[t].state # tasks[t].state
    /\ tasks'[t].state # TASK_ABSENT
    => \E o \in Ops : OwnsLease(sched, o) /\ Holds(o) /\ op'[o] # op[o]

LEMMA WorkKeeps ==
  ASSUME TypeInv, LeaseInv, NEW o \in Ops, op[o].pc \in WorkPcs,
         NEW x \in Onward(op[o]), x.pc # op[o].pc, Becomes(o, x), sched' = sched
  PROVE  LeaseInv' /\ LockStep /\ TaskStep
<1>1. sched.creation # None
  BY DEF LeaseInv, Unborn, WorkPcs, LeasedPcs, CreatorPcs
<1>2. LeaseInv' /\ LockStep
  BY <1>1, MoveKeeps
<1>3. Holds(o) /\ OwnsLease(sched, o)
  BY <1>1 DEF Holds, WorkPcs, LeaseInv, LeaseHeld
<1>4. op'[o] # op[o]
  BY DEF Becomes, TypeInv, TypeOK
<1>5. QED
  BY <1>2, <1>3, <1>4 DEF TaskStep

LEMMA MarkKeeps ==
  ASSUME TypeInv, LeaseInv, NEW o \in Ops, op[o].pc \in WorkPcs, NEW expected, NEW new,
         NEW STATE accepted, NEW STATE rejected,
         accepted \subseteq Onward(op[o]), rejected \in Onward(op[o]),
         \A x \in accepted \cup {rejected} : x.pc # op[o].pc,
         MarkTask(o, expected, new, accepted, rejected)
  PROVE  LeaseInv' /\ LockStep /\ TaskStep
<1>1. \E x \in accepted \cup {rejected} : Becomes(o, x)
  BY DEF MarkTask, UpdateTask, Becomes
<1>2. sched' = sched
  BY DEF MarkTask, UpdateTask
<1>3. QED
  BY <1>1, <1>2, WorkKeeps

\* Where the steps that mark a task lead.
LEMMA MarksLeadAway ==
  ASSUME NEW p \in Handlers, p.pc \in WorkPcs \ ExitPcs
  PROVE  /\ Failed(p) \in Onward(p) /\ Failed(p).pc # p.pc
         /\ Leave(p, FALSE) \in Onward(p) /\ Leave(p, FALSE).pc # p.pc
         /\ \A x \in AfterStart(p) \cup AfterFinish(p) \cup AfterFailure(p)
                 \cup AfterFailedStart(p) :
              x \in Onward(p) /\ x.pc # p.pc
<1>1. Failed(p).pc = "needsRepair" /\ Leave(p, FALSE).pc = "release"
  BY FailedType, LeaveType
<1>2. \A x \in AfterStart(p) \cup AfterFinish(p) \cup AfterFailure(p)
                 \cup AfterFailedStart(p) : x.pc \in ExitPcs
  BY FollowUpDeparts DEF Departures
<1>3. QED
  BY <1>1, <1>2, ExitOnward, FollowUpOnward DEF ExitPcs

LEMMA MarkStepsKeep ==
  ASSUME TypeInv, LeaseInv, NEW o \in Ops,
         \/ MarkTaskQueued(o) \/ MarkTaskSkipped(o) \/ MarkTaskCompleted(o) \/ MarkTaskFailed(o)
         \/ MarkTaskStartFailed(o) \/ MarkTaskFinished(o)
  PROVE  LeaseInv' /\ LockStep /\ TaskStep
<1> DEFINE p == op[o]
<1>0. p \in Handlers /\ p.pc \in WorkPcs \ ExitPcs
  BY DEF TypeInv, TypeOK, MarkTaskQueued, MarkTaskSkipped, MarkTaskCompleted, MarkTaskFailed,
         MarkTaskStartFailed, MarkTaskFinished, WorkPcs, LeasedPcs, ExitPcs
<1>1. CASE MarkTaskQueued(o)
  <2> DEFINE x == [ p EXCEPT !.pc = "dupCheck" ]
  <2>1. MarkTask(o, TASK_STATE_PENDING, TASK_STATE_QUEUED, {x}, Failed(p)) /\ p.pc = "queue"
    BY <1>1 DEF MarkTaskQueued
  <2>2. x \in Onward(p) /\ x.pc = "dupCheck"
    BY <1>0, MovedOnward DEF LeasedPcs, Handlers
  <2> HIDE DEF x
  <2> DEFINE accepted == {x}
  <2>3. /\ accepted \subseteq Onward(p) /\ Failed(p) \in Onward(p)
        /\ \A z \in accepted \cup {Failed(p)} : z.pc # p.pc
    BY <1>0, <2>1, <2>2, MarksLeadAway
  <2>4. MarkTask(o, TASK_STATE_PENDING, TASK_STATE_QUEUED, accepted, Failed(p))
    BY <2>1
  <2> HIDE DEF accepted
  <2>5. QED
    BY <1>0, <2>3, <2>4, MarkKeeps
<1>2. CASE MarkTaskSkipped(o)
  BY <1>0, <1>2, MarksLeadAway, MarkKeeps DEF MarkTaskSkipped
<1>3. CASE MarkTaskCompleted(o)
  BY <1>0, <1>3, MarksLeadAway, MarkKeeps DEF MarkTaskCompleted
<1>4. CASE MarkTaskFailed(o)
  BY <1>0, <1>4, MarksLeadAway, MarkKeeps DEF MarkTaskFailed
<1>5. CASE MarkTaskStartFailed(o)
  <2> DEFINE x == IF p.status = "rejected" THEN Failed(p) ELSE Leave(p, FALSE)
  <2>1. MarkTask(o, TASK_STATE_QUEUED, TASK_STATE_START_ERROR, {x}, Failed(p))
    BY <1>5 DEF MarkTaskStartFailed
  <2>2. x \in Onward(p) /\ x.pc # p.pc
    BY <1>0, MarksLeadAway
  <2> HIDE DEF x
  <2> DEFINE accepted == {x}
  <2>3. /\ accepted \subseteq Onward(p) /\ Failed(p) \in Onward(p)
        /\ \A z \in accepted \cup {Failed(p)} : z.pc # p.pc
    BY <1>0, <2>1, <2>2, MarksLeadAway
  <2>4. MarkTask(o, TASK_STATE_QUEUED, TASK_STATE_START_ERROR, accepted, Failed(p))
    BY <2>1
  <2> HIDE DEF accepted
  <2>5. QED
    BY <1>0, <2>3, <2>4, MarkKeeps
<1>6. CASE MarkTaskFinished(o)
  <2>1. CASE MarkTask(o, TASK_STATE_STARTED, TASK_STATE_COMPLETED, AfterFinish(p), Failed(p))
    BY <1>0, <2>1, MarksLeadAway, MarkKeeps
  <2>2. CASE MarkTask(o, TASK_STATE_STARTED, TASK_STATE_COMPLETE_ERROR, AfterFailure(p), Failed(p))
    BY <1>0, <2>2, MarksLeadAway, MarkKeeps
  <2>3. CASE Becomes(o, Failed(p)) /\ sched' = sched
    BY <1>0, <2>3, MarksLeadAway, WorkKeeps
  <2>4. QED
    BY <1>6, <2>1, <2>2, <2>3 DEF MarkTaskFinished, Becomes
<1>7. QED
  BY <1>1, <1>2, <1>3, <1>4, <1>5, <1>6

LEMMA StartJobKeepsLease ==
  ASSUME TypeInv, LeaseInv, NEW o \in Ops, StartJob(o)
  PROVE  LeaseInv' /\ LockStep /\ TaskStep
<1> DEFINE p == op[o]
<1>0. p \in Handlers /\ p.pc = "startJob" /\ p.pc \in WorkPcs \ ExitPcs
  BY DEF TypeInv, TypeOK, StartJob, WorkPcs, LeasedPcs, ExitPcs
<1>1. PICK reply \in Responses :
        op' = [op EXCEPT ![o] =
                 CASE reply \in {"running", "completed", "failed"} ->
                        [ p EXCEPT !.pc = "markStarted", !.status = reply ]
                   [] reply \in {"did-not-start", "rejected"} ->
                        [ p EXCEPT !.pc = "markStartFailed", !.status = reply ]
                   [] reply = "unknown" -> Failed(p) ]
  BY DEF StartJob
<1>2. reply \in JobReplies
  BY ConstantTypes
<1>3. ASSUME NEW pc \in {"markStarted", "markStartFailed"},
             Becomes(o, [ p EXCEPT !.pc = pc, !.status = reply ])
      PROVE  LeaseInv' /\ LockStep /\ TaskStep
  <2> DEFINE x == [ p EXCEPT !.pc = pc, !.status = reply ]
  <2>1. x \in Handlers /\ x.pc = pc /\ x.kind = p.kind /\ x.now = p.now
    BY <1>0, <1>2 DEF Handlers, Pcs, LeasedPcs
  <2>2. Becomes(o, x)
    BY <1>3
  <2> HIDE DEF x
  <2>3. x \in Onward(p) /\ x.pc # p.pc
    BY <1>0, <2>1, WorkMoves DEF LeasedPcs
  <2>4. QED
    BY <1>0, <2>2, <2>3, WorkKeeps DEF StartJob
<1>4. CASE reply = "unknown"
  <2>1. Becomes(o, Failed(p))
    BY <1>1, <1>4 DEF Becomes
  <2>2. QED
    BY <1>0, <2>1, MarksLeadAway, WorkKeeps DEF StartJob
<1>5. CASE reply \in {"running", "completed", "failed"}
  BY <1>1, <1>3, <1>5 DEF Becomes
<1>6. CASE reply \in {"did-not-start", "rejected"}
  BY <1>1, <1>3, <1>6 DEF Becomes
<1>7. QED
  BY <1>2, <1>4, <1>5, <1>6 DEF JobReplies

LEMMA MarkStartedKeepsLease ==
  ASSUME TypeInv, LeaseInv, NEW o \in Ops, MarkTaskStarted(o)
  PROVE  LeaseInv' /\ LockStep /\ TaskStep
<1> DEFINE p == op[o]
           accepted == CASE p.status = "running"   -> AfterStart(p)
                         [] p.status = "completed" -> { [ p EXCEPT !.pc = "markCompleted" ] }
                         [] p.status = "failed"    -> { [ p EXCEPT !.pc = "markFailed" ] }
<1>0. /\ p \in Handlers /\ p.pc = "markStarted" /\ p.pc \in WorkPcs \ ExitPcs
      /\ p.status \in {"running", "completed", "failed"}
  BY DEF TypeInv, TypeOK, PlacedHandlers, Placed, MarkTaskStarted, WorkPcs, LeasedPcs, ExitPcs
<1>1. ASSUME NEW pc \in {"markCompleted", "markFailed"}
      PROVE  [ p EXCEPT !.pc = pc ] \in Onward(p) /\ [ p EXCEPT !.pc = pc ].pc # p.pc
  <2>1. [ p EXCEPT !.pc = pc ].pc = pc
    BY <1>0 DEF Handlers
  <2>2. [ p EXCEPT !.pc = pc ] \in Onward(p)
    BY <1>0, MovedOnward DEF LeasedPcs
  <2>3. QED
    BY <1>0, <2>1, <2>2
<1>2. \A x \in accepted \cup {Failed(p)} : x \in Onward(p) /\ x.pc # p.pc
  <2>1. CASE p.status = "running"
    BY <1>0, <2>1, MarksLeadAway
  <2>2. CASE p.status = "completed"
    BY <1>0, <1>1, <2>2, MarksLeadAway
  <2>3. CASE p.status = "failed"
    BY <1>0, <1>1, <2>3, MarksLeadAway
  <2>4. QED
    BY <1>0, <2>1, <2>2, <2>3
<1>3. UpdateTask(o, p.task, tasks[p.task].state = TASK_STATE_QUEUED,
        [tasks[p.task] EXCEPT !.state = TASK_STATE_STARTED, !.jobId = TRUE], accepted, Failed(p))
  BY DEF MarkTaskStarted
<1> HIDE DEF accepted
<1>4. sched' = sched /\ \E x \in accepted \cup {Failed(p)} : Becomes(o, x)
  BY <1>3 DEF UpdateTask, Becomes
<1>5. QED
  BY <1>0, <1>2, <1>4, WorkKeeps

LEMMA AddTaskKeepsLease ==
  ASSUME TypeInv, LeaseInv, NEW o \in Ops, AddTask(o)
  PROVE  LeaseInv' /\ LockStep /\ TaskStep
<1> DEFINE p == op[o]
<1>0. p \in Handlers /\ p.pc \in WorkPcs \ ExitPcs
  BY DEF TypeInv, TypeOK, AddTask, WorkPcs, LeasedPcs, ExitPcs
<1>1. sched' = sched /\ \E x \in { Leave(p, FALSE), Failed(p) } : Becomes(o, x)
  BY DEF AddTask, UpdateTask, Becomes
<1>2. QED
  BY <1>0, <1>1, MarksLeadAway, WorkKeeps

------------------------------------------------------------------------------
(* The environment *)

LEMMA EnvironmentKeeps ==
  ASSUME TypeInv, LeaseInv,
         (\E o \in Ops : Crash(o)) \/ (\E t \in Tasks : JobFinishes(t) \/ DeleteFinishedTask(t))
  PROVE  LeaseInv' /\ LockStep /\ TaskStep
<1>1. ASSUME NEW o \in Ops, Crash(o) PROVE LeaseInv' /\ LockStep /\ TaskStep
  <2>1. Becomes(o, Idle) /\ UNCHANGED << sched, tasks, job, notices >>
    BY <1>1 DEF Crash, Becomes
  <2>2. QED
    BY <2>1, MoveKeeps DEF Onward, TaskStep
<1>2. ASSUME sched.creation # None, sched' = sched, op' = op,
             \A t \in Tasks : tasks'[t].state \in {tasks[t].state, TASK_ABSENT}
      PROVE  LeaseInv' /\ LockStep /\ TaskStep
  <2>1. LeaseInv'
    BY <1>2
       DEF LeaseInv, LeaseFields, Unborn, OneCreator, Creator, CreatorFirst, Ages, LeaseHeld,
           Holds, OwnsLease, OutsiderOwnsNothing
  <2>2. Attended' => Attended
    BY <1>2 DEF Attended, Holds, OwnsLease
  <2>3. LockStep
    BY <1>2, <2>2, LockSame
  <2>4. QED
    BY <1>2, <2>1, <2>3 DEF TaskStep
<1>3. ASSUME NEW t \in Tasks, JobFinishes(t) PROVE LeaseInv' /\ LockStep /\ TaskStep
  BY <1>2, <1>3 DEF JobFinishes, LeaseInv, Unborn
<1>4. ASSUME NEW t \in Tasks, DeleteFinishedTask(t) PROVE LeaseInv' /\ LockStep /\ TaskStep
  <2>1. tasks[t].state # TASK_ABSENT
    BY <1>4 DEF DeleteFinishedTask, FinishedTaskStates, TASK_ABSENT, TASK_STATE_COMPLETE_ERROR,
                TASK_STATE_FAILED, TASK_STATE_START_ERROR, TASK_STATE_COMPLETED
  <2>2. \A u \in Tasks : tasks'[u].state \in {tasks[u].state, TASK_ABSENT}
    BY <1>4 DEF DeleteFinishedTask, NoTask, TypeInv, TypeOK
  <2>3. sched.creation # None /\ sched' = sched /\ op' = op
    BY <1>4, <2>1 DEF DeleteFinishedTask, LeaseInv, Unborn
  <2>4. QED
    BY <1>2, <2>2, <2>3
<1>5. QED
  BY <1>1, <1>3, <1>4

------------------------------------------------------------------------------
LEMMA LeaseInvStep ==
  ASSUME Punctual
  PROVE  TypeInv /\ LeaseInv /\ [Next]_vars => LeaseInv' /\ LockStep /\ TaskStep
<1> SUFFICES ASSUME TypeInv, LeaseInv, [Next]_vars PROVE LeaseInv' /\ LockStep /\ TaskStep
  OBVIOUS
<1>1. CASE Tick
  <2>1. \A t \in Tasks : tasks'[t].state = tasks[t].state
    BY <1>1 DEF Tick, TypeInv, TypeOK, TaskRows
  <2>2. QED
    BY <1>1, <2>1, TickKeepsLease DEF TaskStep
<1>2. ASSUME NEW o \in Ops,
             \/ CreateScheduledJob(o) \/ Disable(o) \/ PollExpired(o)
             \/ \E t \in Tasks : PollTask(o, t) \/ FinishNotice(o, t)
      PROVE  LeaseInv' /\ LockStep /\ TaskStep
  <2>1. tasks' = tasks
    BY <1>2 DEF CreateScheduledJob, Disable, PollExpired, PollTask, FinishNotice, Begin
  <2>2. QED
    BY <1>2, <2>1, BeginStepsKeep DEF TaskStep
<1>3. ASSUME NEW o \in Ops,
             \/ Lookup(o) \/ ReadSchedule(o) \/ ShouldSkip(o) \/ CheckPending(o)
             \/ RepairRead(o) \/ RepairFind(o) \/ RepairCheck(o)
      PROVE  LeaseInv' /\ LockStep /\ TaskStep
  <2>1. tasks' = tasks
    BY <1>3 DEF Lookup, ReadSchedule, ShouldSkip, CheckPending, RepairRead, RepairFind,
                RepairCheck, ReadStore
  <2>2. QED
    BY <1>3, <2>1, ReadStepsKeep DEF TaskStep
<1>4. ASSUME NEW o \in Ops,
             \/ AddScheduledJob(o) \/ TakeLease(o) \/ ReleaseLease(o) \/ MarkNeedsRepair(o)
             \/ StealLease(o) \/ RepairAbort(o)
      PROVE  LeaseInv' /\ LockStep /\ TaskStep
  <2>1. tasks' = tasks
    BY <1>4 DEF AddScheduledJob, TakeLease, ReleaseLease, MarkNeedsRepair, StealLease,
                RepairAbort, UpdateSchedule
  <2>2. LeaseInv' /\ LockStep
    BY <1>4, AddScheduledJobKeeps, TakeLeaseKeeps, ReleaseLeaseKeeps, MarkNeedsRepairKeeps,
       StealLeaseKeeps
  <2>3. QED
    BY <2>1, <2>2 DEF TaskStep
<1>5. ASSUME NEW o \in Ops, Step(o) PROVE LeaseInv' /\ LockStep /\ TaskStep
  BY <1>3, <1>4, <1>5, MarkStepsKeep, StartJobKeepsLease, MarkStartedKeepsLease, AddTaskKeepsLease
     DEF Step, InLease, StartTask, AddFollowUp, Repair
<1>6. CASE \/ \E o \in Ops : Crash(o)
           \/ \E t \in Tasks : JobFinishes(t) \/ DeleteFinishedTask(t)
  BY <1>6, EnvironmentKeeps
<1>7. CASE UNCHANGED vars
  <2>1. LeaseInv' /\ TaskStep
    BY <1>7
       DEF vars, TaskStep, LeaseInv, LeaseFields, Unborn, OneCreator, Creator, CreatorFirst,
           Ages, LeaseHeld, Holds, OwnsLease, OutsiderOwnsNothing
  <2>2. LockStep
    BY <1>7, LockSame DEF vars, Attended, Holds, OwnsLease
  <2>3. QED
    BY <2>1, <2>2
<1>8. QED
  BY <1>1, <1>2, <1>5, <1>6, <1>7 DEF Next

LEMMA LeaseInvHolds ==
  ASSUME Punctual
  PROVE  Spec => [](TypeInv /\ LeaseInv)
<1>1. TypeInv /\ LeaseInv /\ [Next]_vars => (TypeInv /\ LeaseInv)'
  BY TypeInvStep, LeaseInvStep
<1>2. QED
  BY <1>1, TypeInvInitially, LeaseInvInitially, PTL DEF Spec

\* With an SQL store and handlers that are no older than the lease time, the handler
\* that works inside a lease is the one that the row names, and its lease has not
\* expired (runUpdateInLease, repairExpiredSchedule).
THEOREM LeaseIsExclusive ==
  ASSUME Punctual
  PROVE  Spec => []LeaseExclusive
<1>1. TypeInv /\ LeaseInv => LeaseExclusive
  <2> SUFFICES ASSUME TypeInv, LeaseInv, NEW o \in Ops, Holds(o), OwnsLease(sched, o)
               PROVE  sched.leaseExpires >= 0
    BY DEF LeaseExclusive, LeaseInv, LeaseHeld
  <2>1. op[o].now \in Int
    BY DEF TypeInv, TypeOK, Handlers
  <2>2. QED
    BY <2>1, ConstantTypes DEF LeaseInv, LeaseHeld, Ages, Punctual
<1>2. QED
  BY <1>1, LeaseInvHolds, PTL

\* Under the same assumptions only the handler that owns the schedule's lease changes
\* the state of a task: "the owning schedule is locked" (model/task.ts).
THEOREM LeaseGuardsTasks ==
  ASSUME Punctual
  PROVE  Spec => TasksChangeUnderLease
<1>1. TypeInv /\ LeaseInv /\ [Next]_vars => TaskStep
  BY LeaseInvStep
<1>2. TaskStep => [\A t \in Tasks :
                     /\ tasks'[t].state # tasks[t].state
                     /\ tasks'[t].state # TASK_ABSENT
                     => \E o \in Ops : OwnsLease(sched, o) /\ Holds(o) /\ op'[o] # op[o]]_vars
  BY DEF TaskStep
<1>3. QED
  BY <1>1, <1>2, LeaseInvHolds, PTL DEF Spec, TasksChangeUnderLease

\* Under the same assumptions the rows and the handlers implement the abstract lease
\* of LeaseLock (datastore/api.ts).
THEOREM LeaseImplementsLock ==
  ASSUME Punctual
  PROVE  Spec => LeaseIsLock
<1>1. Init => Lock!LockInit
  <2> SUFFICES ASSUME Init PROVE Lock!LockInit
    OBVIOUS
  <2>1. sched.leaseOwner = None /\ sched.updateState = None
    BY DEF Init, NoSchedule
  <2>2. Attended = FALSE
    BY <2>1 DEF Attended, OwnsLease
  <2>3. QED
    BY <2>1, <2>2 DEF Lock!LockInit
<1>2. TypeInv /\ LeaseInv /\ [Next]_vars => [Lock!LockNext]_(Lock!lock)
  BY LeaseInvStep DEF LockStep
<1>3. QED
  BY <1>1, <1>2, LeaseInvHolds, PTL DEF Spec, LeaseIsLock, Lock!LockSpec

==============================================================================
