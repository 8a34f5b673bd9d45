-------------------------- MODULE SchedulerLiveness --------------------------
(***************************************************************************)
(* What must eventually happen to one scheduled job.                       *)
(***************************************************************************)
EXTENDS SchedulerProps

\* Time passes; an answered call goes on (a handler's own steps are the
\* continuations of promises); the polls fire again and again, and a notice of
\* the job framework is delivered.  The code bounds neither the number of
\* handlers nor makes them compete for slots: a handler that is wanted again and
\* again finds a slot, hence the strong fairness of the steps that begin one.
Fairness ==
  /\ WF_vars(Tick)
  /\ \A o \in Ops : WF_vars(Step(o))
  /\ SF_vars(\E o \in Ops : PollExpired(o))
  /\ \A t \in Tasks :
       /\ SF_vars(\E o \in Ops : PollTask(o, t))
       /\ SF_vars(\E o \in Ops : FinishNotice(o, t))

FairSpec == Spec /\ Fairness

\* A lease never stays for ever, whatever handlers die or fail inside it: its
\* expiry is polled and the repair ends by releasing it (pollLeaseExpired,
\* repairExpiredSchedule).
LeaseReleased == sched.updateState # None ~> sched.updateState = None

\* A task whose time has come is taken up, by whichever instance polls it
\* (pollExecutableTasks, startTask), also when the handlers that lease the
\* schedule for it die.
DueTaskTaken ==
  \A t \in Tasks :
    tasks[t].state = TASK_STATE_PENDING ~> tasks[t].state # TASK_STATE_PENDING

==============================================================================
