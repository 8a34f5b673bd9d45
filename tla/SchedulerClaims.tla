--------------------------- MODULE SchedulerClaims ---------------------------
(***************************************************************************)
(* Statements of the repository's own documentation that the code does not  *)
(* keep.  Each has a run of its own whose counterexample is the finding.    *)
(***************************************************************************)
EXTENDS SchedulerProps

\* "Is the scheduled job out to pasture, meaning that its only next state is
\* deleted" (pasture of model/schedule.ts).
PastureIsFinal == [][sched.pasture => sched'.pasture]_vars

\* "Cluster safe.  Multiple instances can run together without causing missed job
\* execution" (README.md), and a finish that another instance recorded first
\* leaves "the system ... in a valid state" (taskFinishedNotUpdated of
\* messaging/api.ts): where no process dies, every call is answered, nobody
\* disables the schedule and no strategy does, it is not put out to pasture
\* because two instances polled the same task or heard the same finish.
HealthyNotPastured == ~sched.pasture

\* A finish that the job framework announces before startJob's answer arrived
\* waits for the lease of the launch (taskFinished in combined.ts): a task whose
\* job is over is not left STARTED with nobody to record the end.
FinishIsAwaited ==
  \A t \in Tasks :
    tasks[t].state = TASK_STATE_STARTED /\ job[t] \in JobResults =>
      \/ notices[t] > 0
      \/ \E o \in Ops : op[o].task = t /\ op[o].pc \in {"lookup", "lease", "read", "finish"}

==============================================================================
