------------------------------ MODULE TaskLife ------------------------------
(***************************************************************************)
(* What the states of a task promise (model/task.ts, and the contracts of   *)
(* markTaskQueued, markTaskStarted and the others in datastore/api.ts): a   *)
(* task is queued once, its job is launched once and only then, and a       *)
(* finished task tells what became of the job.  No handler, lease or       *)
(* notice is mentioned: the promises hold whatever those do.  Where the     *)
(* model's words and the code differ, on a job that failed, either will do: *)
(* what the code writes there is a matter of RecordIsTrue.                  *)
(***************************************************************************)
EXTENDS TernModel, Naturals

CONSTANT Names              \* names of tasks

VARIABLES
  state,          \* of each task; TASK_ABSENT while it has no row
  job,            \* what became of the job of each task; "none" before there is one
  starts          \* how often the job of each task was asked for

life == << state, job, starts >>

LifeInit ==
  /\ state = [n \in Names |-> TASK_ABSENT]
  /\ job = [n \in Names |-> "none"]
  /\ starts = [n \in Names |-> 0]

Becomes(n, s) == state' = [state EXCEPT ![n] = s]

\* A name without a row is drawn for a new task, and what it stood for is forgotten;
\* the row is created or the write fails.
Create(n) ==
  /\ state[n] = TASK_ABSENT /\ job[n] # "running"
  /\ Becomes(n, TASK_STATE_PENDING) \/ UNCHANGED state
  /\ job' = [job EXCEPT ![n] = "none"]
  /\ starts' = [starts EXCEPT ![n] = 0]

Enqueue(n) ==
  /\ state[n] = TASK_STATE_PENDING /\ job[n] = "none" /\ starts[n] = 0
  /\ Becomes(n, TASK_STATE_QUEUED)
  /\ UNCHANGED << job, starts >>

\* The job is asked for; it runs, has ended at once, or there is none.
Launch(n) ==
  /\ state[n] = TASK_STATE_QUEUED /\ job[n] = "none" /\ starts[n] = 0
  /\ \E result \in { "running", "completed", "failed", "none" } : job' = [job EXCEPT ![n] = result]
  /\ starts' = [starts EXCEPT ![n] = 1]
  /\ UNCHANGED state

\* The job may end before the task says that it started.
End(n) ==
  /\ state[n] \in { TASK_STATE_QUEUED, TASK_STATE_STARTED } /\ job[n] = "running"
  /\ \E result \in { "completed", "failed", "unknown" } : job' = [job EXCEPT ![n] = result]
  /\ UNCHANGED << state, starts >>

\* Skipped: completed without a job.
Skip(n) ==
  /\ state[n] = TASK_STATE_QUEUED /\ starts[n] = 0
  /\ Becomes(n, TASK_STATE_COMPLETED)
  /\ UNCHANGED << job, starts >>

Start(n) ==
  /\ state[n] = TASK_STATE_QUEUED /\ starts[n] = 1 /\ job[n] # "none"
  /\ Becomes(n, TASK_STATE_STARTED)
  /\ UNCHANGED << job, starts >>

FailToStart(n) ==
  /\ state[n] = TASK_STATE_QUEUED /\ starts[n] = 1 /\ job[n] = "none"
  /\ Becomes(n, TASK_STATE_START_ERROR)
  /\ UNCHANGED << job, starts >>

Complete(n) ==
  /\ state[n] = TASK_STATE_STARTED /\ job[n] = "completed"
  /\ Becomes(n, TASK_STATE_COMPLETED)
  /\ UNCHANGED << job, starts >>

\* What a task whose job failed is recorded as: FAILED by model/task.ts:38-40, and
\* COMPLETE_ERROR by the code (combined.ts:320), which the model keeps for the next case.
Failures == { TASK_STATE_FAILED, TASK_STATE_COMPLETE_ERROR }

Fail(n) ==
  /\ state[n] = TASK_STATE_STARTED /\ job[n] = "failed"
  /\ \E failure \in Failures : Becomes(n, failure)
  /\ UNCHANGED << job, starts >>

\* What became of the job cannot be told (model/task.ts:31-36).
LoseStatus(n) ==
  /\ state[n] = TASK_STATE_STARTED /\ job[n] = "unknown"
  /\ Becomes(n, TASK_STATE_COMPLETE_ERROR)
  /\ UNCHANGED << job, starts >>

\* Only a finished task is deleted; its job may be remembered for a late notice.
Delete(n) ==
  /\ state[n] \in FinishedTaskStates
  /\ Becomes(n, TASK_ABSENT)
  /\ job' = [job EXCEPT ![n] = "none"] \/ UNCHANGED job
  /\ starts' = [starts EXCEPT ![n] = 0]

LifeNext ==
  \E n \in Names :
    \/ Create(n) \/ Enqueue(n) \/ Launch(n) \/ End(n) \/ Skip(n) \/ Start(n)
    \/ FailToStart(n) \/ Complete(n) \/ Fail(n) \/ LoseStatus(n) \/ Delete(n)

LifeSpec == LifeInit /\ [][LifeNext]_life

==============================================================================
