----------------------------- MODULE MCScheduler -----------------------------
(* The instances of Scheduler that TLC checks. *)
EXTENDS SchedulerLiveness, SchedulerClaims, TLC

NoRetry  == << >>
OneRetry == << 1 >>
NoRetryTask == { None }
RetryTask == { None, 1 }

Names == Permutations(Ops) \cup Permutations(Tasks)
==============================================================================
