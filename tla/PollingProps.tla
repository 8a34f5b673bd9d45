----------------------------- MODULE PollingProps -----------------------------
(***************************************************************************)
(* What the background work of one scheduler instance promises.            *)
(***************************************************************************)
EXTENDS Polling

\* Every variable keeps its type.
PollingTypeOK ==
  /\ active \in BOOLEAN
  /\ runningCallbacks \in [Ids -> [ owner : Loops \cup Workers, left : Nat ] \cup {None}]
  /\ loop \in [Loops -> [ state : {"off", "polling", "resting"},
                          index : 0..Len(PollTimes), delay : Nat ]]
  /\ worker \in [Workers -> [ state : {"idle", "leasing", "waiting", "working", "unsettled"},
                              attempt : 0..Len(RetryDelays) ]]
  /\ waiter \in [ state : {"none", "waiting", "resolved", "rejected"},
                  elapsed : 0..(WaitSeconds + 1), left : 0..1 ]

\* The callbacks that x registered.
CallbacksOf(x) == { i \in Registered : runningCallbacks[i].owner = x }

\* A poll loop that was started has one continuation, a poll in flight or one
\* callback, so that it neither ends nor runs twice; a stop may take it away.
\* A handler has a callback exactly while it waits to retry (pollLoop,
\* registerPollCallback, runUpdateInLease).
LoopContinues ==
  /\ \A p \in Loops :
       LET continuations ==
             Cardinality(CallbacksOf(p)) + IF loop[p].state = "polling" THEN 1 ELSE 0
       IN /\ continuations <= 1
          /\ active /\ loop[p].state # "off" => continuations = 1
  /\ \A w \in Workers :
       Cardinality(CallbacksOf(w)) = IF worker[w].state = "waiting" THEN 1 ELSE 0

\* Once stopAndWait resolved, no callback is registered any more, by whatever was
\* still in flight (stopAndWait, registerPollCallback).
QuietAfterResolve == waiter.state = "resolved" => ~active /\ Registered = {}

LongestDelay ==
  LET delays == { PollTimes[n] : n \in 1..Len(PollTimes) }
                  \cup { RetryDelays[n] : n \in 1..Len(RetryDelays) }
  IN CHOOSE d \in delays : \A e \in delays : e <= d

\* stopAndWait gives up only where some delay is as long as its timeout: otherwise
\* every timer is gone by then (stopAndWait, registerPollCallback).
StopInTime == waiter.state = "rejected" => LongestDelay >= WaitSeconds

\* The timers of the loops and of the handlers, and the stops, implement the abstract
\* drain: whatever is in flight when an instance is stopped, the number of its timers
\* only falls from then on, and a stop that waits is told of it exactly at zero
\* (PollingCallback).
Drain == INSTANCE Draining
           WITH running <- active, timers <- activeCount, answer <- waiter.state

StopDrains == Drain!DrainSpec

\* stopAndWait resolves or rejects in the end.
StopSettles == waiter.state = "waiting" ~> waiter.state \in {"resolved", "rejected"}

\* A loop polls again and again until the instance is stopped (pollLoop).
PollsForever ==
  \A p \in Loops : loop[p].state = "resting" ~> loop[p].state = "polling" \/ ~active

\* A handler that a poll began ends, with the lease or without it, unless the instance
\* is stopped: its retries are counted, and none of its timers is lost.  In a stopped
\* instance it may wait for a retry that never comes (runUpdateInLease,
\* registerPollCallback).
HandlersSettle ==
  \A w \in Workers : worker[w].state # "idle" ~> worker[w].state = "idle" \/ ~active

------------------------------------------------------------------------------
\* "This call will cause all the polling methods to drain out before quitting
\* ... All background activities are complete" (README.md on stopAndWait): when it
\* resolves after a wait, no poll is in flight and no handler that a poll began is
\* at work.
DrainedWhenResolved ==
  [][waiter.state = "waiting" /\ waiter'.state = "resolved" =>
       /\ \A p \in Loops : loop[p].state # "polling"
       /\ \A w \in Workers : worker[w].state \notin {"leasing", "working"}]_vars

==============================================================================
