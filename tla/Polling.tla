------------------------------- MODULE Polling -------------------------------
(***************************************************************************)
(* The background work of one scheduler instance: the poll loops            *)
(* (strategies/poll.ts), the handlers that their events begin and that      *)
(* wait for a lease (runUpdateInLease), and the timers of both, kept by     *)
(* PollingCallback (basics.ts), which can be stopped.                       *)
(*                                                                         *)
(* A step is one turn of the event loop: it runs until the next timer or    *)
(* the next answer of the store.                                           *)
(***************************************************************************)
EXTENDS Integers, FiniteSets, Sequences

CONSTANTS
  None,           \* no callback under this id
  Loops,          \* calls of pollLoop
  Workers,        \* handlers begun by the events of a poll
  PollTimes,      \* what the poll strategy generates: seconds from poll to poll
  RetryDelays,    \* retrySecondsDelay
  WaitSeconds,    \* timeoutSeconds of stopAndWait
  MaxCallbacks    \* bound: callbacks registered at once

ASSUME PollingAssumption ==
  /\ Loops \cap Workers = {}
  /\ PollTimes \in Seq(Nat) /\ PollTimes # << >>
  /\ RetryDelays \in Seq(Nat)
  /\ WaitSeconds \in Nat
  /\ MaxCallbacks \in Nat
  /\ None \notin [ owner : Loops \cup Workers, left : Nat ]

VARIABLES
  active,             \* isActive
  runningCallbacks,   \* by id, who registered the callback and the seconds left
  loop,               \* each poll loop
  worker,             \* each handler
  waiter              \* the call of stopAndWait

vars == << active, runningCallbacks, loop, worker, waiter >>

Ids == 1..MaxCallbacks
Registered == { i \in Ids : runningCallbacks[i] # None }
activeCount == Cardinality(Registered)

------------------------------------------------------------------------------
(* PollingCallback *)

\* registerPollCallback.  Ids are fresh; an id is used again once it is deleted.
\* A stopped instance ignores the request.
MutRegisterAlways(owner, seconds) ==
  \E i \in Ids \ Registered :
     runningCallbacks' = [runningCallbacks EXCEPT ![i] = [ owner |-> owner, left |-> seconds ]]
registerPollCallback(owner, seconds) ==
  IF active
  THEN \E i \in Ids \ Registered :
         /\ \A j \in 1..(i - 1) : j \in Registered
         /\ runningCallbacks' =
              [runningCallbacks EXCEPT ![i] = [ owner |-> owner, left |-> seconds ]]
  ELSE UNCHANGED runningCallbacks

MutIndexGrows(p) ==
  [ state |-> "polling", index |-> p.index + 1, delay |-> PollTimes[(p.index % Len(PollTimes)) + 1] ]
\* pollCallback: takes the next poll time and asks the store.
NextPoll(p) ==
  LET next == p.index % Len(PollTimes)
  IN [ state |-> "polling", index |-> next + 1, delay |-> PollTimes[next + 1] ]

MutInterval(i) ==
  /\ i \in Registered
  /\ runningCallbacks[i].left = 0
  /\ LET owner == runningCallbacks[i].owner
     IN /\ loop' = IF active /\ owner \in Loops
                   THEN [loop EXCEPT ![owner] = NextPoll(@)] ELSE loop
        /\ worker' = IF owner \in Workers
                     THEN [worker EXCEPT ![owner].state = IF active THEN "leasing" ELSE "unsettled"]
                     ELSE worker
  /\ runningCallbacks' = [runningCallbacks EXCEPT ![i].left = 1]
  /\ UNCHANGED << active, waiter >>
\* The timer of callback i.  A retry that is not called leaves its handler with a
\* promise that never settles.
Fire(i) ==
  /\ i \in Registered
  /\ runningCallbacks[i].left = 0
  /\ LET owner == runningCallbacks[i].owner
     IN /\ loop' = IF active /\ owner \in Loops
                   THEN [loop EXCEPT ![owner] = NextPoll(@)] ELSE loop
        /\ worker' = IF owner \in Workers
                     THEN [worker EXCEPT ![owner].state = IF active THEN "leasing" ELSE "unsettled"]
                     ELSE worker
  /\ runningCallbacks' = [runningCallbacks EXCEPT ![i] = None]
  /\ UNCHANGED << active, waiter >>

Stop ==
  /\ active
  /\ active' = FALSE
  /\ UNCHANGED << runningCallbacks, loop, worker, waiter >>

MutGiveUpEarly(elapsed) ==
  IF activeCount = 0 THEN waiter' = [ state |-> "resolved", elapsed |-> 0, left |-> 0 ]
  ELSE \/ /\ elapsed >= WaitSeconds - 1
          /\ waiter' = [ state |-> "rejected", elapsed |-> 0, left |-> 0 ]
       \/ /\ elapsed < WaitSeconds
          /\ waiter' = [ state |-> "waiting", elapsed |-> elapsed, left |-> 1 ]
\* tryIt: the time is compared in milliseconds, so that in the second of the timeout
\* either answer is possible.
TryIt(elapsed) ==
  IF activeCount = 0 THEN waiter' = [ state |-> "resolved", elapsed |-> 0, left |-> 0 ]
  ELSE \/ /\ elapsed >= WaitSeconds
          /\ waiter' = [ state |-> "rejected", elapsed |-> 0, left |-> 0 ]
       \/ /\ elapsed <= WaitSeconds
          /\ waiter' = [ state |-> "waiting", elapsed |-> elapsed, left |-> 1 ]

StopAndWait ==
  /\ waiter.state = "none"
  /\ active' = FALSE
  /\ TryIt(0)
  /\ UNCHANGED << runningCallbacks, loop, worker >>

MutTryOnce == FALSE
TryAgain ==
  /\ waiter.state = "waiting"
  /\ waiter.left = 0
  /\ TryIt(waiter.elapsed)
  /\ UNCHANGED << active, runningCallbacks, loop, worker >>

------------------------------------------------------------------------------
(* The poll loops *)

\* pollLoop asks the store at once, active or not.
StartLoop(p) ==
  /\ loop[p].state = "off"
  /\ loop' = [loop EXCEPT ![p] = NextPoll(@)]
  /\ UNCHANGED << active, runningCallbacks, worker, waiter >>

\* The store answers, and an event is emitted for each row; or it rejects, which
\* is reported, and nothing begins.  Then the next poll is registered.
MutRegisterWhileTimesLast(p) ==
  /\ loop[p].state = "polling"
  /\ \E begun \in SUBSET { w \in Workers : worker[w].state = "idle" } :
       worker' = [w \in Workers |->
                   IF w \in begun THEN [ state |-> "leasing", attempt |-> 0 ] ELSE worker[w]]
  /\ loop' = [loop EXCEPT ![p].state = "resting"]
  /\ IF loop[p].index < Len(PollTimes)
     THEN registerPollCallback(p, loop[p].delay) ELSE UNCHANGED runningCallbacks
  /\ UNCHANGED << active, waiter >>
PollSettles(p) ==
  /\ loop[p].state = "polling"
  /\ \E begun \in SUBSET { w \in Workers : worker[w].state = "idle" } :
       worker' = [w \in Workers |->
                   IF w \in begun THEN [ state |-> "leasing", attempt |-> 0 ] ELSE worker[w]]
  /\ loop' = [loop EXCEPT ![p].state = "resting"]
  /\ registerPollCallback(p, loop[p].delay)
  /\ UNCHANGED << active, waiter >>

------------------------------------------------------------------------------
(* The handlers, as far as they use the timers *)

MutRetryNotCounted(w) ==
  /\ worker[w].state = "leasing"
  /\ IF RetryDelays # << >>
     THEN /\ worker' = [worker EXCEPT ![w] =
                         [ state |-> IF active THEN "waiting" ELSE "unsettled", attempt |-> 1 ]]
          /\ registerPollCallback(w, RetryDelays[1])
     ELSE worker' = [worker EXCEPT ![w].state = "idle"] /\ UNCHANGED runningCallbacks
  /\ UNCHANGED << active, loop, waiter >>
\* The lease was refused: wait and try again, or end.
LeaseRefused(w) ==
  /\ worker[w].state = "leasing"
  /\ LET n == worker[w].attempt + 1
     IN IF n <= Len(RetryDelays)
        THEN /\ worker' = [worker EXCEPT ![w] =
                            [ state |-> IF active THEN "waiting" ELSE "unsettled", attempt |-> n ]]
             /\ registerPollCallback(w, RetryDelays[n])
        ELSE /\ worker' = [worker EXCEPT ![w].state = "idle"]
             /\ UNCHANGED runningCallbacks
  /\ UNCHANGED << active, loop, waiter >>

LeaseTaken(w) ==
  /\ worker[w].state = "leasing"
  /\ worker' = [worker EXCEPT ![w].state = "working"]
  /\ UNCHANGED << active, runningCallbacks, loop, waiter >>

WorkEnds(w) ==
  /\ worker[w].state = "working"
  /\ worker' = [worker EXCEPT ![w].state = "idle"]
  /\ UNCHANGED << active, runningCallbacks, loop, waiter >>

------------------------------------------------------------------------------
\* A second passes.  A timer fires in the second in which it is due.
Tick ==
  /\ \A i \in Registered : runningCallbacks[i].left > 0
  /\ waiter.state = "waiting" => waiter.left > 0
  /\ runningCallbacks' = [i \in Ids |->
       IF i \in Registered THEN [runningCallbacks[i] EXCEPT !.left = @ - 1] ELSE None]
  /\ waiter' = IF waiter.state = "waiting"
               THEN [ state |-> "waiting", elapsed |-> waiter.elapsed + 1, left |-> waiter.left - 1 ]
               ELSE waiter
  /\ UNCHANGED << active, loop, worker >>

Init ==
  /\ active = TRUE
  /\ runningCallbacks = [i \in Ids |-> None]
  /\ loop = [p \in Loops |-> [ state |-> "off", index |-> 0, delay |-> 0 ]]
  /\ worker = [w \in Workers |-> [ state |-> "idle", attempt |-> 0 ]]
  /\ waiter = [ state |-> "none", elapsed |-> 0, left |-> 0 ]

Next ==
  \/ Stop \/ StopAndWait \/ TryAgain \/ Tick
  \/ \E i \in Ids : Fire(i)
  \/ \E p \in Loops : StartLoop(p) \/ PollSettles(p)
  \/ \E w \in Workers : LeaseRefused(w) \/ LeaseTaken(w) \/ WorkEnds(w)

Spec == Init /\ [][Next]_vars

\* Time passes, timers fire, and the store settles every call.  Nobody owes a start
\* or a stop.
Fairness ==
  /\ WF_vars(Tick) /\ WF_vars(TryAgain)
  /\ \A i \in Ids : WF_vars(Fire(i))
  /\ \A p \in Loops : WF_vars(PollSettles(p))
  /\ \A w \in Workers : WF_vars(LeaseRefused(w) \/ LeaseTaken(w)) /\ WF_vars(WorkEnds(w))

FairSpec == Spec /\ Fairness

==============================================================================
