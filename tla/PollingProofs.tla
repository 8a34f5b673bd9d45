---------------------------- MODULE PollingProofs ----------------------------
(***************************************************************************)
(* For every number of poll loops, handlers and callbacks: the background   *)
(* work of an instance keeps its types, a stop that resolved is quiet, the  *)
(* loops go on until the stop, a stop gives up only for a long delay, and   *)
(* the timers implement the abstract drain.                                 *)
(*                                                                         *)
(* That a stop is quiet: a call of stopAndWait clears isActive and nothing  *)
(* sets it again; a stopped instance registers nothing; so the count that   *)
(* was zero when the stop resolved stays zero.  For the same reason a       *)
(* callback has no more seconds left than the longest delay without those   *)
(* that the stop has waited.                                                *)
(***************************************************************************)
EXTENDS PollingProps, FiniteSetTheorems, WellFoundedInduction, TLAPS

PInv ==
  /\ PollingTypeOK
  /\ waiter.left = 1 => waiter.elapsed <= WaitSeconds
  /\ waiter.state # "none" => ~active
  /\ waiter.state = "resolved" => Registered = {}

\* The records of a poll loop keep their type.
LEMMA NextPollTyped ==
  ASSUME NEW p, p.index \in 0..Len(PollTimes)
  PROVE  NextPoll(p) \in [ state : {"off", "polling", "resting"},
                           index : 0..Len(PollTimes), delay : Nat ]
<1>1. Len(PollTimes) \in Nat \ {0}
  BY PollingAssumption
<1>2. (p.index % Len(PollTimes)) + 1 \in 1..Len(PollTimes)
  BY <1>1
<1>3. PollTimes[(p.index % Len(PollTimes)) + 1] \in Nat
  BY <1>2, PollingAssumption
<1> QED
  BY <1>2, <1>3, <1>1 DEF NextPoll

\* A registration keeps the type, and a stopped instance registers nothing.
LEMMA RegistrationTyped ==
  ASSUME PollingTypeOK, NEW x \in Loops \cup Workers, NEW s \in Nat,
         registerPollCallback(x, s)
  PROVE  /\ runningCallbacks' \in [Ids -> [ owner : Loops \cup Workers, left : Nat ] \cup {None}]
         /\ ~active => UNCHANGED runningCallbacks
<1>1. CASE active
  <2>1. PICK i \in Ids \ Registered :
          runningCallbacks' = [runningCallbacks EXCEPT ![i] = [ owner |-> x, left |-> s ]]
    BY <1>1 DEF registerPollCallback
  <2> QED
    BY <1>1, <2>1 DEF PollingTypeOK
<1>2. CASE ~active
  BY <1>2 DEF registerPollCallback, PollingTypeOK
<1> QED
  BY <1>1, <1>2

\* A count of zero means that nothing is registered.
LEMMA NothingRegistered == activeCount = 0 <=> Registered = {}
<1>1. IsFiniteSet(Ids)
  BY PollingAssumption, FS_Interval DEF Ids
<1>2. IsFiniteSet(Registered)
  BY <1>1, FS_Subset DEF Registered
<1> QED
  BY <1>2, FS_EmptySet DEF activeCount

\* What one look of stopAndWait at the count can do to the waiting call.
LEMMA TryItSettles ==
  ASSUME NEW e \in 0..(WaitSeconds + 1), TryIt(e)
  PROVE  /\ waiter' \in [ state : {"none", "waiting", "resolved", "rejected"},
                          elapsed : 0..(WaitSeconds + 1), left : 0..1 ]
         /\ waiter'.left = 1 => waiter'.elapsed <= WaitSeconds
         /\ waiter'.state = "resolved" => Registered = {}
<1>0. WaitSeconds \in Nat
  BY PollingAssumption
<1>1. CASE activeCount = 0
  BY <1>0, <1>1, NothingRegistered DEF TryIt
<1>2. CASE activeCount # 0
  BY <1>0, <1>2 DEF TryIt
<1> QED
  BY <1>1, <1>2

LEMMA PInit == Init => PInv
<1> SUFFICES ASSUME Init PROVE PInv
  OBVIOUS
<1>1. WaitSeconds \in Nat /\ Len(PollTimes) \in Nat /\ Len(RetryDelays) \in Nat
  BY PollingAssumption
<1>2. PollingTypeOK
  BY <1>1 DEF Init, PollingTypeOK
<1> QED
  BY <1>2 DEF Init, PInv

LEMMA PStep == PInv /\ [Next]_vars => PInv'
<1> SUFFICES ASSUME PInv, [Next]_vars PROVE PInv'
  OBVIOUS
<1>0. /\ PollingTypeOK
      /\ WaitSeconds \in Nat /\ Len(PollTimes) \in Nat \ {0} /\ Len(RetryDelays) \in Nat
  BY PollingAssumption DEF PInv
<1>1. CASE Stop
  BY <1>0, <1>1 DEF Stop, PInv, PollingTypeOK, Registered
<1>2. CASE StopAndWait
  <2>1. TryIt(0) /\ active' = FALSE /\ UNCHANGED << runningCallbacks, loop, worker >>
    BY <1>2 DEF StopAndWait
  <2>2. /\ waiter' \in [ state : {"none", "waiting", "resolved", "rejected"},
                         elapsed : 0..(WaitSeconds + 1), left : 0..1 ]
        /\ waiter'.left = 1 => waiter'.elapsed <= WaitSeconds
        /\ waiter'.state = "resolved" => Registered = {}
    BY <1>0, <2>1, TryItSettles
  <2> QED
    BY <1>0, <2>1, <2>2 DEF PInv, PollingTypeOK, Registered
<1>3. CASE TryAgain
  <2>1. TryIt(waiter.elapsed) /\ UNCHANGED << active, runningCallbacks, loop, worker >>
    BY <1>3 DEF TryAgain
  <2>2. /\ waiter' \in [ state : {"none", "waiting", "resolved", "rejected"},
                         elapsed : 0..(WaitSeconds + 1), left : 0..1 ]
        /\ waiter'.left = 1 => waiter'.elapsed <= WaitSeconds
        /\ waiter'.state = "resolved" => Registered = {}
    BY <1>0, <2>1, TryItSettles DEF PollingTypeOK
  <2>3. ~active
    BY <1>3 DEF TryAgain, PInv
  <2> QED
    BY <1>0, <2>1, <2>2, <2>3 DEF PInv, PollingTypeOK, Registered
<1>4. CASE Tick
  <2>1. runningCallbacks' \in [Ids -> [ owner : Loops \cup Workers, left : Nat ] \cup {None}]
    <3>1. \A i \in Registered : /\ runningCallbacks[i] \in [ owner : Loops \cup Workers, left : Nat ]
                                /\ runningCallbacks[i].left > 0
      BY <1>0, <1>4 DEF Tick, PollingTypeOK, Registered
    <3>2. \A i \in Registered :
            [runningCallbacks[i] EXCEPT !.left = @ - 1] \in [ owner : Loops \cup Workers, left : Nat ]
      BY <3>1
    <3> QED
      BY <1>4, <3>2 DEF Tick
  <2>2. Registered = {} => Registered' = {}
    BY <1>4 DEF Tick, Registered
  <2>3. /\ waiter' \in [ state : {"none", "waiting", "resolved", "rejected"},
                         elapsed : 0..(WaitSeconds + 1), left : 0..1 ]
        /\ waiter'.left = 1 => waiter'.elapsed <= WaitSeconds
        /\ waiter'.state = waiter.state
    <3>1. CASE waiter.state = "waiting"
      <4>1. waiter.left = 1 /\ waiter.elapsed \in 0..WaitSeconds
        BY <1>0, <1>4, <3>1 DEF Tick, PInv, PollingTypeOK
      <4>2. waiter' = [ state |-> "waiting", elapsed |-> waiter.elapsed + 1,
                       left |-> waiter.left - 1 ]
        BY <1>4, <3>1 DEF Tick
      <4>3. waiter.elapsed + 1 \in 0..(WaitSeconds + 1) /\ waiter.left - 1 = 0
        BY <1>0, <4>1
      <4> QED
        BY <3>1, <4>2, <4>3
    <3>2. CASE waiter.state # "waiting"
      BY <1>0, <1>4, <3>2 DEF Tick, PInv, PollingTypeOK
    <3> QED
      BY <3>1, <3>2
  <2>4. UNCHANGED << active, loop, worker >>
    BY <1>4 DEF Tick
  <2> QED
    BY <1>0, <2>1, <2>2, <2>3, <2>4 DEF PInv, PollingTypeOK
<1>5. ASSUME NEW i \in Ids, Fire(i) PROVE PInv'
  <2> DEFINE owner == runningCallbacks[i].owner
  <2>1. /\ i \in Registered
        /\ owner \in Loops \cup Workers
        /\ runningCallbacks' = [runningCallbacks EXCEPT ![i] = None]
        /\ UNCHANGED << active, waiter >>
        /\ loop' = IF active /\ owner \in Loops THEN [loop EXCEPT ![owner] = NextPoll(@)] ELSE loop
        /\ worker' = IF owner \in Workers
                     THEN [worker EXCEPT ![owner].state = IF active THEN "leasing" ELSE "unsettled"]
                     ELSE worker
    BY <1>0, <1>5 DEF Fire, PollingTypeOK, Registered
  <2> HIDE DEF owner
  <2>2. loop' \in [Loops -> [ state : {"off", "polling", "resting"},
                              index : 0..Len(PollTimes), delay : Nat ]]
    <3>1. CASE active /\ owner \in Loops
      <4>1. NextPoll(loop[owner]) \in [ state : {"off", "polling", "resting"},
                                        index : 0..Len(PollTimes), delay : Nat ]
        BY <1>0, <3>1, NextPollTyped DEF PollingTypeOK
      <4> QED
        BY <1>0, <2>1, <3>1, <4>1 DEF PollingTypeOK
    <3> QED
      BY <1>0, <2>1, <3>1 DEF PollingTypeOK
  <2>3. worker' \in [Workers -> [ state : {"idle", "leasing", "waiting", "working", "unsettled"},
                                  attempt : 0..Len(RetryDelays) ]]
    BY <1>0, <2>1 DEF PollingTypeOK
  <2>4. runningCallbacks' \in [Ids -> [ owner : Loops \cup Workers, left : Nat ] \cup {None}]
    BY <1>0, <2>1 DEF PollingTypeOK
  <2>5. waiter.state # "resolved"
    BY <2>1 DEF PInv
  <2> QED
    BY <1>0, <2>1, <2>2, <2>3, <2>4, <2>5 DEF PInv, PollingTypeOK
<1>6. ASSUME NEW p \in Loops, StartLoop(p) PROVE PInv'
  <2>1. NextPoll(loop[p]) \in [ state : {"off", "polling", "resting"},
                                index : 0..Len(PollTimes), delay : Nat ]
    BY <1>0, NextPollTyped DEF PollingTypeOK
  <2> QED
    BY <1>0, <1>6, <2>1 DEF StartLoop, PInv, PollingTypeOK, Registered
<1>7. ASSUME NEW p \in Loops, PollSettles(p) PROVE PInv'
  <2>1. /\ registerPollCallback(p, loop[p].delay)
        /\ loop[p].delay \in Nat
        /\ loop' = [loop EXCEPT ![p].state = "resting"]
        /\ UNCHANGED << active, waiter >>
    BY <1>0, <1>7 DEF PollSettles, PollingTypeOK
  <2>2. /\ runningCallbacks' \in [Ids -> [ owner : Loops \cup Workers, left : Nat ] \cup {None}]
        /\ ~active => UNCHANGED runningCallbacks
    BY <1>0, <2>1, RegistrationTyped
  <2>3. worker' \in [Workers -> [ state : {"idle", "leasing", "waiting", "working", "unsettled"},
                                  attempt : 0..Len(RetryDelays) ]]
    BY <1>0, <1>7 DEF PollSettles, PollingTypeOK
  <2>4. loop' \in [Loops -> [ state : {"off", "polling", "resting"},
                              index : 0..Len(PollTimes), delay : Nat ]]
    BY <1>0, <2>1 DEF PollingTypeOK
  <2>5. ~active => Registered' = Registered
    BY <2>2 DEF Registered
  <2> QED
    BY <1>0, <2>1, <2>2, <2>3, <2>4, <2>5 DEF PInv, PollingTypeOK
<1>8. ASSUME NEW w \in Workers, LeaseRefused(w) PROVE PInv'
  <2> DEFINE n == worker[w].attempt + 1
  <2>1. n \in Nat \ {0} /\ UNCHANGED << active, loop, waiter >>
    BY <1>0, <1>8 DEF LeaseRefused, PollingTypeOK
  <2>2. CASE n <= Len(RetryDelays)
    <3>1. /\ worker' = [worker EXCEPT ![w] =
                         [ state |-> IF active THEN "waiting" ELSE "unsettled", attempt |-> n ]]
          /\ registerPollCallback(w, RetryDelays[n])
      BY <1>8, <2>2 DEF LeaseRefused
    <3>2. RetryDelays[n] \in Nat /\ n \in 0..Len(RetryDelays)
      BY <1>0, <2>1, <2>2, PollingAssumption
    <3>3. /\ runningCallbacks' \in [Ids -> [ owner : Loops \cup Workers, left : Nat ] \cup {None}]
          /\ ~active => UNCHANGED runningCallbacks
      BY <1>0, <3>1, <3>2, RegistrationTyped
    <3>4. ~active => Registered' = Registered
      BY <3>3 DEF Registered
    <3>5. worker' \in [Workers -> [ state : {"idle", "leasing", "waiting", "working", "unsettled"},
                                    attempt : 0..Len(RetryDelays) ]]
      BY <1>0, <3>1, <3>2 DEF PollingTypeOK
    <3> QED
      BY <1>0, <2>1, <3>3, <3>4, <3>5 DEF PInv, PollingTypeOK
  <2>3. CASE ~(n <= Len(RetryDelays))
    <3>1. worker' = [worker EXCEPT ![w].state = "idle"] /\ UNCHANGED runningCallbacks
      BY <1>8, <2>3 DEF LeaseRefused
    <3> QED
      BY <1>0, <2>1, <3>1 DEF PInv, PollingTypeOK, Registered
  <2> QED
    BY <2>2, <2>3
<1>9. ASSUME NEW w \in Workers, LeaseTaken(w) \/ WorkEnds(w) PROVE PInv'
  <2>1. PICK s \in {"working", "idle"} : worker' = [worker EXCEPT ![w].state = s]
    BY <1>9 DEF LeaseTaken, WorkEnds
  <2>2. worker' \in [Workers -> [ state : {"idle", "leasing", "waiting", "working", "unsettled"},
                                  attempt : 0..Len(RetryDelays) ]]
    BY <1>0, <2>1 DEF PollingTypeOK
  <2>3. UNCHANGED << active, runningCallbacks, loop, waiter >>
    BY <1>9 DEF LeaseTaken, WorkEnds
  <2> QED
    BY <1>0, <2>2, <2>3 DEF PInv, PollingTypeOK, Registered
<1>10. CASE UNCHANGED vars
  BY <1>0, <1>10 DEF vars, PInv, PollingTypeOK, Registered
<1> QED
  BY <1>1, <1>2, <1>3, <1>4, <1>5, <1>6, <1>7, <1>8, <1>9, <1>10 DEF Next

\* In every behaviour every variable of the background work keeps its type.
THEOREM PollingTypeCorrect == Spec => []PollingTypeOK
<1>1. PInv => PollingTypeOK
  BY DEF PInv
<1> QED
  BY PInit, PStep, <1>1, PTL DEF Spec

\* Whatever polls and handlers are in flight when a stop resolves, no callback is
\* registered ever after (stopAndWait, registerPollCallback).
THEOREM StoppedIsQuiet == Spec => []QuietAfterResolve
<1>1. PInv => QuietAfterResolve
  BY DEF PInv, QuietAfterResolve
<1> QED
  BY PInit, PStep, <1>1, PTL DEF Spec

LEMMA AlwaysPInv == Spec => []PInv
  BY PInit, PStep, PTL DEF Spec

------------------------------------------------------------------------------
(* One continuation of each loop                                           *)

\* A loop between two polls waits for its callback, and has none while it polls.
OneContinuation(p) ==
  /\ \A i, j \in CallbacksOf(p) : i = j
  /\ loop[p].state # "resting" => CallbacksOf(p) = {}
  /\ active /\ loop[p].state = "resting" => CallbacksOf(p) # {}

OneRetryTimer(w) ==
  /\ \A i, j \in CallbacksOf(w) : i = j
  /\ worker[w].state = "waiting" <=> CallbacksOf(w) # {}

Continuations ==
  /\ \A p \in Loops : OneContinuation(p)
  /\ \A w \in Workers : OneRetryTimer(w)

\* What a registration does to the callbacks of each owner.
LEMMA RegistrationAddsOne ==
  ASSUME PollingTypeOK, NEW x \in Loops \cup Workers, NEW s \in Nat,
         registerPollCallback(x, s)
  PROVE  /\ ~active => \A y \in Loops \cup Workers : CallbacksOf(y)' = CallbacksOf(y)
         /\ active => /\ \A y \in (Loops \cup Workers) \ {x} : CallbacksOf(y)' = CallbacksOf(y)
                      /\ \E i \in Ids : CallbacksOf(x)' = CallbacksOf(x) \cup {i}
<1>1. CASE active
  <2>1. PICK i \in Ids \ Registered :
          runningCallbacks' = [runningCallbacks EXCEPT ![i] = [ owner |-> x, left |-> s ]]
    BY <1>1 DEF registerPollCallback
  <2>2. [ owner |-> x, left |-> s ] # None
    BY PollingAssumption
  <2>3. /\ runningCallbacks'[i] = [ owner |-> x, left |-> s ]
        /\ \A j \in Ids \ {i} : runningCallbacks'[j] = runningCallbacks[j]
    BY <2>1 DEF PollingTypeOK
  <2>4. Registered' = Registered \cup {i} /\ i \notin Registered
    BY <2>1, <2>2, <2>3 DEF Registered
  <2>5. \A y \in Loops \cup Workers :
          CallbacksOf(y)' = IF y = x THEN CallbacksOf(y) \cup {i} ELSE CallbacksOf(y)
    <3> SUFFICES ASSUME NEW y \in Loops \cup Workers
                 PROVE CallbacksOf(y)' = IF y = x THEN CallbacksOf(y) \cup {i} ELSE CallbacksOf(y)
      OBVIOUS
    <3>1. \A j \in Registered : runningCallbacks'[j] = runningCallbacks[j]
      BY <2>3, <2>4 DEF Registered
    <3>2. \A j : j \in Registered' /\ runningCallbacks'[j].owner = y
                 <=> (j \in Registered /\ runningCallbacks[j].owner = y) \/ (y = x /\ j = i)
      BY <2>3, <2>4, <3>1
    <3> QED
      BY <3>2 DEF CallbacksOf
  <2> QED
    BY <1>1, <2>1, <2>5
<1>2. CASE ~active
  BY <1>2 DEF registerPollCallback, CallbacksOf, Registered
<1> QED
  BY <1>1, <1>2

\* Time does not register anything, and takes nothing away.
LEMMA TickKeepsCallbacks ==
  ASSUME PollingTypeOK, Tick
  PROVE  /\ Registered' = Registered
         /\ \A i \in Registered :
              /\ runningCallbacks[i].left \in Nat /\ runningCallbacks[i].left > 0
              /\ runningCallbacks'[i].owner = runningCallbacks[i].owner
              /\ runningCallbacks'[i].left = runningCallbacks[i].left - 1
<1>1. \A i \in Registered :
        /\ runningCallbacks[i] \in [ owner : Loops \cup Workers, left : Nat ]
        /\ runningCallbacks[i].left > 0
  BY DEF Tick, PollingTypeOK, Registered
<1>2. \A i \in Registered :
        /\ runningCallbacks'[i] = [runningCallbacks[i] EXCEPT !.left = @ - 1]
        /\ runningCallbacks'[i] \in [ owner : Loops \cup Workers, left : Nat ]
  BY <1>1 DEF Tick, Registered
<1>3. \A i \in Ids \ Registered : runningCallbacks'[i] = None
  BY DEF Tick
<1>4. Registered' = Registered
  BY <1>2, <1>3, PollingAssumption DEF Registered
<1> QED
  BY <1>1, <1>2, <1>4

\* A timer that fires is gone, and no other changes.
LEMMA FireTakesOne ==
  ASSUME PollingTypeOK, NEW i \in Ids, Fire(i)
  PROVE  /\ i \in Registered /\ Registered' = Registered \ {i}
         /\ \A j \in Registered \ {i} : runningCallbacks'[j] = runningCallbacks[j]
         /\ \A y : CallbacksOf(y)' = CallbacksOf(y) \ {i}
<1>1. i \in Registered /\ runningCallbacks' = [runningCallbacks EXCEPT ![i] = None]
  BY DEF Fire
<1>2. /\ runningCallbacks'[i] = None
      /\ \A j \in Ids \ {i} : runningCallbacks'[j] = runningCallbacks[j]
  BY <1>1 DEF PollingTypeOK
<1>3. Registered' = Registered \ {i}
  BY <1>2 DEF Registered
<1>4. \A j \in Registered \ {i} : runningCallbacks'[j] = runningCallbacks[j]
  BY <1>2 DEF Registered
<1>5. ASSUME NEW y PROVE CallbacksOf(y)' = CallbacksOf(y) \ {i}
  BY <1>3, <1>4 DEF CallbacksOf
<1> QED
  BY <1>1, <1>3, <1>4, <1>5

\* A step that leaves the callbacks alone and changes the states of loops and
\* handlers only where no callback is due.
LEMMA NoTimerKeeps ==
  ASSUME Continuations, \A y \in Loops \cup Workers : CallbacksOf(y)' = CallbacksOf(y),
         active' => active,
         \A p \in Loops : (loop'[p].state = loop[p].state)
                         \/ (loop[p].state = "off" /\ loop'[p].state = "polling"),
         \A w \in Workers : worker'[w].state = "waiting" <=> worker[w].state = "waiting"
  PROVE  Continuations'
<1>1. ASSUME NEW p \in Loops PROVE OneContinuation(p)'
  BY DEF Continuations, OneContinuation
<1>2. ASSUME NEW w \in Workers PROVE OneRetryTimer(w)'
  BY DEF Continuations, OneRetryTimer
<1> QED
  BY <1>1, <1>2 DEF Continuations

LEMMA ContinuationsInit == Init => Continuations
<1> SUFFICES ASSUME Init PROVE Continuations
  OBVIOUS
<1>1. Registered = {}
  BY DEF Init, Registered
<1>2. \A y \in Loops \cup Workers : CallbacksOf(y) = {}
  BY <1>1 DEF CallbacksOf
<1> QED
  BY <1>2 DEF Init, Continuations, OneContinuation, OneRetryTimer

LEMMA PollSettlesContinues ==
  ASSUME PollingTypeOK, Continuations, NEW p \in Loops, PollSettles(p)
  PROVE  Continuations'
<1>1. /\ loop[p].state = "polling" /\ loop[p].delay \in Nat /\ active' = active
      /\ loop'[p].state = "resting"
      /\ \A q \in Loops \ {p} : loop'[q] = loop[q]
      /\ registerPollCallback(p, loop[p].delay)
  BY DEF PollSettles, PollingTypeOK
<1>2. \A w \in Workers : worker'[w].state = "waiting" <=> worker[w].state = "waiting"
  BY DEF PollSettles
<1>3. \A y \in (Loops \cup Workers) \ {p} : CallbacksOf(y)' = CallbacksOf(y)
  BY <1>1, RegistrationAddsOne
<1>4. CallbacksOf(p) = {}
  BY <1>1 DEF Continuations, OneContinuation
<1>5. /\ \A i, j \in CallbacksOf(p)' : i = j
      /\ active' => CallbacksOf(p)' # {}
  BY <1>1, <1>4, RegistrationAddsOne
<1>6. ASSUME NEW q \in Loops PROVE OneContinuation(q)'
  BY <1>1, <1>3, <1>5 DEF Continuations, OneContinuation
<1>7. ASSUME NEW w \in Workers PROVE OneRetryTimer(w)'
  <2>1. w # p
    BY PollingAssumption
  <2> QED
    BY <1>2, <1>3, <2>1 DEF Continuations, OneRetryTimer
<1> QED
  BY <1>6, <1>7 DEF Continuations

LEMMA LeaseRefusedContinues ==
  ASSUME PollingTypeOK, Continuations, NEW w \in Workers, LeaseRefused(w)
  PROVE  Continuations'
<1> DEFINE n == worker[w].attempt + 1
<1>1. /\ worker[w].state = "leasing" /\ UNCHANGED << active, loop >>
      /\ n \in Nat \ {0} /\ Len(RetryDelays) \in Nat
  BY PollingAssumption DEF LeaseRefused, PollingTypeOK
<1>2. CASE n <= Len(RetryDelays)
  <2>1. /\ worker'[w].state = IF active THEN "waiting" ELSE "unsettled"
        /\ \A v \in Workers \ {w} : worker'[v] = worker[v]
        /\ registerPollCallback(w, RetryDelays[n])
    BY <1>2 DEF LeaseRefused, PollingTypeOK
  <2>2. RetryDelays[n] \in Nat
    BY <1>1, <1>2, PollingAssumption
  <2>3. \A y \in (Loops \cup Workers) \ {w} : CallbacksOf(y)' = CallbacksOf(y)
    BY <2>1, <2>2, RegistrationAddsOne
  <2>4. CallbacksOf(w) = {}
    BY <1>1 DEF Continuations, OneRetryTimer
  <2>5. /\ \A i, j \in CallbacksOf(w)' : i = j
        /\ active <=> CallbacksOf(w)' # {}
    BY <2>1, <2>2, <2>4, RegistrationAddsOne
  <2>6. ASSUME NEW q \in Loops PROVE OneContinuation(q)'
    <3>1. q # w
      BY PollingAssumption
    <3> QED
      BY <1>1, <2>3, <3>1 DEF Continuations, OneContinuation
  <2>7. ASSUME NEW v \in Workers PROVE OneRetryTimer(v)'
    BY <2>1, <2>3, <2>5 DEF Continuations, OneRetryTimer
  <2> QED
    BY <2>6, <2>7 DEF Continuations
<1>3. CASE ~(n <= Len(RetryDelays))
  <2>1. worker' = [worker EXCEPT ![w].state = "idle"] /\ UNCHANGED runningCallbacks
    BY <1>3 DEF LeaseRefused
  <2>2. \A y \in Loops \cup Workers : CallbacksOf(y)' = CallbacksOf(y)
    BY <2>1 DEF CallbacksOf, Registered
  <2>3. \A v \in Workers : worker'[v].state = "waiting" <=> worker[v].state = "waiting"
    BY <1>1, <2>1 DEF PollingTypeOK
  <2> QED
    BY <1>1, <2>2, <2>3, NoTimerKeeps
<1> QED
  BY <1>2, <1>3

LEMMA FireContinues ==
  ASSUME PollingTypeOK, Continuations, NEW i \in Ids, Fire(i)
  PROVE  Continuations'
<1>0. PICK x \in Loops \cup Workers : x = runningCallbacks[i].owner
  BY FireTakesOne DEF PollingTypeOK, Registered
<1>1. i \in Registered /\ i \in CallbacksOf(x)
  BY <1>0, FireTakesOne DEF CallbacksOf
<1>2. /\ CallbacksOf(x)' = CallbacksOf(x) \ {i}
      /\ \A y \in (Loops \cup Workers) \ {x} : CallbacksOf(y)' = CallbacksOf(y)
  <2>1. \A y \in (Loops \cup Workers) \ {x} : i \notin CallbacksOf(y)
    BY <1>0 DEF CallbacksOf
  <2>2. \A y \in Loops \cup Workers : CallbacksOf(y)' = CallbacksOf(y) \ {i}
    BY FireTakesOne, Zenon
  <2> QED
    BY <1>1, <2>1, <2>2
<1>3. \A j, k \in CallbacksOf(x) : j = k
  BY <1>1 DEF Continuations, OneContinuation, OneRetryTimer
<1>4. CallbacksOf(x)' = {}
  BY <1>1, <1>2, <1>3
<1>5. active' = active
  BY DEF Fire
<1>6. ASSUME NEW p \in Loops PROVE OneContinuation(p)'
  <2>1. CASE p = x /\ active
    <3>1. loop'[p].state = "polling"
      BY <1>0, <2>1 DEF Fire, NextPoll, PollingTypeOK
    <3> QED
      BY <1>4, <2>1, <3>1 DEF OneContinuation
  <2>2. CASE p = x /\ ~active
    BY <1>4, <1>5, <2>2 DEF OneContinuation
  <2>3. CASE p # x
    <3>1. loop'[p] = loop[p]
      BY <1>0, <2>3 DEF Fire, PollingTypeOK
    <3> QED
      BY <1>2, <1>5, <2>3, <3>1 DEF Continuations, OneContinuation
  <2> QED
    BY <2>1, <2>2, <2>3
<1>7. ASSUME NEW w \in Workers PROVE OneRetryTimer(w)'
  <2>1. CASE w = x
    <3>1. worker'[w].state \in {"leasing", "unsettled"}
      BY <1>0, <2>1 DEF Fire, PollingTypeOK
    <3> QED
      BY <1>4, <2>1, <3>1 DEF OneRetryTimer
  <2>2. CASE w # x
    <3>1. worker'[w] = worker[w]
      BY <1>0, <2>2 DEF Fire, PollingTypeOK
    <3> QED
      BY <1>2, <2>2, <3>1 DEF Continuations, OneRetryTimer
  <2> QED
    BY <2>1, <2>2
<1> QED
  BY <1>6, <1>7 DEF Continuations

LEMMA ContinuationsStep == PInv /\ Continuations /\ [Next]_vars => Continuations'
<1> SUFFICES ASSUME PInv, Continuations, [Next]_vars PROVE Continuations'
  OBVIOUS
<1>0. PollingTypeOK
  BY DEF PInv
<1>1. CASE Stop \/ StopAndWait \/ TryAgain \/ UNCHANGED vars
  <2>1. (active' => active) /\ UNCHANGED << runningCallbacks, loop, worker >>
    BY <1>1 DEF Stop, StopAndWait, TryAgain, vars
  <2>2. \A y \in Loops \cup Workers : CallbacksOf(y)' = CallbacksOf(y)
    BY <2>1 DEF CallbacksOf, Registered
  <2> QED
    BY <2>1, <2>2, NoTimerKeeps
<1>2. CASE Tick
  <2>1. UNCHANGED << active, loop, worker >>
    BY <1>2 DEF Tick
  <2>2. \A y \in Loops \cup Workers : CallbacksOf(y)' = CallbacksOf(y)
    BY <1>0, <1>2, TickKeepsCallbacks DEF CallbacksOf
  <2> QED
    BY <2>1, <2>2, NoTimerKeeps
<1>3. ASSUME NEW i \in Ids, Fire(i) PROVE Continuations'
  BY <1>0, <1>3, FireContinues
<1>4. ASSUME NEW p \in Loops, StartLoop(p) PROVE Continuations'
  <2>1. /\ UNCHANGED << active, runningCallbacks, worker >>
        /\ loop[p].state = "off" /\ loop' = [loop EXCEPT ![p] = NextPoll(@)]
    BY <1>4 DEF StartLoop
  <2>2. \A y \in Loops \cup Workers : CallbacksOf(y)' = CallbacksOf(y)
    BY <2>1 DEF CallbacksOf, Registered
  <2>3. \A q \in Loops : (loop'[q].state = loop[q].state)
                         \/ (loop[q].state = "off" /\ loop'[q].state = "polling")
    BY <1>0, <2>1 DEF NextPoll, PollingTypeOK
  <2> QED
    BY <2>1, <2>2, <2>3, NoTimerKeeps
<1>5. ASSUME NEW p \in Loops, PollSettles(p) PROVE Continuations'
  BY <1>0, <1>5, PollSettlesContinues
<1>6. ASSUME NEW w \in Workers, LeaseRefused(w) PROVE Continuations'
  BY <1>0, <1>6, LeaseRefusedContinues
<1>7. ASSUME NEW w \in Workers, LeaseTaken(w) \/ WorkEnds(w) PROVE Continuations'
  <2>1. /\ UNCHANGED << active, runningCallbacks, loop >>
        /\ worker[w].state # "waiting"
        /\ \E s \in {"working", "idle"} : worker' = [worker EXCEPT ![w].state = s]
    BY <1>7 DEF LeaseTaken, WorkEnds
  <2>2. \A y \in Loops \cup Workers : CallbacksOf(y)' = CallbacksOf(y)
    BY <2>1 DEF CallbacksOf, Registered
  <2>3. \A v \in Workers : worker'[v].state = "waiting" <=> worker[v].state = "waiting"
    BY <1>0, <2>1 DEF PollingTypeOK
  <2> QED
    BY <2>1, <2>2, <2>3, NoTimerKeeps
<1> QED
  BY <1>1, <1>2, <1>3, <1>4, <1>5, <1>6, <1>7 DEF Next

\* A set whose members are all equal has no more than one.
LEMMA AtMostOneMember ==
  ASSUME NEW S, \A i, j \in S : i = j
  PROVE  /\ S = {} => Cardinality(S) = 0
         /\ S # {} => Cardinality(S) = 1
<1>1. CASE S = {}
  BY <1>1, FS_EmptySet
<1>2. CASE S # {}
  <2>1. PICK i : i \in S
    BY <1>2
  <2>2. S = {i}
    BY <2>1
  <2> QED
    BY <1>2, <2>2, FS_Singleton
<1> QED
  BY <1>1, <1>2

\* A poll loop that was started neither ends nor runs twice until the instance stops,
\* and a handler has a timer exactly while it waits to retry (pollLoop,
\* registerPollCallback, runUpdateInLease).
THEOREM LoopsContinue == Spec => []LoopContinues
<1>1. PInv /\ Continuations => LoopContinues
  <2> SUFFICES ASSUME PInv, Continuations PROVE LoopContinues
    OBVIOUS
  <2>1. ASSUME NEW p \in Loops
        PROVE  LET continuations ==
                     Cardinality(CallbacksOf(p)) + IF loop[p].state = "polling" THEN 1 ELSE 0
               IN /\ continuations <= 1
                  /\ active /\ loop[p].state # "off" => continuations = 1
    <3>1. OneContinuation(p) /\ loop[p].state \in {"off", "polling", "resting"}
      BY DEF Continuations, PInv, PollingTypeOK
    <3>2. Cardinality(CallbacksOf(p)) = IF CallbacksOf(p) = {} THEN 0 ELSE 1
      BY <3>1, AtMostOneMember DEF OneContinuation
    <3> QED
      BY <3>1, <3>2 DEF OneContinuation
  <2>2. ASSUME NEW w \in Workers
        PROVE  Cardinality(CallbacksOf(w)) = IF worker[w].state = "waiting" THEN 1 ELSE 0
    <3>1. OneRetryTimer(w)
      BY DEF Continuations
    <3> QED
      BY <3>1, AtMostOneMember DEF OneRetryTimer
  <2> QED
    BY <2>1, <2>2 DEF LoopContinues
<1> QED
  BY <1>1, AlwaysPInv, ContinuationsInit, ContinuationsStep, PTL DEF Spec

------------------------------------------------------------------------------
(* A stop gives up only where a delay is as long as its timeout             *)

\* A set of natural numbers that is not empty has a least member.
LEMMA LeastMember ==
  ASSUME NEW S, S \subseteq Nat, S # {}
  PROVE  \E x \in S : \A y \in S : x <= y
<1>1. PICK x \in S : \A y \in S : ~(<< y, x >> \in OpToRel(<, Nat))
  BY NatLessThanWellFounded, WFMin, Zenon
<1>2. \A y \in S : ~(y < x)
  BY <1>1, Zenon DEF OpToRel
<1> QED
  BY <1>2

\* The numbers of a sequence have a bound: a shortest prefix without one would be
\* longer by one number than a prefix with one.
LEMMA SequenceIsBounded ==
  ASSUME NEW s \in Seq(Nat)
  PROVE  \E b \in Nat : \A n \in 1..Len(s) : s[n] <= b
<1> DEFINE Bound(k, b) == \A n \in Nat : 1 <= n /\ n <= k => s[n] <= b
           Unbounded == { k \in Nat : k <= Len(s) /\ ~(\E b \in Nat : Bound(k, b)) }
<1>0. Len(s) \in Nat /\ \A n \in Nat : 1 <= n /\ n <= Len(s) => s[n] \in Nat
  OBVIOUS
<1>1. ASSUME Unbounded # {} PROVE FALSE
  <2>0. Unbounded \subseteq Nat
    OBVIOUS
  <2>1. PICK k \in Unbounded : \A y \in Unbounded : k <= y
    <3> HIDE DEF Unbounded
    <3> QED
      BY <1>1, <2>0, LeastMember
  <2>2. k \in Nat /\ k <= Len(s) /\ ~(\E b \in Nat : Bound(k, b))
    OBVIOUS
  <2>3. CASE k = 0
    <3>1. Bound(0, 0)
      OBVIOUS
    <3> QED
      BY <2>2, <2>3, <3>1
  <2>4. CASE k # 0
    <3>1. k - 1 \in Nat /\ k - 1 <= Len(s) /\ ~(k <= k - 1)
      BY <1>0, <2>2, <2>4
    <3>2. k - 1 \notin Unbounded
      BY <2>1, <3>1
    <3>3. PICK b \in Nat : Bound(k - 1, b)
      BY <3>1, <3>2
    <3>4. PICK m \in Nat : s[k] = m
      <4>1. s[k] \in Nat
        BY <1>0, <2>2, <2>4
      <4> QED
        BY <4>1, Zenon
    <3>5. b + m \in Nat
      OBVIOUS
    <3>6. ASSUME NEW n \in Nat, 1 <= n, n <= k PROVE s[n] <= b + m
      <4>1. CASE n = k
        <5>1. m <= b + m
          OBVIOUS
        <5> QED
          BY <3>4, <4>1, <5>1, Zenon
      <4>2. CASE n # k
        <5>1. n <= k - 1
          BY <2>2, <3>6, <4>2
        <5>2. s[n] \in Nat
          BY <1>0, <2>2, <3>6
        <5>3. s[n] <= b
          BY <3>3, <3>6, <5>1
        <5>4. \A x \in Nat : x <= b => x <= b + m
          OBVIOUS
        <5> QED
          BY <5>2, <5>3, <5>4, Zenon
      <4> QED
        BY <4>1, <4>2
    <3>7. Bound(k, b + m)
      BY <3>6
    <3> QED
      BY <2>2, <3>5, <3>7
  <2> QED
    BY <2>3, <2>4
<1>2. Len(s) \notin Unbounded
  BY <1>1
<1>3. PICK b \in Nat : Bound(Len(s), b)
  BY <1>0, <1>2
<1>4. \A n \in 1..Len(s) : n \in Nat /\ 1 <= n /\ n <= Len(s)
  BY <1>0
<1> QED
  BY <1>3, <1>4

Delays ==
  { PollTimes[n] : n \in 1..Len(PollTimes) } \cup { RetryDelays[n] : n \in 1..Len(RetryDelays) }

\* No delay is longer than the longest.
LEMMA LongestDelayBounds ==
  LongestDelay \in Nat /\ \A d \in Delays : d \in Nat /\ d <= LongestDelay
<1>1. PollTimes \in Seq(Nat) /\ PollTimes # << >> /\ RetryDelays \in Seq(Nat)
  BY PollingAssumption
<1>2. Delays \subseteq Nat
  BY <1>1 DEF Delays
<1>3. Len(PollTimes) \in Nat \ {0}
  BY <1>1
<1>4. Delays # {}
  BY <1>3 DEF Delays
<1> DEFINE Bounds == { b \in Nat : \A d \in Delays : d <= b }
<1>5. Bounds # {}
  <2>1. PICK b \in Nat : \A n \in 1..Len(PollTimes) : PollTimes[n] <= b
    BY <1>1, SequenceIsBounded
  <2>2. PICK c \in Nat : \A n \in 1..Len(RetryDelays) : RetryDelays[n] <= c
    BY <1>1, SequenceIsBounded
  <2>3. b + c \in Nat /\ \A d \in Nat : d <= b \/ d <= c => d <= b + c
    OBVIOUS
  <2>4. \A d \in Delays : d <= b + c
    BY <1>2, <2>1, <2>2, <2>3 DEF Delays
  <2> QED
    BY <2>3, <2>4
<1>6. PICK b \in Bounds : \A c \in Bounds : b <= c
  BY <1>5, LeastMember
<1>7. b \in Delays
  <2>1. CASE b = 0
    <3>1. PICK d \in Delays : d <= b
      BY <1>4, <1>6
    <3> QED
      BY <1>2, <2>1, <3>1
  <2>2. CASE b # 0
    <3>1. b - 1 \in Nat /\ b - 1 \notin Bounds
      BY <1>6, <2>2
    <3>2. PICK d \in Delays : ~(d <= b - 1)
      BY <3>1
    <3> QED
      BY <1>2, <1>6, <3>2
  <2> QED
    BY <2>1, <2>2
<1>8. \A e \in Delays : e <= b
  BY <1>6
<1>9. LongestDelay = CHOOSE d \in Delays : \A e \in Delays : e <= d
  BY DEF LongestDelay, Delays
<1>10. LongestDelay \in Delays /\ \A e \in Delays : e <= LongestDelay
  BY <1>7, <1>8, <1>9
<1> QED
  BY <1>2, <1>10

\* A timer that is still to fire when a stop looks was set before the stop, for a
\* delay that covers the seconds waited.
Patience ==
  /\ \A p \in Loops : loop[p].state = "polling" => loop[p].delay <= LongestDelay
  /\ \A i \in Registered : runningCallbacks[i].left <= LongestDelay
  /\ waiter.state = "waiting" =>
       \A i \in Registered : runningCallbacks[i].left + waiter.elapsed <= LongestDelay
  /\ waiter.state = "rejected" => LongestDelay >= WaitSeconds

\* The seconds that are left to a callback.
LEMMA SecondsLeft ==
  ASSUME PollingTypeOK
  PROVE  /\ \A i \in Registered : runningCallbacks[i].left \in Nat
         /\ waiter.elapsed \in Nat
<1>1. WaitSeconds \in Nat
  BY PollingAssumption
<1> QED
  BY <1>1 DEF PollingTypeOK, Registered

\* A registration for a delay that is not too long, while no stop waits.
LEMMA RegistrationIsPatient ==
  ASSUME PollingTypeOK, NEW x \in Loops \cup Workers, NEW s \in Nat, s <= LongestDelay,
         \A i \in Registered : runningCallbacks[i].left <= LongestDelay,
         registerPollCallback(x, s)
  PROVE  /\ ~active => UNCHANGED runningCallbacks
         /\ \A i \in Registered' : runningCallbacks'[i].left <= LongestDelay
<1>1. CASE active
  <2>1. PICK i \in Ids \ Registered :
          runningCallbacks' = [runningCallbacks EXCEPT ![i] = [ owner |-> x, left |-> s ]]
    BY <1>1 DEF registerPollCallback
  <2>2. /\ runningCallbacks'[i].left = s
        /\ \A j \in Ids \ {i} : runningCallbacks'[j] = runningCallbacks[j]
    BY <2>1 DEF PollingTypeOK
  <2>3. \A j \in Registered' : j = i \/ j \in Registered
    BY <2>2 DEF Registered
  <2>4. i \notin Registered
    BY <2>1
  <2>5. \A j \in Registered' : runningCallbacks'[j].left <= LongestDelay
    BY <2>2, <2>3, <2>4 DEF Registered
  <2> QED
    BY <1>1, <2>5
<1>2. CASE ~active
  BY <1>2 DEF registerPollCallback, Registered
<1> QED
  BY <1>1, <1>2

LEMMA NextPollIsPatient ==
  ASSUME NEW p, p.index \in 0..Len(PollTimes)
  PROVE  NextPoll(p).delay <= LongestDelay
<1>1. Len(PollTimes) \in Nat \ {0}
  BY PollingAssumption
<1>2. (p.index % Len(PollTimes)) + 1 \in 1..Len(PollTimes)
  BY <1>1
<1> QED
  BY <1>2, LongestDelayBounds DEF NextPoll, Delays

LEMMA TryItIsPatient ==
  ASSUME PollingTypeOK, NEW e \in Nat, TryIt(e), waiter.state # "rejected",
         \A i \in Registered : runningCallbacks[i].left + e <= LongestDelay
  PROVE  /\ waiter'.state = "waiting" => waiter'.elapsed = e
         /\ waiter'.state = "rejected" => LongestDelay >= WaitSeconds
<1>1. CASE activeCount = 0
  BY <1>1 DEF TryIt
<1>2. CASE activeCount # 0
  <2>1. PICK i : i \in Registered
    BY <1>2, NothingRegistered
  <2>2. runningCallbacks[i].left \in Nat /\ LongestDelay \in Nat /\ WaitSeconds \in Nat
    BY <2>1, SecondsLeft, LongestDelayBounds, PollingAssumption
  <2>3. e <= LongestDelay
    BY <2>1, <2>2
  <2> QED
    BY <1>2, <2>2, <2>3 DEF TryIt
<1> QED
  BY <1>1, <1>2

LEMMA PatienceInit == Init => Patience
<1> SUFFICES ASSUME Init PROVE Patience
  OBVIOUS
<1>1. Registered = {}
  BY DEF Init, Registered
<1> QED
  BY <1>1 DEF Init, Patience

LEMMA PatienceStep == PInv /\ Patience /\ [Next]_vars => Patience'
<1> SUFFICES ASSUME PInv, Patience, [Next]_vars PROVE Patience'
  OBVIOUS
<1>0. /\ PollingTypeOK /\ LongestDelay \in Nat
      /\ \A i \in Registered : runningCallbacks[i].left \in Nat
      /\ waiter.elapsed \in Nat
  BY SecondsLeft, LongestDelayBounds DEF PInv
<1>1. CASE Stop \/ UNCHANGED vars
  BY <1>1 DEF Stop, vars, Patience, Registered
<1>2. CASE StopAndWait
  <2>1. /\ TryIt(0) /\ waiter.state = "none"
        /\ UNCHANGED << runningCallbacks, loop, worker >>
    BY <1>2 DEF StopAndWait
  <2>2. \A i \in Registered : runningCallbacks[i].left + 0 <= LongestDelay
    BY <1>0 DEF Patience
  <2>3. /\ waiter'.state = "waiting" => waiter'.elapsed = 0
        /\ waiter'.state = "rejected" => LongestDelay >= WaitSeconds
    BY <1>0, <2>1, <2>2, TryItIsPatient
  <2> QED
    BY <2>1, <2>2, <2>3 DEF Patience, Registered
<1>3. CASE TryAgain
  <2>1. /\ TryIt(waiter.elapsed) /\ waiter.state = "waiting"
        /\ UNCHANGED << runningCallbacks, loop, worker >>
    BY <1>3 DEF TryAgain
  <2>2. \A i \in Registered : runningCallbacks[i].left + waiter.elapsed <= LongestDelay
    BY <2>1 DEF Patience
  <2>3. /\ waiter'.state = "waiting" => waiter'.elapsed = waiter.elapsed
        /\ waiter'.state = "rejected" => LongestDelay >= WaitSeconds
    BY <1>0, <2>1, <2>2, TryItIsPatient
  <2> QED
    BY <2>1, <2>2, <2>3 DEF Patience, Registered
<1>4. CASE Tick
  <2>1. /\ UNCHANGED loop
        /\ waiter'.state = waiter.state
        /\ waiter.state = "waiting" => waiter'.elapsed = waiter.elapsed + 1
    BY <1>4 DEF Tick
  <2>2. /\ Registered' = Registered
        /\ \A i \in Registered : /\ runningCallbacks[i].left \in Nat
                                 /\ runningCallbacks'[i].left = runningCallbacks[i].left - 1
    BY <1>0, <1>4, TickKeepsCallbacks
  <2>3. \A i \in Registered' : runningCallbacks'[i].left <= LongestDelay
    BY <1>0, <2>2 DEF Patience
  <2>4. waiter'.state = "waiting" =>
          \A i \in Registered' : runningCallbacks'[i].left + waiter'.elapsed <= LongestDelay
    BY <1>0, <2>1, <2>2 DEF Patience
  <2> QED
    BY <2>1, <2>3, <2>4 DEF Patience
<1>5. ASSUME NEW i \in Ids, Fire(i) PROVE Patience'
  <2>1. Registered' \subseteq Registered /\ UNCHANGED waiter
        /\ \A j \in Registered' : runningCallbacks'[j] = runningCallbacks[j]
    BY <1>0, <1>5, FireTakesOne DEF Fire
  <2>2. ASSUME NEW p \in Loops, loop'[p].state = "polling"
        PROVE  loop'[p].delay <= LongestDelay
    <3>1. loop[p].index \in 0..Len(PollTimes)
      BY <1>0 DEF PollingTypeOK
    <3>2. loop'[p] = loop[p] \/ loop'[p] = NextPoll(loop[p])
      BY <1>0, <1>5 DEF Fire, PollingTypeOK
    <3> QED
      BY <2>2, <3>1, <3>2, NextPollIsPatient DEF Patience
  <2> QED
    BY <2>1, <2>2 DEF Patience
<1>6. ASSUME NEW p \in Loops, StartLoop(p) PROVE Patience'
  <2>1. UNCHANGED << runningCallbacks, waiter >> /\ loop' = [loop EXCEPT ![p] = NextPoll(@)]
    BY <1>6 DEF StartLoop
  <2>2. ASSUME NEW q \in Loops, loop'[q].state = "polling"
        PROVE  loop'[q].delay <= LongestDelay
    <3>1. loop[q].index \in 0..Len(PollTimes)
      BY <1>0 DEF PollingTypeOK
    <3>2. loop'[q] = loop[q] \/ loop'[q] = NextPoll(loop[q])
      BY <1>0, <2>1 DEF PollingTypeOK
    <3> QED
      BY <2>2, <3>1, <3>2, NextPollIsPatient DEF Patience
  <2> QED
    BY <2>1, <2>2 DEF Patience, Registered
<1>7. ASSUME NEW p \in Loops, PollSettles(p) PROVE Patience'
  <2>1. /\ loop[p].state = "polling" /\ loop[p].delay \in Nat /\ UNCHANGED waiter
        /\ loop'[p].state = "resting"
        /\ \A q \in Loops \ {p} : loop'[q] = loop[q]
        /\ registerPollCallback(p, loop[p].delay)
    BY <1>0, <1>7 DEF PollSettles, PollingTypeOK
  <2>2. loop[p].delay <= LongestDelay
    BY <2>1 DEF Patience
  <2>3. /\ ~active => UNCHANGED runningCallbacks
        /\ \A i \in Registered' : runningCallbacks'[i].left <= LongestDelay
    BY <1>0, <2>1, <2>2, RegistrationIsPatient DEF Patience
  <2>4. waiter.state = "waiting" => UNCHANGED runningCallbacks
    BY <2>3 DEF PInv
  <2> QED
    BY <2>1, <2>3, <2>4 DEF Patience, Registered
<1>8. ASSUME NEW w \in Workers, LeaseRefused(w) PROVE Patience'
  <2> DEFINE n == worker[w].attempt + 1
  <2>1. UNCHANGED << loop, waiter >> /\ n \in Nat \ {0} /\ Len(RetryDelays) \in Nat
    BY <1>0, <1>8, PollingAssumption DEF LeaseRefused, PollingTypeOK
  <2>2. CASE n <= Len(RetryDelays)
    <3>1. registerPollCallback(w, RetryDelays[n])
      BY <1>8, <2>2 DEF LeaseRefused
    <3>2. RetryDelays[n] \in Delays
      BY <2>1, <2>2 DEF Delays
    <3>3. RetryDelays[n] \in Nat /\ RetryDelays[n] <= LongestDelay
      BY <3>2, LongestDelayBounds
    <3>4. /\ ~active => UNCHANGED runningCallbacks
          /\ \A i \in Registered' : runningCallbacks'[i].left <= LongestDelay
      BY <1>0, <3>1, <3>3, RegistrationIsPatient DEF Patience
    <3>5. waiter.state = "waiting" => UNCHANGED runningCallbacks
      BY <3>4 DEF PInv
    <3> QED
      BY <2>1, <3>4, <3>5 DEF Patience, Registered
  <2>3. CASE ~(n <= Len(RetryDelays))
    <3>1. UNCHANGED runningCallbacks
      BY <1>8, <2>3 DEF LeaseRefused
    <3> QED
      BY <2>1, <3>1 DEF Patience, Registered
  <2> QED
    BY <2>2, <2>3
<1>9. ASSUME NEW w \in Workers, LeaseTaken(w) \/ WorkEnds(w) PROVE Patience'
  BY <1>9 DEF LeaseTaken, WorkEnds, Patience, Registered
<1> QED
  BY <1>1, <1>2, <1>3, <1>4, <1>5, <1>6, <1>7, <1>8, <1>9 DEF Next

\* stopAndWait gives up only where some delay is as long as its timeout: it registers
\* nothing once it is called, so otherwise every timer is gone in time (stopAndWait,
\* registerPollCallback).
THEOREM StopsInTime == Spec => []StopInTime
<1>1. Patience => StopInTime
  BY DEF Patience, StopInTime
<1> QED
  BY <1>1, AlwaysPInv, PatienceInit, PatienceStep, PTL DEF Spec

------------------------------------------------------------------------------
(* The timers implement the abstract drain                                 *)

LEMMA TimersAreCounted == IsFiniteSet(Registered) /\ activeCount \in Nat
<1>1. IsFiniteSet(Ids)
  BY PollingAssumption, FS_Interval DEF Ids
<1>2. IsFiniteSet(Registered)
  BY <1>1, FS_Subset DEF Registered
<1> QED
  BY <1>2, FS_CardinalityType DEF activeCount

\* The count is one more when one more timer is set.
LEMMA OneMore ==
  ASSUME NEW i, i \notin Registered, Registered' = Registered \cup {i}
  PROVE  activeCount' = activeCount + 1
<1>1. Cardinality(Registered \cup {i}) = Cardinality(Registered) + 1
  BY TimersAreCounted, FS_AddElement
<1> QED
  BY <1>1 DEF activeCount

LEMMA OneLess ==
  ASSUME NEW i, i \in Registered, Registered' = Registered \ {i}
  PROVE  activeCount > 0 /\ activeCount' = activeCount - 1
<1>1. Cardinality(Registered \ {i}) = Cardinality(Registered) - 1
  BY TimersAreCounted, FS_RemoveElement
<1>2. activeCount # 0
  BY NothingRegistered
<1> QED
  BY <1>1, <1>2, TimersAreCounted DEF activeCount

LEMMA SameTimers == ASSUME UNCHANGED runningCallbacks PROVE activeCount' = activeCount
<1>1. Registered' = Registered
  BY DEF Registered
<1> QED
  BY <1>1 DEF activeCount

\* What a step means for the abstract drain.
DrainStep == [Drain!DrainNext]_(Drain!drain)

LEMMA RegistrationDrains ==
  ASSUME PollingTypeOK, NEW x \in Loops \cup Workers, NEW s \in Nat,
         registerPollCallback(x, s), UNCHANGED << active, waiter >>
  PROVE  DrainStep
<1>1. CASE active
  <2> DEFINE callback == [ owner |-> x, left |-> s ]
  <2>1. PICK i \in Ids \ Registered : runningCallbacks' = [runningCallbacks EXCEPT ![i] = callback]
    BY <1>1 DEF registerPollCallback
  <2>2. callback # None
    BY PollingAssumption
  <2> HIDE DEF callback
  <2>3. Registered' = Registered \cup {i} /\ i \notin Registered
    BY <2>1, <2>2 DEF PollingTypeOK, Registered
  <2>4. activeCount' = activeCount + 1
    BY <2>3, OneMore
  <2> QED
    BY <1>1, <2>4 DEF DrainStep, Drain!DrainNext, Drain!PutOff
<1>2. CASE ~active
  <2>1. activeCount' = activeCount
    BY <1>2, SameTimers DEF registerPollCallback
  <2> QED
    BY <2>1 DEF DrainStep, Drain!drain
<1> QED
  BY <1>1, <1>2

\* One look of stopAndWait at the count.
LEMMA TryItLooks == ASSUME NEW e, TryIt(e) PROVE Drain!Settle
  BY DEF TryIt, Drain!Settle

LEMMA StepDrains == PInv /\ [Next]_vars => DrainStep
<1> SUFFICES ASSUME PInv, [Next]_vars PROVE DrainStep
  OBVIOUS
<1>0. PollingTypeOK
  BY DEF PInv
<1>a. ASSUME UNCHANGED << active, runningCallbacks, waiter >> PROVE DrainStep
  BY <1>a, SameTimers DEF DrainStep, Drain!drain
<1>1. CASE Stop
  <2>1. activeCount' = activeCount
    BY <1>1, SameTimers DEF Stop
  <2> QED
    BY <1>1, <2>1 DEF Stop, DrainStep, Drain!DrainNext, Drain!TellToStop
<1>2. CASE StopAndWait
  <2>1. activeCount' = activeCount
    BY <1>2, SameTimers DEF StopAndWait
  <2>2. Drain!Settle
    BY <1>2, TryItLooks DEF StopAndWait
  <2> QED
    BY <1>2, <2>1, <2>2 DEF StopAndWait, DrainStep, Drain!DrainNext, Drain!AskAndWait
<1>3. CASE TryAgain
  <2>1. activeCount' = activeCount
    BY <1>3, SameTimers DEF TryAgain
  <2>2. Drain!Settle
    BY <1>3, TryItLooks DEF TryAgain
  <2> QED
    BY <1>3, <2>1, <2>2 DEF TryAgain, DrainStep, Drain!DrainNext, Drain!LookAgain
<1>4. CASE Tick
  <2>1. activeCount' = activeCount
    BY <1>0, <1>4, TickKeepsCallbacks DEF activeCount
  <2>2. active' = active /\ waiter'.state = waiter.state
    BY <1>4 DEF Tick
  <2> QED
    BY <2>1, <2>2 DEF DrainStep, Drain!drain
<1>5. ASSUME NEW i \in Ids, Fire(i) PROVE DrainStep
  <2>1. activeCount > 0 /\ activeCount' = activeCount - 1
    BY <1>0, <1>5, FireTakesOne, OneLess
  <2>2. UNCHANGED << active, waiter >>
    BY <1>5 DEF Fire
  <2> QED
    BY <2>1, <2>2 DEF DrainStep, Drain!DrainNext, Drain!RunOut
<1>6. ASSUME NEW p \in Loops, PollSettles(p) PROVE DrainStep
  <2>1. /\ registerPollCallback(p, loop[p].delay) /\ loop[p].delay \in Nat
        /\ UNCHANGED << active, waiter >>
    BY <1>0, <1>6 DEF PollSettles, PollingTypeOK
  <2> QED
    BY <1>0, <2>1, RegistrationDrains
<1>7. ASSUME NEW w \in Workers, LeaseRefused(w) PROVE DrainStep
  <2> DEFINE n == worker[w].attempt + 1
  <2>1. UNCHANGED << active, waiter >> /\ n \in Nat \ {0} /\ Len(RetryDelays) \in Nat
    BY <1>0, <1>7, PollingAssumption DEF LeaseRefused, PollingTypeOK
  <2>2. CASE n <= Len(RetryDelays)
    <3>1. registerPollCallback(w, RetryDelays[n]) /\ RetryDelays[n] \in Nat
      BY <1>7, <2>1, <2>2, PollingAssumption DEF LeaseRefused
    <3> QED
      BY <1>0, <2>1, <3>1, RegistrationDrains
  <2>3. CASE ~(n <= Len(RetryDelays))
    <3>1. UNCHANGED runningCallbacks
      BY <1>7, <2>3 DEF LeaseRefused
    <3> QED
      BY <1>a, <2>1, <3>1
  <2> QED
    BY <2>2, <2>3
<1>8. CASE \/ \E p \in Loops : StartLoop(p)
           \/ \E w \in Workers : LeaseTaken(w) \/ WorkEnds(w)
           \/ UNCHANGED vars
  BY <1>a, <1>8 DEF StartLoop, LeaseTaken, WorkEnds, vars
<1> QED
  BY <1>1, <1>2, <1>3, <1>4, <1>5, <1>6, <1>7, <1>8 DEF Next

\* For every number of loops, handlers and callbacks, whatever is in flight when an
\* instance is stopped, the number of its timers only falls from then on, and a stop
\* that waits is told of it exactly at zero (PollingCallback).
THEOREM StopImplementsDrain == Spec => StopDrains
<1>1. Init => Drain!DrainInit
  <2> SUFFICES ASSUME Init PROVE Drain!DrainInit
    OBVIOUS
  <2>1. activeCount = 0
    BY NothingRegistered DEF Init, Registered
  <2> QED
    BY <2>1 DEF Init, Drain!DrainInit
<1>2. PInv /\ [Next]_vars => [Drain!DrainNext]_(Drain!drain)
  BY StepDrains DEF DrainStep
<1> QED
  BY <1>1, <1>2, AlwaysPInv, PTL DEF Spec, StopDrains, Drain!DrainSpec

==============================================================================
