------------------------------ MODULE Draining ------------------------------
(***************************************************************************)
(* What a stop promises (README.md and basics.ts on stop and stopAndWait):  *)
(* an instance that was told to stop begins nothing that it would have to   *)
(* wait for, lets the timers that are set run out, and says that it is      *)
(* drained when none is left, and only then.  Whose timers they are, and    *)
(* how long they take, is not told.                                        *)
(***************************************************************************)
EXTENDS Naturals

VARIABLES
  running,        \* not told to stop yet
  timers,         \* how many timers are set
  answer          \* of the call that stops and waits

drain == << running, timers, answer >>

DrainInit == running = TRUE /\ timers = 0 /\ answer = "none"

\* A poll or a retry is put off to a later time.
PutOff == running /\ timers' = timers + 1 /\ UNCHANGED << running, answer >>

RunOut == timers > 0 /\ timers' = timers - 1 /\ UNCHANGED << running, answer >>

TellToStop == running /\ running' = FALSE /\ UNCHANGED << timers, answer >>

\* One look at the timers: the wait goes on or is given up only while some are left.
Settle ==
  /\ answer' = "resolved" <=> timers = 0
  /\ answer' \in { "resolved", "waiting", "rejected" }

AskAndWait == answer = "none" /\ running' = FALSE /\ Settle /\ UNCHANGED timers
LookAgain  == answer = "waiting" /\ Settle /\ UNCHANGED << running, timers >>

DrainNext == PutOff \/ RunOut \/ TellToStop \/ AskAndWait \/ LookAgain

DrainSpec == DrainInit /\ [][DrainNext]_drain

==============================================================================
