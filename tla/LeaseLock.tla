------------------------------ MODULE LeaseLock ------------------------------
(***************************************************************************)
(* What the lease on a scheduled job promises (datastore/api.ts, the        *)
(* contracts of leaseScheduledJob, releaseScheduledJobLease and             *)
(* repairExpiredLeaseForScheduledJob): one holder at a time; only the       *)
(* holder gives the lease up; it is taken over only after its holder        *)
(* abandoned it, and only for repair.                                      *)
(***************************************************************************)
CONSTANTS Clients, Nobody

VARIABLES
  holder,         \* the client named by the lease, or Nobody
  attended        \* whether that client is alive and still works on it

lock == << holder, attended >>

LockInit == holder = Nobody /\ attended = FALSE

\* The lease is granted; the answer to the client may get lost.
Grant(c) == holder = Nobody /\ holder' = c /\ attended' \in BOOLEAN

GiveUp == attended /\ holder' = Nobody /\ attended' = FALSE

\* The holder dies, fails, or asks for a repair.
Abandon == attended /\ holder' = holder /\ attended' = FALSE

TakeOver(c) == holder # Nobody /\ ~attended /\ c # holder /\ holder' = c /\ attended' \in BOOLEAN

LockNext == GiveUp \/ Abandon \/ \E c \in Clients : Grant(c) \/ TakeOver(c)

LockSpec == LockInit /\ [][LockNext]_lock

==============================================================================
