------------------------------ MODULE MCPolling ------------------------------
(* The instances of Polling that TLC checks. *)
EXTENDS PollingProps

TwoTimes == << 1, 2 >>
OneRetry == << 1 >>

==============================================================================
