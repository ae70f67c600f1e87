---------------------------- MODULE MCScheduler ----------------------------
(***************************************************************************)
(* An instance of Scheduler for TLC: monitoring on with a short or a long  *)
(* interval, or off.  With the code's divisor of four the short interval   *)
(* has no jitter and the long one has two values.                          *)
(***************************************************************************)
EXTENDS Scheduler

MCConfigs == {[on |-> TRUE, interval |-> 4], [on |-> TRUE, interval |-> 8],
              [on |-> FALSE, interval |-> 4]}

============================================================================
