------------------------------- MODULE Control -------------------------------
(* What decides when a connection may act, each part on its own: the event    *)
(* loop with its timers, the congestion control loop, the filter BBR keeps    *)
(* its rates in, and the pacer.                                               *)
EXTENDS EventLoop, Congestion, Pacer

VARIABLE part

CtlInit ==
  /\ part \in {"loop", "window", "filter", "pacer"}
  /\ LoopInit /\ CcInit /\ FilterInit /\ PaceInit

CtlNext ==
  /\ UNCHANGED part
  /\ \/ part = "loop" /\ LoopNext /\ UNCHANGED <<cc_vars, filter_vars, pace_vars>>
     \/ part = "window" /\ CcNext /\ UNCHANGED <<loop_vars, filter_vars, pace_vars>>
     \/ part = "filter" /\ FilterNext /\ UNCHANGED <<loop_vars, cc_vars, pace_vars>>
     \/ part = "pacer" /\ PaceNext /\ UNCHANGED <<loop_vars, cc_vars, filter_vars>>

CtlSpec ==
  /\ CtlInit
  /\ [][CtlNext]_<<part, loop_vars, cc_vars, filter_vars, pace_vars>>
  /\ LoopFairness

-----------------------------------------------------------------------------
\* Nothing sleeps too long or wakes too early: the loop is right to the
\* millisecond, the pacing timer to the microsecond (ms_until, next_send_time).
DelaysAreExact == WakesInTime /\ PacerDelay
=============================================================================
