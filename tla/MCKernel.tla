------------------------------ MODULE MCKernel ------------------------------
(***************************************************************************)
(* Small instances of the two parts of the kernel that the tick interrupt  *)
(* drives: Scheduler and Timer.  They share no variable; a behaviour moves *)
(* the one while the other rests where it started.                         *)
(***************************************************************************)
EXTENDS MCScheduler, Timer

SchedulerRests == Init
TimersRest == TimerInit /\ tick = 0 /\ periodic = {} /\ \A t \in Timer : init[t] = 1

MCNext ==
  \/ TimersRest /\ KernelNext /\ UNCHANGED timerVars
  \/ SchedulerRests /\ TimerNext /\ UNCHANGED vars
MCSpec == Init /\ TimerInit /\ [][MCNext]_<<vars, timerVars>>
=============================================================================
