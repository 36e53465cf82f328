---------------------------- MODULE MCScheduler ----------------------------
(***************************************************************************)
(* Small instances of Scheduler: an idle thread of the lowest priority,    *)
(* one or two threads in the middle, one of the highest priority; or two   *)
(* threads of idle's priority.                                             *)
(***************************************************************************)
EXTENDS Scheduler

CONSTANTS idle, main, peer, high

MCThread == {idle, main, peer, high}
MCThread3 == {idle, main, high}
MCInitPrio == [t \in Thread |-> CASE t = idle -> 2 [] t = high -> 0 [] OTHER -> 1]
MCFlatPrio == [t \in Thread |-> 0]
=============================================================================
