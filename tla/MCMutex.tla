------------------------------- MODULE MCMutex -------------------------------
(***************************************************************************)
(* Small instances of Mutex: three threads of different priorities above   *)
(* the idle thread, or four, two of them of one priority; two mutexes,     *)
(* taken in order.                                                         *)
(***************************************************************************)
EXTENDS Mutex

CONSTANTS idle, low, mid, peer, high, a, b

MCThread == {idle, low, mid, high}
MCThread5 == {idle, low, mid, peer, high}
MCInitPrio ==
  [t \in Thread |-> CASE t = idle -> 3 [] t = low -> 2 [] t = high -> 0 [] OTHER -> 1]
MCRank == [m \in Mutex |-> CASE m = a -> 1 [] m = b -> 2]
=============================================================================
