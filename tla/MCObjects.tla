------------------------------ MODULE MCObjects ------------------------------
(***************************************************************************)
(* Small instances of Objects: three threads, one of them more urgent than *)
(* the others.                                                             *)
(***************************************************************************)
EXTENDS Objects, TLC

CONSTANTS t1, t2, t3

MCPriority == [t \in Thread |-> IF t = t3 THEN 0 ELSE 1]
MCSymmetry ==
  Permutations({t1, t2}) \cup Permutations(Bit) \cup Permutations(Mail)
=============================================================================
