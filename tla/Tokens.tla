------------------------------- MODULE Tokens -------------------------------
(***************************************************************************)
(* What a counting semaphore promises: each release is worth one take.  A  *)
(* token is given to a waiting thread only when none is left over, and a   *)
(* token given to a thread is its own until it collects it.                *)
(***************************************************************************)
EXTENDS Naturals

CONSTANTS
  Thread,    \* the threads
  Limit      \* the bound of the counter

VARIABLES
  count,     \* the tokens left over
  given,     \* the threads that own a token they have not collected
  era        \* flips with each reset

vars == <<count, given, era>>

Init == count \in 0 .. Limit /\ given = {} /\ era = FALSE

Release ==
  \/ count < Limit /\ count' = count + 1 /\ UNCHANGED given
  \/ \E t \in Thread \ given :
       count = 0 /\ given' = given \cup {t} /\ UNCHANGED count

Take == count > 0 /\ count' = count - 1 /\ UNCHANGED given

Collect(t) == t \in given /\ given' = given \ {t} /\ UNCHANGED count

(* A reset sets the counter; what was given stays given.                    *)
Reset == count' \in 0 .. Limit /\ era' = ~ era /\ UNCHANGED given

Next ==
  \/ (Release \/ Take \/ \E t \in Thread : Collect(t)) /\ UNCHANGED era
  \/ Reset

Spec == Init /\ [][Next]_vars
=============================================================================
