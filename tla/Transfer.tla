------------------------------ MODULE Transfer ------------------------------
(***************************************************************************)
(* What the transfer of a file promises: its blocks are saved in their     *)
(* order, each once, and neither side reports success before all are       *)
(* there.                                                                  *)
(***************************************************************************)
EXTENDS Naturals, Sequences

CONSTANT BlockMax \* the number of blocks of the file

VARIABLES
  got,       \* the blocks saved since the file was opened
  received,  \* whether the receiver has returned success
  sent       \* whether the sender has

Init == got = <<>> /\ received = FALSE /\ sent = FALSE

Save ==
  /\ ~ received /\ ~ sent /\ Len(got) < BlockMax
  /\ got' = Append(got, Len(got) + 1)
  /\ UNCHANGED <<received, sent>>

Receive == Len(got) = BlockMax /\ received' = TRUE /\ UNCHANGED <<got, sent>>
Send    == Len(got) = BlockMax /\ sent' = TRUE /\ UNCHANGED <<got, received>>
Again   == got' = <<>> /\ received' = FALSE /\ sent' = FALSE

Next == Save \/ Receive \/ Send \/ Again

vars == <<got, received, sent>>

Spec == Init /\ [][Next]_vars
=============================================================================
