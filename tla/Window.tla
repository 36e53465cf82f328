------------------------------- MODULE Window -------------------------------
(***************************************************************************)
(* What a ring buffer promises: a bounded sequence of bytes.  A put adds   *)
(* what there is room for; a forced put adds everything and keeps the last *)
(* bytes; a read takes bytes from the front.                               *)
(***************************************************************************)
EXTENDS Naturals, SequencesExt

CONSTANTS
  Capacity,  \* the bytes it holds
  Data       \* the sequences of bytes written

VARIABLE bytes

Init == bytes = <<>>

FirstOf(s, n) == SubSeq(s, 1, IF n < Len(s) THEN n ELSE Len(s))

LastOf(s, n) == SubSeq(s, IF n < Len(s) THEN Len(s) - n + 1 ELSE 1, Len(s))

Put(d) == bytes' = bytes \o FirstOf(d, Capacity - Len(bytes))

PutForce(d) == bytes' = LastOf(bytes \o d, Capacity)

Read(n) == bytes' = SubSeq(bytes, n + 1, Len(bytes))

Next ==
  \/ \E n \in 1 .. Capacity : Read(n)
  \/ \E d \in Data : Put(d) \/ PutForce(d)

Spec == Init /\ [][Next]_bytes
=============================================================================
