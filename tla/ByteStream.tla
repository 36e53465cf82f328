----------------------------- MODULE ByteStream -----------------------------
(***************************************************************************)
(* What the receive FIFO of a serial device is to deliver: the bytes in    *)
(* their order; when it is full, a byte that arrives costs the oldest one. *)
(***************************************************************************)
EXTENDS Naturals, Sequences

CONSTANTS
  Byte,      \* the bytes
  Capacity   \* the bytes the FIFO holds

VARIABLE stream \* the bytes received and not read

Init == stream = <<>>

Receive(b) == Len(stream) < Capacity /\ stream' = Append(stream, b)

Overrun(b) == Len(stream) = Capacity /\ stream' = Append(Tail(stream), b)

Read == stream # <<>> /\ stream' = Tail(stream)

Next == Read \/ \E b \in Byte : Receive(b) \/ Overrun(b)

Spec == Init /\ [][Next]_stream
=============================================================================
