--------------------------------- MODULE Fifo ---------------------------------
(***************************************************************************)
(* What a message queue or a mailbox promises: a bounded queue of          *)
(* messages.  A send adds a message at the end, an urgent send at the      *)
(* front; a receive takes the first message as a whole and then hands it   *)
(* out unchanged.                                                          *)
(***************************************************************************)
EXTENDS Naturals, SequencesExt

CONSTANTS
  Actor,     \* who sends and receives
  Msg,       \* the messages
  Null,      \* no message
  Capacity,  \* the number of places
  InPlace    \* whether a message keeps its place until it is handed out

VARIABLES
  queue,     \* the messages
  hand       \* the message each actor has taken and not yet handed out

Init == queue = <<>> /\ hand = [a \in Actor |-> Null]

Hands == {a \in Actor : hand[a] # Null}

Room == Len(queue) + (IF InPlace THEN Cardinality(Hands) ELSE 0) < Capacity

Put(m)      == Room /\ queue' = Append(queue, m) /\ UNCHANGED hand
PutFirst(m) == Room /\ queue' = Cons(m, queue) /\ UNCHANGED hand

Take(a) ==
  /\ hand[a] = Null /\ queue # <<>>
  /\ hand' = [hand EXCEPT ![a] = Head(queue)]
  /\ queue' = Tail(queue)

Give(a) ==
  /\ hand[a] # Null
  /\ hand' = [hand EXCEPT ![a] = Null]
  /\ UNCHANGED queue

Clear == queue' = <<>> /\ UNCHANGED hand

Next ==
  \/ \E m \in Msg : Put(m) \/ PutFirst(m)
  \/ \E a \in Actor : Take(a) \/ Give(a)
  \/ Clear

vars == <<queue, hand>>

Spec == Init /\ [][Next]_vars
=============================================================================
