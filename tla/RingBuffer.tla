----------------------------- MODULE RingBuffer -----------------------------
(***************************************************************************)
(* The ring buffer of components/drivers/ipc/ringbuffer.c.  Each index has *)
(* a mirror bit that flips when the index wraps, which tells a full buffer *)
(* from an empty one.  Its callers keep two calls from overlapping.        *)
(***************************************************************************)
EXTENDS Naturals, SequencesExt

CONSTANTS
  Size,      \* buffer_size
  Byte,      \* the bytes
  Null,      \* a place not yet written
  LengthMax  \* bound: the bytes of one call

RingBufferAssumption == Size \in Nat \ {0} /\ LengthMax \in Nat \ {0}

VARIABLE rb \* pool, read_index, write_index and their mirror bits

Place == 0 .. Size - 1

Index == [at : Place, mirror : BOOLEAN]

TypeOK == rb \in [pool : [Place -> Byte \cup {Null}], read : Index, write : Index]

Start == [at |-> 0, mirror |-> FALSE]

(* rt_ringbuffer_init *)
Init == rb = [pool |-> [i \in Place |-> Null], read |-> Start, write |-> Start]

Data == UNION {[1 .. n -> Byte] : n \in 1 .. LengthMax}

-----------------------------------------------------------------------------
(* Mutant: the mirror bits are not compared.                                *)
DataLen_NoMirror(b) ==
  IF b.write.at > b.read.at THEN b.write.at - b.read.at
  ELSE IF b.write.at = b.read.at THEN 0 ELSE Size - (b.read.at - b.write.at)

(* rt_ringbuffer_status and rt_ringbuffer_data_len                          *)
DataLen(b) ==
  CASE b.read = b.write                                     -> 0
    [] b.read.at = b.write.at /\ b.read # b.write           -> Size
    [] b.write.at > b.read.at                               -> b.write.at - b.read.at
    [] b.write.at < b.read.at                               -> Size - (b.read.at - b.write.at)

SpaceLen == Size - DataLen(rb)

(* The index n places on, and the bytes d from the write index on.          *)
Moved(i, n) ==
  IF Size - i.at > n THEN [i EXCEPT !.at = @ + n]
  ELSE [at |-> n - (Size - i.at), mirror |-> ~ i.mirror]

Written(d) ==
  [i \in Place |->
     LET n == (IF i < rb.write.at THEN i + Size ELSE i) - rb.write.at
     IN  IF n < Len(d) THEN d[n + 1] ELSE rb.pool[i]]

(* rt_ringbuffer_put: what there is no space for is dropped.                *)
Put(data) ==
  /\ SpaceLen > 0
  /\ LET d == SubSeq(data, 1, IF SpaceLen < Len(data) THEN SpaceLen ELSE Len(data))
     IN  rb' = [rb EXCEPT !.pool = Written(d), !.write = Moved(@, Len(d))]

(* Mutant: the mirror bit of the reader is left alone.                      *)
PutForce_KeepsMirror(data) ==
  LET d     == SubSeq(data, IF Len(data) > Size THEN Len(data) - Size + 1 ELSE 1, Len(data))
      write == Moved(rb.write, Len(d))
  IN  rb' = [rb EXCEPT !.pool = Written(d), !.write = write,
                       !.read.at = IF Len(d) > SpaceLen THEN write.at ELSE @]

(* rt_ringbuffer_put_force: the last bytes overwrite the oldest; a reader   *)
(* that is overtaken is moved to the write index.                           *)
PutForce(data) ==
  LET d     == SubSeq(data, IF Len(data) > Size THEN Len(data) - Size + 1 ELSE 1, Len(data))
      write == Moved(rb.write, Len(d))
      flips == write.mirror # rb.write.mirror /\ write.at <= rb.read.at
  IN  rb' = [rb EXCEPT
        !.pool = Written(d),
        !.write = write,
        !.read = IF Len(d) > SpaceLen
                 THEN [at |-> write.at, mirror |-> IF flips THEN ~ @.mirror ELSE @.mirror]
                 ELSE @]

(* rt_ringbuffer_putchar_force, the state read before the byte is put.      *)
PutCharForce(byte) ==
  LET write == Moved(rb.write, 1)
      full  == SpaceLen = 0
  IN  rb' = [rb EXCEPT
        !.pool[rb.write.at] = byte,
        !.write = write,
        !.read = IF full
                 THEN [at |-> write.at,
                       mirror |-> IF write.at = 0 THEN ~ @.mirror ELSE @.mirror]
                 ELSE @]

(* rt_ringbuffer_get of n bytes; rt_ringbuffer_getchar.                     *)
Get(n) ==
  /\ DataLen(rb) > 0
  /\ rb' = [rb EXCEPT !.read = Moved(@, IF DataLen(rb) < n THEN DataLen(rb) ELSE n)]

(* rt_ringbuffer_peek hands out the stretch up to the end of the pool and   *)
(* takes it from the buffer.                                                *)
Peek ==
  /\ DataLen(rb) > 0
  /\ rb' = [rb EXCEPT !.read =
       Moved(@, IF Size - @.at > DataLen(rb) THEN DataLen(rb) ELSE Size - @.at)]

(* rt_ringbuffer_reset *)
Reset == rb' = [rb EXCEPT !.read = Start, !.write = Start]

Next ==
  \/ \E d \in Data : Put(d) \/ PutForce(d)
  \/ \E byte \in Byte : PutCharForce(byte)
  \/ \E n \in 1 .. LengthMax : Get(n)
  \/ Peek \/ Reset

Spec == Init /\ [][Next]_rb

-----------------------------------------------------------------------------
(* The ring buffer implements Window: the buffer holds the bytes put and    *)
(* not read, as many as the indexes are apart when the mirror bit counts    *)
(* for a whole round ...                                                    *)
Turn(i) == i.at + IF i.mirror THEN Size ELSE 0

Held ==
  [i \in 1 .. (2 * Size + Turn(rb.write) - Turn(rb.read)) % (2 * Size) |->
     rb.pool[(rb.read.at + i - 1) % Size]]

Abstract == INSTANCE Window WITH Capacity <- Size, bytes <- Held

(* ... and each call does what Window says of it, however the two indexes   *)
(* chase and overtake each other.                                           *)
CallsKept ==
  /\ \A d \in Data : /\ Put(d) => Abstract!Put(d)
                     /\ PutForce(d) => Abstract!PutForce(d)
  /\ \A byte \in Byte : PutCharForce(byte) => Abstract!PutForce(<<byte>>)
  /\ \A n \in 1 .. LengthMax : Get(n) => Abstract!Read(n)
=============================================================================
