----------------------------- MODULE RingBlocks -----------------------------
(***************************************************************************)
(* The ring block buffer of components/drivers/ipc/ringblk_buf.c: blocks   *)
(* of any size are allocated one behind the other in a ring of memory,     *)
(* filled and put by their producers, got by a consumer one by one or as a *)
(* queue of neighbours, and freed in any order.  Each call is one locked   *)
(* section, but for the freeing of a queue, which is one per block.        *)
(***************************************************************************)
EXTENDS Naturals, SequencesExt, FiniteSetsExt

CONSTANTS
  BufSize,   \* buf_size
  Slot,      \* blk_set, the descriptors of blocks
  Length,    \* the sizes asked for
  Null       \* no block

RingBlocksAssumption ==
  /\ BufSize \in Nat \ {0} /\ Length \subseteq 1 .. 2^24 - 1
  /\ IsFiniteSet(Slot) /\ Null \notin Slot

VARIABLE rbb \* blk_list, tail, free_list, the descriptors, and the block
             \* queue of the consumer

TypeOK ==
  /\ rbb.list \in Seq(Slot) /\ rbb.free \in Seq(Slot)
  /\ rbb.tail \in Slot \cup {Null}
  /\ rbb.status \in [Slot -> {"UNUSED", "INITED", "PUT", "GET"}]
  /\ rbb.buf \in [Slot -> 0 .. BufSize] /\ rbb.size \in [Slot -> Length \cup {0}]
  /\ rbb.blocks \in Slot \cup {Null} /\ rbb.num \in 0 .. Cardinality(Slot)

(* rt_rbb_init *)
Init ==
  rbb = [list   |-> <<>>,
         tail   |-> Null,
         free   |-> Reverse(SetToSeq(Slot)),
         status |-> [b \in Slot |-> "UNUSED"],
         buf    |-> [b \in Slot |-> 0],
         size   |-> [b \in Slot |-> 0],
         blocks |-> Null,
         num    |-> 0]

-----------------------------------------------------------------------------
IndexIn(b) == CHOOSE i \in DOMAIN rbb.list : rbb.list[i] = b

(* list_append links the block behind the tail, whatever followed it.       *)
Appended(b) ==
  Append(IF rbb.tail = Null THEN <<>> ELSE SubSeq(rbb.list, 1, IndexIn(rbb.tail)), b)

End(b) == rbb.buf[b] + rbb.size[b]

(* Mutant: a ring that has wrapped around is not told from one that has     *)
(* not.                                                                     *)
Places_NoWrap(n) ==
  LET empty1 == BufSize - End(rbb.tail)
      empty2 == rbb.buf[Head(rbb.list)]
  IN  CASE rbb.list = <<>> -> IF n <= BufSize THEN {0} ELSE {}
        [] empty1 >= n     -> {End(rbb.tail)}
        [] OTHER           -> IF empty2 >= n THEN {0} ELSE {}

(* Where a block of size n goes: behind the tail, or at the start of the    *)
(* memory when the ring has not wrapped around; nowhere without room.       *)
Places(n) ==
  LET head   == rbb.buf[Head(rbb.list)]
      limit  == IF head <= rbb.buf[rbb.tail] THEN BufSize ELSE head
  IN  CASE rbb.list = <<>>                        -> IF n <= BufSize THEN {0} ELSE {}
        [] limit - End(rbb.tail) >= n             -> {End(rbb.tail)}
        [] limit = BufSize /\ head >= n           -> {0}
        [] OTHER                                  -> {}

(* rt_rbb_blk_alloc; without a descriptor or room nothing changes.          *)
Alloc(n) ==
  /\ rbb.free # <<>>
  /\ LET b == Head(rbb.free)
     IN  \E p \in Places(n) :
           rbb' = [rbb EXCEPT !.free = Tail(@), !.list = Appended(b), !.tail = b,
                              !.status[b] = "INITED", !.buf[b] = p, !.size[b] = n]

(* rt_rbb_blk_put, by the producer of the block.                            *)
Put(b) == rbb.status[b] = "INITED" /\ rbb' = [rbb EXCEPT !.status[b] = "PUT"]

FirstPut == Min({i \in DOMAIN rbb.list : rbb.status[rbb.list[i]] = "PUT"})

SomePut == \E b \in ToSet(rbb.list) : rbb.status[b] = "PUT"

(* rt_rbb_blk_get *)
Get == SomePut /\ rbb' = [rbb EXCEPT !.status[rbb.list[FirstPut]] = "GET"]

(* The total size of the blocks from place i to place j.                    *)
Total(i, j) == MapThenSumSet(LAMBDA k : rbb.size[rbb.list[k]], i .. j)

(* The last place of a queue that starts with the first block put: the next *)
(* one must be put, lie behind, and fit in; the first is not compared with  *)
(* the length asked for.                                                    *)
QueueEnd(length) ==
  LET follows(i) == /\ rbb.status[rbb.list[i]] = "PUT"
                    /\ rbb.buf[rbb.list[i - 1]] <= rbb.buf[rbb.list[i]]
                    /\ Total(FirstPut, i) <= length
  IN  Max({j \in FirstPut .. Len(rbb.list) : \A i \in FirstPut + 1 .. j : follows(i)})

(* rt_rbb_blk_queue_get, the queue before having been freed.                *)
QueueGet(length) ==
  /\ rbb.num = 0 /\ SomePut
  /\ LET got == {rbb.list[i] : i \in FirstPut .. QueueEnd(length)}
     IN  rbb' = [rbb EXCEPT !.status = [b \in Slot |-> IF b \in got THEN "GET" ELSE @[b]],
                            !.blocks = rbb.list[FirstPut],
                            !.num = Cardinality(got)]

(* Mutant: the tail stays when its block is removed.                        *)
Removed_KeepsTail(b) ==
  [rbb EXCEPT !.list = RemoveFirst(@, b), !.status[b] = "UNUSED", !.free = Cons(b, @),
              !.buf[b] = 0, !.size[b] = 0]

(* rt_rbb_blk_free with list_remove; the tail moves back to the block       *)
(* before it, or to the head of the list.  The place and size of a free     *)
(* descriptor are not read; 0 saves states.                                 *)
Removed(b) ==
  [rbb EXCEPT !.list = RemoveFirst(@, b), !.status[b] = "UNUSED", !.free = Cons(b, @),
              !.tail = IF @ # b THEN @
                       ELSE IF IndexIn(b) = 1 THEN Null ELSE rbb.list[IndexIn(b) - 1],
              !.buf[b] = 0, !.size[b] = 0]

(* The blocks of the consumer's queue: from the first along the list.       *)
Queued ==
  IF rbb.num = 0 \/ rbb.blocks \notin ToSet(rbb.list) THEN <<>>
  ELSE SubSeq(rbb.list, IndexIn(rbb.blocks), IndexIn(rbb.blocks) + rbb.num - 1)

(* The consumer frees a block it got, a producer one it does not want.      *)
FreeBlock(b) ==
  /\ rbb.status[b] \in {"INITED", "GET"} /\ b \notin ToSet(Queued)
  /\ rbb' = Removed(b)

(* One round of rt_rbb_blk_queue_free: the next block is looked up first.   *)
QueueFree ==
  /\ rbb.num > 0
  /\ rbb' = [Removed(rbb.blocks) EXCEPT
               !.num = @ - 1,
               !.blocks = IF rbb.num = 1 THEN Null ELSE rbb.list[IndexIn(rbb.blocks) + 1]]

Next ==
  \/ Get \/ QueueFree
  \/ \E n \in Length : Alloc(n) \/ QueueGet(n)
  \/ \E b \in Slot : Put(b) \/ FreeBlock(b)

Spec == Init /\ [][Next]_rbb

-----------------------------------------------------------------------------
(* Blocks are freed in any order and by several: still the list runs once   *)
(* around the ring, the tail is its end, a descriptor is in the list or     *)
(* free, and a consumer finds the blocks of its queue where it left them.   *)
RingOK ==
  /\ rbb.tail = IF rbb.list = <<>> THEN Null ELSE Last(rbb.list)
  /\ IsInjective(rbb.list \o rbb.free) /\ ToSet(rbb.list \o rbb.free) = Slot
  /\ Cardinality({i \in DOMAIN rbb.list :
       LET next == rbb.list[IF i = Len(rbb.list) THEN 1 ELSE i + 1]
       IN  rbb.buf[next] <= rbb.buf[rbb.list[i]]}) <= 1
  /\ Len(Queued) = rbb.num /\ \A b \in ToSet(Queued) : rbb.status[b] = "GET"

(* The ring implements Regions: no two blocks overlap, and each is as long  *)
(* as it was asked for.                                                     *)
Region(b) == [from |-> rbb.buf[b], to |-> End(b)]

Handed == {Region(b) : b \in ToSet(rbb.list)}

Abstract == INSTANCE Regions WITH Memory <- BufSize, regions <- Handed

CallsKept ==
  /\ \A n \in Length : Alloc(n) => Abstract!Allocate(n)
  /\ \A b \in Slot : FreeBlock(b) => Abstract!Release(Region(b))
=============================================================================
