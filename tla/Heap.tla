-------------------------------- MODULE Heap --------------------------------
(***************************************************************************)
(* The heap: the small memory management of mem.c behind rt_malloc,        *)
(* rt_realloc and rt_free, whose lock makes each call one step.  Every     *)
(* block starts with a header that names the next and the previous block   *)
(* by their offsets.  What the user writes between the headers is left     *)
(* out: a header that was merged away is no longer in heap.item.           *)
(*                                                                         *)
(* The unit is RT_ALIGN_SIZE.                                              *)
(***************************************************************************)
EXTENDS Naturals, FiniteSetsExt, Functions

CONSTANTS
  MemSize,   \* mem_size_aligned
  Header,    \* SIZEOF_STRUCT_MEM
  MinSize,   \* MIN_SIZE_ALIGNED
  Request    \* the sizes asked for

HeapAssumption ==
  /\ {MemSize, Header, MinSize} \subseteq Nat \ {0}
  /\ Request \subseteq Nat \ {0}

VARIABLE heap \* the headers, lfree, and the units in use

End == MemSize + Header

Offset == 0 .. End

Item == [used : BOOLEAN, next : Offset, prev : Offset]

TypeOK ==
  /\ DOMAIN heap.item \subseteq Offset
  /\ heap.item \in [DOMAIN heap.item -> Item]
  /\ heap.lfree \in DOMAIN heap.item
  /\ heap.used \in 0 .. End

Entry(used, next, prev) == [used |-> used, next |-> next, prev |-> prev]

(* rt_smem_init: one free block, and a used header at the end.              *)
Init ==
  heap = [item  |-> [o \in {0, End} |->
                       IF o = 0 THEN Entry(FALSE, End, 0) ELSE Entry(TRUE, End, End)],
          lfree |-> 0,
          used  |-> 0]

-----------------------------------------------------------------------------
(* The headers from o on. *)
From(h, o) ==
  LET reach[x \in Offset] ==
        {x} \cup IF h.item[x].next > x THEN reach[h.item[x].next] ELSE {}
  IN  reach[o]

(* Mutant: the header is counted as part of the block's data.               *)
Room_WithHeader(h, o) == h.item[o].next - o

Room(h, o) == h.item[o].next - (o + Header)

Without(h, o) == [h EXCEPT !.item = Restrict(@, DOMAIN @ \ {o})]

(* plug_holes: merge the free block o with a free block after it ...        *)
PlugForward(h, o) ==
  LET n == h.item[o].next
  IN  IF n = o \/ h.item[n].used \/ n = End
      THEN h
      ELSE Without([h EXCEPT !.lfree = IF @ = n THEN o ELSE @,
                             !.item[h.item[n].next].prev = o,
                             !.item[o].next = h.item[n].next], n)

(* ... and with one before it.                                              *)
PlugBackward(h, o) ==
  LET p == h.item[o].prev
  IN  IF p = o \/ h.item[p].used
      THEN h
      ELSE Without([h EXCEPT !.lfree = IF @ = o THEN p ELSE @,
                             !.item[h.item[o].next].prev = p,
                             !.item[p].next = h.item[o].next], o)

(* Mutant: a free block before it is overlooked.                            *)
PlugHoles_Forward(h, o) == PlugForward(h, o)

PlugHoles(h, o) == PlugBackward(PlugForward(h, o), o)

(* Cut the block o behind n units; the rest is a free block.                *)
Split(h, o, n) ==
  LET rest == o + Header + n
      next == h.item[o].next
      item == [x \in DOMAIN h.item \cup {rest} |->
                 IF x = rest THEN Entry(FALSE, next, o) ELSE h.item[x]]
      back == IF next = End THEN item ELSE [item EXCEPT ![next].prev = rest]
  IN  [h EXCEPT !.item = [back EXCEPT ![o].next = rest]]

(* A header and a block of the least size fit behind n units of the block.  *)
Splits(h, o, n) == Room(h, o) >= n + Header + MinSize

-----------------------------------------------------------------------------
(* rt_smem_alloc: the first block from lfree on that is free and large      *)
(* enough.                                                                  *)
Fitting(h, n) ==
  {o \in From(h, h.lfree) : o + n <= MemSize /\ ~ h.item[o].used /\ Room(h, o) >= n}

FirstFree(h, o) == Min({x \in From(h, o) : ~ h.item[x].used} \cup {End})

TakeBlock(h, o, n) ==
  LET cut == IF Splits(h, o, n) THEN Split(h, o, n) ELSE h
      h1  == [cut EXCEPT !.item[o].used = TRUE, !.used = @ + (cut.item[o].next - o)]
  IN  [h1 EXCEPT !.lfree = IF @ = o THEN FirstFree(h1, o) ELSE @]

Rounded(n) == IF n < MinSize THEN MinSize ELSE n

AllocFails(h, n) == Fitting(h, Rounded(n)) = {}

AllocIn(h, n) == TakeBlock(h, Min(Fitting(h, Rounded(n))), Rounded(n))

(* rt_smem_free *)
FreeIn(h, o) ==
  LET size == h.item[o].next - o
  IN  PlugHoles([h EXCEPT !.item[o].used = FALSE,
                          !.lfree = IF o < @ THEN o ELSE @,
                          !.used = @ - size], o)

(* Mutant: the rest of a block that is cut does not become the lowest.      *)
Shrink_KeepsLowest(h, o, n) ==
  PlugHoles([Split(h, o, n) EXCEPT !.used = @ - (Room(h, o) - n)], o + Header + n)

(* rt_smem_realloc to a size that leaves room for a block behind it.        *)
Shrink(h, o, n) ==
  LET rest == o + Header + n
  IN  PlugHoles([Split(h, o, n) EXCEPT !.used = @ - (Room(h, o) - n),
                                       !.lfree = IF rest < @ THEN rest ELSE @], rest)

-----------------------------------------------------------------------------
Used == {o \in DOMAIN heap.item \ {End} : heap.item[o].used}

(* rt_malloc, unless it returns RT_NULL.                                    *)
Malloc(n) == ~ AllocFails(heap, n) /\ heap' = AllocIn(heap, n)

(* rt_free, and rt_realloc to size 0.                                       *)
Free(o) == heap' = FreeIn(heap, o)

(* rt_realloc of a block to another size: cut it, or allocate a new one and *)
(* free the old; if that fails, even to make it smaller, nothing changes.   *)
Realloc(o, n) ==
  /\ Room(heap, o) # n
  /\ IF Splits(heap, o, n)
     THEN heap' = Shrink(heap, o, n)
     ELSE ~ AllocFails(heap, n) /\ heap' = FreeIn(AllocIn(heap, n), o)

Next ==
  \/ \E n \in Request : Malloc(n)
  \/ \E o \in Used : Free(o) \/ \E n \in Request : Realloc(o, n)

Spec == Init /\ [][Next]_heap

-----------------------------------------------------------------------------
(* No unit of this stretch belongs to a block in use.                       *)
Unused(from, to) ==
  \A o \in Used : to <= o \/ heap.item[o].next <= from

(* The blocks fill the memory, each linked to the next one and back; no two *)
(* free ones are neighbours; lfree is the lowest free one; the counter is   *)
(* what the used ones take.  And rt_malloc fails only when no stretch of    *)
(* unused memory is long enough for a header and the block.                 *)
BlocksOK ==
  /\ From(heap, 0) = DOMAIN heap.item
  /\ \A o \in DOMAIN heap.item \ {End} :
       LET n == heap.item[o].next
       IN  /\ Room(heap, o) > 0
           /\ n # End => heap.item[n].prev = o /\ (heap.item[o].used \/ heap.item[n].used)
  /\ heap.lfree = FirstFree(heap, 0)
  /\ heap.used = MapThenSumSet(LAMBDA o : heap.item[o].next - o, Used)
  /\ \A n \in Request, a \in Offset :
       a + Header + Rounded(n) <= End /\ Unused(a, a + Header + Rounded(n)) =>
         ~ AllocFails(heap, n)

(* The heap implements Regions: the blocks handed out never overlap, and a  *)
(* call moves or cuts no other block than its own ...                       *)
Region(o) == [from |-> o + Header, to |-> heap.item[o].next]

Handed == {Region(o) : o \in Used}

Abstract == INSTANCE Regions WITH Memory <- End, regions <- Handed

(* ... call by call: a block has the room it was asked for.                 *)
CallsKept ==
  /\ \A n \in Request : Malloc(n) => Abstract!Allocate(n)
  /\ \A o \in Used :
       /\ Free(o) => Abstract!Release(Region(o))
       /\ \A n \in Request : Realloc(o, n) => Abstract!Resize(Region(o), n)
=============================================================================
