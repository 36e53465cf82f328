------------------------------- MODULE MemHeap -------------------------------
(***************************************************************************)
(* The memory heaps of memheap.c, for memory beside the system heap, in    *)
(* the fast mode that is configured.  A block starts with an item that     *)
(* names the next and the previous block; the last item, which is used,    *)
(* closes the ring.  Free blocks are also in a list, the last one freed    *)
(* first.  The heap's semaphore makes each call one step.                  *)
(*                                                                         *)
(* The unit is RT_ALIGN_SIZE.                                              *)
(***************************************************************************)
EXTENDS Naturals, SequencesExt, Functions

CONSTANTS
  PoolSize,  \* pool_size
  Header,    \* RT_MEMHEAP_SIZE
  MinSize,   \* RT_MEMHEAP_MINIALLOC
  Request    \* the sizes asked for

MemHeapAssumption ==
  /\ {Header, MinSize} \subseteq Nat \ {0}
  /\ PoolSize \in Nat /\ PoolSize > 2 * Header
  /\ Request \subseteq Nat \ {0}

VARIABLE mheap \* the items, the free list, and available_size

Tail0 == PoolSize - Header

Offset == 0 .. Tail0

Item == [used : BOOLEAN, next : Offset, prev : Offset]

TypeOK ==
  /\ DOMAIN mheap.item \subseteq Offset
  /\ mheap.item \in [DOMAIN mheap.item -> Item]
  /\ mheap.free \in Seq(DOMAIN mheap.item)
  /\ mheap.available \in 0 .. PoolSize

Entry(used, next, prev) == [used |-> used, next |-> next, prev |-> prev]

(* rt_memheap_init: one free block and the tail.                            *)
Init ==
  mheap = [item      |-> [o \in {0, Tail0} |->
                            IF o = 0 THEN Entry(FALSE, Tail0, Tail0) ELSE Entry(TRUE, 0, 0)],
           free      |-> <<0>>,
           available |-> PoolSize - 2 * Header]

-----------------------------------------------------------------------------
Room(h, o) == h.item[o].next - (o + Header)

Listed(h, o) == [h EXCEPT !.free = <<o>> \o @]

(* Mutant: a block that is taken, or merged away, stays in the free list.   *)
Unlisted_KeepsLast(h, o) == [h EXCEPT !.free = IF Len(@) = 1 THEN @ ELSE Remove(@, o)]

Unlisted(h, o) == [h EXCEPT !.free = Remove(@, o)]

(* Put a new free block behind n units of the block o ...                   *)
Cut(h, o, n) ==
  LET rest == o + Header + n
      next == h.item[o].next
      item == [x \in DOMAIN h.item \cup {rest} |->
                 IF x = rest THEN Entry(FALSE, next, o) ELSE h.item[x]]
  IN  [h EXCEPT !.item = [item EXCEPT ![next].prev = rest, ![o].next = rest]]

(* ... and let the block before o take o's place.                           *)
Merged(h, o) ==
  LET prev == h.item[o].prev
      next == h.item[o].next
      item == [h.item EXCEPT ![prev].next = next, ![next].prev = prev]
  IN  [h EXCEPT !.item = Restrict(item, DOMAIN item \ {o})]

-----------------------------------------------------------------------------
Rounded(n) == IF n < MinSize THEN MinSize ELSE n

(* rt_memheap_alloc takes the first free block of the list that is large    *)
(* enough.  It has compared the size with available_size before it locked   *)
(* the heap, and others may have changed that since.                        *)
Fits(n) == {i \in DOMAIN mheap.free : Room(mheap, mheap.free[i]) >= n}

Taken(h, o) == [h EXCEPT !.item[o].used = TRUE]

Alloc(size) ==
  LET n == Rounded(size)
      o == mheap.free[Min(Fits(n))]
      all == Room(mheap, o)
  IN  /\ Fits(n) # {}
      /\ mheap' =
           IF all >= n + Header + MinSize
           THEN Taken([Listed(Unlisted(Cut(mheap, o, n), o), o + Header + n)
                         EXCEPT !.available = @ - (n + Header)], o)
           ELSE Taken([Unlisted(mheap, o) EXCEPT !.available = @ - all], o)

(* rt_memheap_free: into the free block before o, or else to the head of    *)
(* the free list ...                                                        *)
Left(h, o) ==
  IF h.item[h.item[o].prev].used
  THEN Listed(h, o)
  ELSE [Merged(h, o) EXCEPT !.available = @ + Header]

(* ... and together with a free block behind it.                            *)
Right(h, o) ==
  LET next == h.item[o].next
  IN  IF h.item[next].used
      THEN h
      ELSE [Unlisted(Merged(h, next), next) EXCEPT !.available = @ + Header]

Free(o) ==
  LET freed == [mheap EXCEPT !.item[o].used = FALSE, !.available = @ + Room(mheap, o)]
      place == IF mheap.item[mheap.item[o].prev].used THEN o ELSE mheap.item[o].prev
  IN  mheap' = Right(Left(freed, o), place)

(* rt_memheap_realloc to a larger size: into the free block behind, if one  *)
(* is left.  If not it allocates, copies and frees, with other calls        *)
(* between, as Alloc and Free do.                                           *)
Grow(o, n) ==
  LET next == mheap.item[o].next
      more == n - Room(mheap, o)
  IN  /\ n > Room(mheap, o) /\ ~ mheap.item[next].used
      /\ Room(mheap, next) > more + MinSize
      /\ mheap' = [Listed(Cut(Unlisted(Merged(mheap, next), next), o, n), o + Header + n)
                     EXCEPT !.available = @ - more]

(* To a smaller one: what is left becomes a free block, with the free block *)
(* behind it.                                                               *)
Shrink(o, n) ==
  LET rest == o + Header + n
      cut  == Cut(mheap, o, n)
      next == cut.item[rest].next
      less == IF cut.item[next].used
              THEN cut
              ELSE [Unlisted(Merged(cut, next), next) EXCEPT !.available = @ - Room(cut, next)]
  IN  /\ n + Header + MinSize < Room(mheap, o)
      /\ mheap' = [Listed(less, rest) EXCEPT !.available = @ + Room(less, rest)]

-----------------------------------------------------------------------------
Used == {o \in DOMAIN mheap.item \ {Tail0} : mheap.item[o].used}

Next ==
  \/ \E n \in Request : Alloc(n)
  \/ \E o \in Used :
       Free(o) \/ \E n \in Request : Grow(o, Rounded(n)) \/ Shrink(o, Rounded(n))

Spec == Init /\ [][Next]_mheap

-----------------------------------------------------------------------------
(* The blocks form a ring in the order of their places, no two free ones    *)
(* beside each other; the list, which is all that an allocation looks at,   *)
(* has the free ones, each once; and available_size is what they have room  *)
(* for.                                                                     *)
ListsOK ==
  /\ \A o \in DOMAIN mheap.item \ {Tail0} :
       LET n == mheap.item[o].next
       IN  /\ o < n /\ mheap.item[n].prev = o /\ \A x \in DOMAIN mheap.item : x <= o \/ x >= n
           /\ mheap.item[o].used \/ mheap.item[n].used
  /\ mheap.item[Tail0].next = 0 /\ mheap.item[0].prev = Tail0
  /\ ToSet(mheap.free) = {o \in DOMAIN mheap.item : ~ mheap.item[o].used}
  /\ IsInjective(mheap.free)
  /\ mheap.available = MapThenSumSet(LAMBDA o : Room(mheap, o), ToSet(mheap.free))

(* The heap implements Regions, call by call.                               *)
Region(o) == [from |-> o + Header, to |-> mheap.item[o].next]

Handed == {Region(o) : o \in Used}

Abstract == INSTANCE Regions WITH Memory <- PoolSize, regions <- Handed

CallsKept ==
  /\ \A n \in Request : Alloc(n) => Abstract!Allocate(n)
  /\ \A o \in Used :
       /\ Free(o) => Abstract!Release(Region(o))
       /\ \A n \in Request :
            Grow(o, Rounded(n)) \/ Shrink(o, Rounded(n)) => Abstract!Resize(Region(o), n)
=============================================================================
