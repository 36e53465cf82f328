------------------------------- MODULE MemPool -------------------------------
(***************************************************************************)
(* The memory pool of mempool.c: blocks of one size, linked through their  *)
(* headers while they are free.  The header of an allocated block points   *)
(* to the pool.                                                            *)
(***************************************************************************)
EXTENDS Waiting

CONSTANTS
  Block,     \* the blocks
  Pool,      \* the pool, as the header of an allocated block
  Null       \* the end of the free list

MemPoolAssumption ==
  IsFiniteSet(Block) /\ Block # {} /\ {Pool, Null} \cap Block = {} /\ Pool # Null

VARIABLE mp \* block_list, block_free_count and the headers

vars == <<w, pc, arg, mp>>

TypeOK ==
  /\ WaitTypeOK
  /\ pc \in [Actor -> {"run", "alloc"}]
  /\ arg \in [Actor -> {"none", "finite", "forever"}]
  /\ mp \in [list   : Block \cup {Null},
             count  : 0 .. Cardinality(Block),
             header : [Block -> Block \cup {Pool, Null}]]

(* rt_mp_init links each block to the next one.                             *)
Order == SetToSeq(Block)

Following(b) == Order[CHOOSE i \in 2 .. Len(Order) : Order[i - 1] = b]

Full ==
  [list   |-> Head(Order),
   count  |-> Len(Order),
   header |-> [b \in Block |-> IF b = Last(Order) THEN Null ELSE Following(b)]]

Init ==
  /\ w = InitW
  /\ pc = [a \in Actor |-> "run"]
  /\ arg = [a \in Actor |-> "none"]
  /\ mp = Full

-----------------------------------------------------------------------------
(* Take the first block of the list. *)
Unlist ==
  mp' = [mp EXCEPT !.count = @ - 1, !.list = mp.header[mp.list], !.header[mp.list] = Pool]

(* A thread without a block waits in order of arrival; a plain resumption   *)
(* leaves the error EOK.                                                    *)
WaitForBlock(t, wait) ==
  /\ w' = SuspendTo(w, t, "main", "FIFO", "EOK", wait)
  /\ arg' = [arg EXCEPT ![t] = wait]
  /\ pc' = [pc EXCEPT ![t] = "alloc"]
  /\ UNCHANGED mp

Left(t) == IF arg[t] = "finite" THEN {"finite", "none"} ELSE {arg[t]}

Return(t) == pc' = [pc EXCEPT ![t] = "run"] /\ arg' = [arg EXCEPT ![t] = "none"]

(* rt_mp_alloc; without time to wait, an allocation in vain changes         *)
(* nothing.                                                                 *)
Alloc(a) ==
  /\ Free(a)
  /\ \/ mp.count > 0 /\ Unlist /\ UNCHANGED <<w, pc, arg>>
     \/ mp.count = 0 /\ a \in Thread /\ \E wait \in Waits : WaitForBlock(a, wait)

(* It goes on after a wait: fails, takes a block, or waits again.           *)
AllocWoken(t) ==
  /\ pc[t] = "alloc" /\ CanRun(t)
  /\ \/ w.err[t] # "EOK" /\ Return(t) /\ UNCHANGED <<w, mp>>
     \/ w.err[t] = "EOK" /\ mp.count > 0 /\ Unlist /\ Return(t) /\ UNCHANGED w
     \/ w.err[t] = "EOK" /\ mp.count = 0
        /\ \E left \in Left(t) :
             \/ left = "none" /\ Return(t) /\ UNCHANGED <<w, mp>>
             \/ left # "none" /\ WaitForBlock(t, left)

(* Mutant: a thread is woken only when the pool was empty.                  *)
GiveBack_WakesFirst(a, b) ==
  /\ Free(a) /\ mp.header[b] = Pool
  /\ mp' = [mp EXCEPT !.count = @ + 1, !.list = b, !.header[b] = mp.list]
  /\ w' = IF mp.count = 0 THEN Dequeue(w, "main", "EOK") ELSE w
  /\ UNCHANGED <<pc, arg>>

(* rt_mp_free of an allocated block.                                        *)
GiveBack(a, b) ==
  /\ Free(a) /\ mp.header[b] = Pool
  /\ mp' = [mp EXCEPT !.count = @ + 1, !.list = b, !.header[b] = mp.list]
  /\ w' = Dequeue(w, "main", "EOK")
  /\ UNCHANGED <<pc, arg>>

(* rt_mp_detach or rt_mp_delete, and a later rt_mp_init; the blocks handed  *)
(* out are no longer used.                                                  *)
Detach(a) ==
  /\ Free(a)
  /\ w' = ResumeAll(w, "main", "+ERROR")
  /\ mp' = Full
  /\ UNCHANGED <<pc, arg>>

Next ==
  \/ \E a \in Actor : Alloc(a) \/ Detach(a) \/ \E b \in Block : GiveBack(a, b)
  \/ \E t \in Thread : AllocWoken(t)
  \/ WaitStep /\ UNCHANGED mp

Spec == Init /\ [][Next]_vars

-----------------------------------------------------------------------------
(* The blocks linked from the head of the list.                             *)
Listed ==
  LET walk[i \in 1 .. Cardinality(Block) + 1] ==
        IF i = 1 THEN mp.list
        ELSE IF walk[i - 1] \in Block THEN mp.header[walk[i - 1]] ELSE Null
  IN  SelectSeq(walk, LAMBDA b : b # Null)

(* A block is free or allocated: the list ends, holds no block twice and    *)
(* none that is in use, and the counter is its length.  And no thread       *)
(* sleeps beside a free block: while threads wait, each free block is       *)
(* matched by a thread already woken that has not yet looked.               *)
BlocksServed ==
  /\ IsInjective(Listed)
  /\ ToSet(Listed) = {b \in Block : mp.header[b] # Pool}
  /\ mp.count = Len(Listed)
  /\ w.list["main"] # <<>> => mp.count <= Cardinality(Woken("alloc"))
=============================================================================
