------------------------------- MODULE Objects -------------------------------
(***************************************************************************)
(* The objects of the kernel and of the drivers' ipc directory, each with  *)
(* the same threads and handlers, the interrupts of pins, the shell's line *)
(* editor, and a file transfer between two boards.  Two objects share      *)
(* nothing but their threads, and a thread is in at most one call: a       *)
(* behaviour looks at one object, chosen in its first state.               *)
(***************************************************************************)
EXTENDS Ipc

CONSTANTS
  Block, Pool, \* see MemPool
  MemSize, Header, MinSize, Request,  \* see Heap
  LengthMax,   \* see RingBuffer
  Slot,        \* see RingBlocks
  Kind         \* the kinds of object looked at

VARIABLE kind  \* the kind of the object

vars == <<kind, obj, w, pc, arg>>

Blk == INSTANCE MemPool WITH mp <- obj
Ser == INSTANCE SerialRx WITH rx <- obj, Byte <- Mail, Reader <- Single,
                              Size <- Size + 1, Burst <- Size, SemMax <- ValueMax
Cvr == INSTANCE Condvar WITH cv <- obj, ItemMax <- Size
Mem == INSTANCE Heap WITH heap <- obj
Mhp == INSTANCE MemHeap WITH mheap <- obj, PoolSize <- MemSize + 4 * Header
Shl == INSTANCE Shell WITH sh <- obj, Char <- {"A", "x"}, Nul <- Null, CmdSize <- LengthMax,
                           LineMax <- LengthMax - 2, HistLines <- ValueMax,
                           Names <- {<<"x", "A", "A">>, <<"x", "A", "x">>}
Rng == INSTANCE RingBuffer WITH rb <- obj, Byte <- Mail, Size <- LengthMax - 1
Pin == INSTANCE PinIrq WITH pn <- obj, Port <- Bit, Line <- {5, 6}, Edge <- {"rising", "falling"}
Rbb == INSTANCE RingBlocks WITH rbb <- obj, BufSize <- LengthMax + 1, Length <- 1 .. LengthMax - 1
Rym == INSTANCE Ymodem WITH ym <- obj, BlockMax <- Size + 1, NumberMod <- 256, HandMax <- ValueMax,
                            ErrorMax <- ValueMax, CanNum <- 2, Noise <- {"EOT", "junk"},
                            FaultMax <- LengthMax

ASSUME ObjectsAssumption ==
  /\ Blk!MemPoolAssumption /\ Ser!SerialAssumption
  /\ Cvr!CondvarAssumption /\ Mem!HeapAssumption /\ Mhp!MemHeapAssumption /\ Shl!ShellAssumption
  /\ Pin!PinAssumption /\ Rng!RingBufferAssumption /\ Rbb!RingBlocksAssumption
  /\ Rym!YmodemAssumption

(* Nobody waits in these calls, or how is looked at elsewhere.              *)
NoWaiters == w = {} /\ pc = {} /\ arg = {}

Init ==
  /\ kind \in Kind
  /\ \/ kind = "semaphore"  /\ Sem!Init
     \/ kind = "event"      /\ Evt!Init
     \/ kind = "mailbox"    /\ Box!Init
     \/ kind = "mempool"    /\ Blk!Init
     \/ kind = "completion" /\ Cmp!Init
     \/ kind = "dataqueue"  /\ Dtq!Init
     \/ kind = "serial"     /\ Ser!Init
     \/ kind = "workqueue"  /\ Wkq!Init
     \/ kind = "waitqueue"  /\ Wtq!Init
     \/ kind = "condvar"    /\ Cvr!Init
     \/ kind = "heap"       /\ Mem!Init /\ NoWaiters
     \/ kind = "memheap"    /\ Mhp!Init /\ NoWaiters
     \/ kind = "shell"      /\ Shl!Init /\ NoWaiters
     \/ kind = "pins"       /\ Pin!Init /\ NoWaiters
     \/ kind = "ringblocks" /\ Rbb!Init /\ NoWaiters
     \/ kind = "ringbuffer" /\ Rng!Init /\ NoWaiters
     \/ kind = "transfer"   /\ Rym!Init /\ NoWaiters

Next ==
  /\ UNCHANGED kind
  /\ \/ kind = "semaphore"  /\ Sem!Next
     \/ kind = "event"      /\ Evt!Next
     \/ kind = "mailbox"    /\ Box!Next
     \/ kind = "mempool"    /\ Blk!Next
     \/ kind = "completion" /\ Cmp!Next
     \/ kind = "dataqueue"  /\ Dtq!Next
     \/ kind = "serial"     /\ Ser!Next
     \/ kind = "workqueue"  /\ Wkq!Next
     \/ kind = "waitqueue"  /\ Wtq!Next
     \/ kind = "condvar"    /\ Cvr!Next
     \/ kind = "heap"       /\ Mem!Next /\ UNCHANGED <<w, pc, arg>>
     \/ kind = "memheap"    /\ Mhp!Next /\ UNCHANGED <<w, pc, arg>>
     \/ kind = "shell"      /\ Shl!Next /\ UNCHANGED <<w, pc, arg>>
     \/ kind = "pins"       /\ Pin!Next /\ UNCHANGED <<w, pc, arg>>
     \/ kind = "ringblocks" /\ Rbb!Next /\ UNCHANGED <<w, pc, arg>>
     \/ kind = "ringbuffer" /\ Rng!Next /\ UNCHANGED <<w, pc, arg>>
     \/ kind = "transfer"   /\ Rym!Next /\ UNCHANGED <<w, pc, arg>>

Spec == Init /\ [][Next]_vars

-----------------------------------------------------------------------------
(* The values each object and the threads in its calls can have.            *)
TypeOK ==
  CASE kind = "semaphore"  -> Sem!TypeOK
    [] kind = "event"      -> Evt!TypeOK
    [] kind = "mailbox"    -> Box!TypeOK
    [] kind = "mempool"    -> Blk!TypeOK
    [] kind = "completion" -> Cmp!TypeOK
    [] kind = "dataqueue"  -> Dtq!TypeOK
    [] kind = "serial"     -> Ser!TypeOK
    [] kind = "workqueue"  -> Wkq!TypeOK
    [] kind = "waitqueue"  -> Wtq!TypeOK
    [] kind = "condvar"    -> Cvr!TypeOK
    [] kind = "heap"       -> Mem!TypeOK
    [] kind = "memheap"    -> Mhp!TypeOK
    [] kind = "shell"      -> Shl!TypeOK
    [] kind = "pins"       -> Pin!TypeOK
    [] kind = "ringblocks" -> Rbb!TypeOK
    [] kind = "ringbuffer" -> Rng!TypeOK
    [] kind = "transfer"   -> Rym!TypeOK

(* No thread sleeps beside a token, and no token is lost on the way from    *)
(* rt_sem_release to a thread that may time out, be resumed, or see the     *)
(* semaphore reset.                                                         *)
SemaphoreServed == kind = "semaphore" => Sem!NoneAsleep /\ Sem!TokensKept

(* No thread waits for events that are set, whatever rt_event_send cleared  *)
(* for others.                                                              *)
EventsSeen == kind = "event" => Evt!NoneMissed

(* An event is cleared only for a thread that received it.                  *)
EventsKept == [][kind = "event" => Evt!NotDropped]_vars

(* Mailbox senders and receivers: one is woken per place or mail, and none  *)
(* is left asleep when the woken one is late, fails or is overtaken.        *)
MailboxServed == kind = "mailbox" => Box!NoLostWakeup

(* The blocks of a memory pool, of the heaps and of a block ring: lists,    *)
(* chain, counter and headers agree; nobody waits beside a free block of    *)
(* the pool, and no allocation of mem.c fails beside room for it.           *)
BlocksKept ==
  /\ kind = "mempool" => Blk!BlocksServed
  /\ kind = "heap" => Mem!BlocksOK
  /\ kind = "memheap" => Mhp!ListsOK
  /\ kind = "ringblocks" => Rbb!RingOK

(* A completion beside the time-out of its waiter, handlers nesting.        *)
CompletionServed == kind = "completion" => Cmp!WaiterFound

(* A completion is used up only by a wait that succeeds.                    *)
CompletionTaken == [][kind = "completion" => Cmp!DoneTaken]_vars

(* Poppers and pushers of a data queue, with resets that wake them one by   *)
(* one.                                                                     *)
DataQueueServed == kind = "dataqueue" => Dtq!NoneLeft

(* A reader that looks and then sleeps misses nothing that comes between    *)
(* the two: the shell its bytes, the waiter of a wait queue its wake-up,    *)
(* those at a condition variable the items they are signalled.  Nor does    *)
(* the handler of a pin miss an edge.                                       *)
ReaderServed ==
  /\ kind = "pins" => Pin!EdgesTold
  /\ kind = "serial" => Ser!ShellServed
  /\ kind = "waitqueue" => Wtq!WaiterWoken
  /\ kind = "condvar" => Cvr!SignalsServed

(* The worker never sleeps beside a work submitted, and no token of the     *)
(* work queue's semaphore outlives the work it was released for.            *)
WorkServed == kind = "workqueue" => Wkq!WorkServed

(* Who sleeps until a work is done is woken before the worker goes on.      *)
WorkTold == [][kind = "workqueue" => Wkq!AllTold]_vars

(* What the objects promise: a semaphore counts tokens, a mailbox and a     *)
(* data queue are queues, the receive FIFO is a stream of bytes, of which   *)
(* an overrun leaves the newest alone, the heaps and a block ring hand out  *)
(* regions that do not overlap and are as long as asked for, a ring buffer  *)
(* holds the last bytes put, the shell edits a line and remembers the last  *)
(* ones, and a file is received as it was sent or not at all, whatever the  *)
(* lines lose and damage.                                                   *)
ObjectsImplement ==
  /\ kind = "semaphore" => Sem!Abstract!Init
  /\ [][kind = "semaphore" => [Sem!Abstract!Next]_(Sem!Abstract!vars)]_vars
  /\ kind = "mailbox" => Box!Abstract!Init
  /\ [][kind = "mailbox" => [Box!Abstract!Next]_(Box!Abstract!vars)]_vars
  /\ kind = "dataqueue" => Dtq!Abstract!Init
  /\ [][kind = "dataqueue" => [Dtq!Abstract!Next]_(Dtq!Abstract!vars)]_vars
  /\ kind = "serial" => Ser!Abstract!Init
  /\ [][kind = "serial" => [Ser!Abstract!Next]_(Ser!Unread) \/ Ser!Overruns]_vars
  /\ kind = "heap" => Mem!Abstract!Init
  /\ [][kind = "heap" => [Mem!Abstract!Next]_(Mem!Handed) /\ Mem!CallsKept]_vars
  /\ kind = "memheap" => Mhp!Abstract!Init
  /\ [][kind = "memheap" => [Mhp!Abstract!Next]_(Mhp!Handed) /\ Mhp!CallsKept]_vars
  /\ kind = "shell" => Shl!Abstract!Init
  /\ [][kind = "shell" => [Shl!Abstract!Next]_(Shl!Abstract!vars)]_vars
  /\ kind = "ringblocks" => Rbb!Abstract!Init
  /\ [][kind = "ringblocks" => [Rbb!Abstract!Next]_(Rbb!Handed) /\ Rbb!CallsKept]_vars
  /\ kind = "ringbuffer" => Rng!Abstract!Init
  /\ [][kind = "ringbuffer" => [Rng!Abstract!Next]_(Rng!Held) /\ Rng!CallsKept]_vars
  /\ kind = "transfer" => Rym!Abstract!Init
  /\ [][kind = "transfer" => [Rym!Abstract!Next]_(Rym!Mapped)]_vars

(* ipc.c:686: a release resumes a thread or increases the value: each       *)
(* token released is in the value or given to a thread.                     *)
ReleaseCounts == kind = "semaphore" => Sem!TokensKept

(* condvar.c:133: the last waiter to leave a condition variable finds       *)
(* waiting_mtx as the first one set it.                                     *)
LeaverFindsMutex == kind = "condvar" => Cvr!LastFindsMutex
=============================================================================
