--------------------------------- MODULE Ipc ---------------------------------
(***************************************************************************)
(* The objects of ipc.c and of the drivers' ipc directory that threads     *)
(* wait for in calls of their own, over one set of threads and handlers.   *)
(***************************************************************************)
EXTENDS Naturals, Sequences

CONSTANTS
  Thread, Isr, Priority, Waits, Nested,  \* see Waiting
  Flag, Null,  \* RT_IPC_FLAG_FIFO or RT_IPC_FLAG_PRIO; no value of any kind
  ValueMax,    \* see Semaphore
  Bit,         \* see Event; the works of WorkQueue
  Size, Mail,  \* see Mailbox; the data of DataQueue
  Lwm,         \* see DataQueue
  Single       \* the worker of WorkQueue; the reader of WaitQueue

VARIABLES
  obj,         \* the object
  w, pc, arg   \* see Waiting

Sem == INSTANCE Semaphore WITH sem <- obj
Evt == INSTANCE Event WITH event <- obj
Box == INSTANCE Mailbox WITH mb <- obj
Cmp == INSTANCE Completion WITH comp <- obj, Nested <- TRUE
Dtq == INSTANCE DataQueue WITH dq <- obj, Item <- Mail
Wkq == INSTANCE WorkQueue WITH wq <- obj, Work <- Bit, Worker <- Single
Wtq == INSTANCE WaitQueue WITH wqueue <- obj, Reader <- Single

ASSUME IpcAssumption ==
  /\ Sem!SemaphoreAssumption /\ Sem!WaitingAssumption
  /\ Evt!EventAssumption /\ Box!MailboxAssumption /\ Cmp!CompletionAssumption
  /\ Dtq!DataQueueAssumption /\ Wkq!WorkQueueAssumption

ASSUME WaiterAssumption == Wtq!WaitQueueAssumption
=============================================================================
