----------------------------- MODULE MessageQueue -----------------------------
(***************************************************************************)
(* The message queue of ipc.c.  A message slot is taken from the free list *)
(* with interrupts disabled, filled with interrupts enabled, and linked    *)
(* into the list of messages with interrupts disabled again; a receive     *)
(* unlinks a slot, copies it and gives it back in the same way.  Threads   *)
(* and interrupt handlers run between these steps.                         *)
(*                                                                         *)
(* Any thread that is not suspended may take the next step: the order in   *)
(* which the scheduler picks them is left open.  A thread timer that runs  *)
(* out is taken from the timer list with interrupts disabled; its callback *)
(* runs later in the same tick interrupt.  Between the two only a handler  *)
(* that nests in the tick interrupt can run.                               *)
(***************************************************************************)
EXTENDS Naturals, SequencesExt

CONSTANTS
  Thread,    \* the threads
  Isr,       \* the interrupt handlers, which never wait
  Slot,      \* the message slots of the pool
  Msg,       \* the messages
  Null,      \* no slot or no message
  Waits,     \* the time-outs in use: "forever", "finite" (0 is always in use)
  Nested     \* whether a handler may interrupt the tick interrupt

RT_MQ_ENTRY_MAX == 65535

ASSUME MessageQueueAssumption ==
  /\ Thread \cap Isr = {} /\ IsFiniteSet(Thread)
  /\ Slot # {} /\ IsFiniteSet(Slot) /\ Null \notin Slot \cup Msg
  /\ Cardinality(Slot) <= RT_MQ_ENTRY_MAX
  /\ Waits \subseteq {"forever", "finite"}
  /\ Nested \in BOOLEAN

Actor == Thread \cup Isr

VARIABLES
  q,          \* the lists of slots (below)
  content,    \* the message in each slot
  senders,    \* mq->suspend_sender_thread
  receivers,  \* mq->parent.suspend_thread
  pc,         \* where each actor stands
  slot,       \* msg: the slot it holds
  buf,        \* its buffer
  wait,       \* the time it still has to wait
  err,        \* thread->error
  timer       \* the thread timers

lists == <<q, content, senders, receivers>>
vars == <<q, content, senders, receivers, pc, slot, buf, wait, err, timer>>

SlotOrNull == Slot \cup {Null}

(* msg_queue_free, msg_queue_head, msg_queue_tail, entry and the links.     *)
QState ==
  [free  : SlotOrNull,
   head  : SlotOrNull,
   tail  : SlotOrNull,
   entry : 0 .. Cardinality(Slot),
   next  : [Slot -> SlotOrNull]]

(*   run      outside the calls                                             *)
(*   send     in a send that has waited: suspended, or woken                *)
(*   fill     holds a free slot to fill; urgent: for rt_mq_urgent           *)
(*   link     has filled it                                                 *)
(*   recv     in a receive that has waited                                  *)
(*   copy     holds a slot to copy out                                      *)
(*   give     has copied it                                                 *)
Pc == {"run", "send", "fill", "fillurgent", "link", "linkurgent", "recv", "copy", "give"}

(* thread->error with its sign: RT_ERROR is set as a positive number.       *)
Error == {"EOK", "-EINTR", "-ETIMEOUT", "+ERROR"}

(* The timer of a suspended thread:                                         *)
(*   off      it does not run                                               *)
(*   armed    it runs, and sched_flag_ttmr_set is set                       *)
(*   firing   it has run out and its callback is due; the flag is set       *)
(*   missed   the same, after a failed stop that cleared the flag           *)
TimerState == {"off", "armed", "firing", "missed"}

TypeOK ==
  /\ q \in QState
  /\ content \in [Slot -> Msg \cup {Null}]
  /\ senders \in Seq(Thread) /\ receivers \in Seq(Thread)
  /\ pc \in [Actor -> Pc]
  /\ slot \in [Actor -> SlotOrNull]
  /\ buf \in [Actor -> Msg \cup {Null}]
  /\ wait \in [Actor -> {"none", "finite", "forever"}]
  /\ err \in [Thread -> Error]
  /\ timer \in [Thread -> TimerState]

(* rt_mq_init puts the slots on the free list, the last one first.          *)
Order == SetToSeq(Slot)

Empty ==
  [free  |-> Last(Order),
   head  |-> Null,
   tail  |-> Null,
   entry |-> 0,
   next  |-> [c \in Slot |-> IF c = Head(Order) THEN Null
                             ELSE Order[CHOOSE i \in 1 .. Len(Order) - 1 : Order[i + 1] = c]]]

Init ==
  /\ q = Empty
  /\ content = [c \in Slot |-> Null]
  /\ senders = <<>> /\ receivers = <<>>
  /\ pc = [a \in Actor |-> "run"]
  /\ slot = [a \in Actor |-> Null]
  /\ buf = [a \in Actor |-> Null]
  /\ wait = [a \in Actor |-> "none"]
  /\ err = [t \in Thread |-> "EOK"]
  /\ timer = [t \in Thread |-> "off"]

-----------------------------------------------------------------------------
(* Waiting and waking. *)

Suspended(a) == a \in ToSet(senders) \cup ToSet(receivers)

InCallback == \E t \in Thread : timer[t] \in {"firing", "missed"}

CanRun(a) ==
  IF a \in Thread THEN ~ Suspended(a) /\ ~ InCallback ELSE InCallback => Nested

(* rt_thread_suspend_to_list and the start of the timer.  A priority queue  *)
(* puts the thread anywhere, a FIFO one at the end.                         *)
Enqueue(list, t) == {InsertAt(list, i, t) : i \in 1 .. Len(list) + 1}

(* What the loops around a wait do before they suspend the thread.          *)
Wait(t, w) ==
  /\ err' = [err EXCEPT ![t] = "-EINTR"]
  /\ timer' = [timer EXCEPT ![t] = IF w = "finite" THEN "armed" ELSE "off"]
  /\ wait' = [wait EXCEPT ![t] = w]

(* rt_sched_thread_timer_stop fails for a timer that is no longer in its    *)
(* list, and clears the flag; without the flag it does nothing.             *)
Stopped(t) == IF timer[t] \in {"off", "armed"} THEN "off" ELSE "missed"

(* rt_susp_list_dequeue tries only the first waiter, and cannot wake one    *)
(* whose timer cannot be stopped.                                           *)
Tried(list) == IF list = <<>> THEN {} ELSE {Head(list)}
First(list) == {t \in Tried(list) : timer[t] # "firing"}

(* The callers ignore whether it succeeds.                                  *)
Wake(list) ==
  /\ err' = [t \in Thread |-> IF t \in First(list) THEN "EOK" ELSE err[t]]
  /\ timer' = [t \in Thread |-> IF t \in Tried(list) THEN Stopped(t) ELSE timer[t]]

Waiters(list) == IF First(list) = {} THEN list ELSE Tail(list)

(* rt_susp_list_resume_all by a thread, so between callbacks: both lists    *)
(* are emptied.                                                             *)
WakeAll(e) ==
  /\ err' = [t \in Thread |-> IF Suspended(t) THEN e ELSE err[t]]
  /\ timer' = [t \in Thread |-> IF Suspended(t) THEN "off" ELSE timer[t]]
  /\ senders' = <<>> /\ receivers' = <<>>

(* The time left after a wait of limited time: some, or none.               *)
Left(t) == IF wait[t] = "finite" THEN {"finite", "none"} ELSE {wait[t]}

Return(a) ==
  /\ pc' = [pc EXCEPT ![a] = "run"]
  /\ slot' = [slot EXCEPT ![a] = Null]
  /\ buf' = [buf EXCEPT ![a] = Null]
  /\ wait' = [wait EXCEPT ![a] = "none"]

-----------------------------------------------------------------------------
(* rt_mq_send_wait and rt_mq_urgent *)

(* Take the first free slot. *)
Claim(a, m, to) ==
  /\ q.free # Null
  /\ slot' = [slot EXCEPT ![a] = q.free]
  /\ q' = [q EXCEPT !.free = q.next[q.free]]
  /\ buf' = [buf EXCEPT ![a] = m]
  /\ pc' = [pc EXCEPT ![a] = to]
  /\ wait' = [wait EXCEPT ![a] = "none"]
  /\ UNCHANGED <<content, senders, receivers, err, timer>>

SendBlocks(t, m, w) ==
  /\ q.free = Null /\ w # "none"
  /\ senders' \in Enqueue(senders, t)
  /\ Wait(t, w)
  /\ buf' = [buf EXCEPT ![t] = m]
  /\ pc' = [pc EXCEPT ![t] = "send"]
  /\ UNCHANGED <<q, content, receivers, slot>>

(* A full queue and no time to wait: the call fails, nothing changes.       *)
Send(a, m) ==
  /\ CanRun(a) /\ pc[a] = "run"
  /\ \/ Claim(a, m, "fill")
     \/ a \in Thread /\ \E w \in Waits : SendBlocks(a, m, w)

(* Woken: return the error, or try again with the time that is left.        *)
SendRetry(t) ==
  /\ CanRun(t) /\ pc[t] = "send"
  /\ \/ err[t] # "EOK" /\ Return(t) /\ UNCHANGED <<lists, err, timer>>
     \/ err[t] = "EOK" /\ Claim(t, buf[t], "fill")
     \/ err[t] = "EOK" /\ \E w \in Left(t) : SendBlocks(t, buf[t], w)
     \/ /\ err[t] = "EOK" /\ q.free = Null /\ "none" \in Left(t)
        /\ Return(t)
        /\ err' = [err EXCEPT ![t] = "-EINTR"]
        /\ UNCHANGED <<lists, timer>>

Urgent(a, m) == CanRun(a) /\ pc[a] = "run" /\ Claim(a, m, "fillurgent")

(* Mutant: the slot keeps the link it had on the free list.                 *)
Fill_KeepsLink(a) ==
  /\ CanRun(a) /\ pc[a] \in {"fill", "fillurgent"}
  /\ content' = [content EXCEPT ![slot[a]] = buf[a]]
  /\ pc' = [pc EXCEPT ![a] = IF pc[a] = "fill" THEN "link" ELSE "linkurgent"]
  /\ UNCHANGED <<q, senders, receivers, slot, buf, wait, err, timer>>

(* With interrupts enabled. *)
Fill(a) ==
  /\ CanRun(a) /\ pc[a] \in {"fill", "fillurgent"}
  /\ content' = [content EXCEPT ![slot[a]] = buf[a]]
  /\ q' = IF pc[a] = "fill" THEN [q EXCEPT !.next[slot[a]] = Null] ELSE q
  /\ pc' = [pc EXCEPT ![a] = IF pc[a] = "fill" THEN "link" ELSE "linkurgent"]
  /\ UNCHANGED <<senders, receivers, slot, buf, wait, err, timer>>

LinkLast(c) ==
  [q EXCEPT !.next = IF q.tail # Null THEN [@ EXCEPT ![q.tail] = c] ELSE @,
            !.tail = c,
            !.head = IF @ = Null THEN c ELSE @,
            !.entry = @ + 1]

LinkFirst(c) ==
  [q EXCEPT !.next[c] = q.head,
            !.head = c,
            !.tail = IF @ = Null THEN c ELSE @,
            !.entry = @ + 1]

(* Mutant: a receiver is woken only by the first message.                   *)
Link_WakesOnce(a) ==
  /\ CanRun(a) /\ pc[a] \in {"link", "linkurgent"}
  /\ q' = IF pc[a] = "link" THEN LinkLast(slot[a]) ELSE LinkFirst(slot[a])
  /\ IF q.entry = 0
     THEN Wake(receivers) /\ receivers' = Waiters(receivers)
     ELSE UNCHANGED <<receivers, err, timer>>
  /\ Return(a)
  /\ UNCHANGED <<content, senders>>

(* Link the slot and wake a receiver. *)
Link(a) ==
  /\ CanRun(a) /\ pc[a] \in {"link", "linkurgent"}
  /\ q' = IF pc[a] = "link" THEN LinkLast(slot[a]) ELSE LinkFirst(slot[a])
  /\ Wake(receivers) /\ receivers' = Waiters(receivers)
  /\ Return(a)
  /\ UNCHANGED <<content, senders>>

-----------------------------------------------------------------------------
(* rt_mq_recv *)

(* Mutant: the tail stays when the last message is taken.                   *)
Unlink_KeepsTail(a) ==
  /\ q.entry > 0
  /\ slot' = [slot EXCEPT ![a] = q.head]
  /\ q' = [q EXCEPT !.head = q.next[q.head], !.entry = @ - 1]
  /\ pc' = [pc EXCEPT ![a] = "copy"]
  /\ wait' = [wait EXCEPT ![a] = "none"]
  /\ UNCHANGED <<content, senders, receivers, buf, err, timer>>

(* Unlink the first message. *)
Unlink(a) ==
  /\ q.entry > 0
  /\ slot' = [slot EXCEPT ![a] = q.head]
  /\ q' = [q EXCEPT !.head = q.next[q.head],
                    !.tail = IF @ = q.head THEN Null ELSE @,
                    !.entry = @ - 1]
  /\ pc' = [pc EXCEPT ![a] = "copy"]
  /\ wait' = [wait EXCEPT ![a] = "none"]
  /\ UNCHANGED <<content, senders, receivers, buf, err, timer>>

RecvBlocks(t, w) ==
  /\ q.entry = 0 /\ w # "none"
  /\ receivers' \in Enqueue(receivers, t)
  /\ Wait(t, w)
  /\ pc' = [pc EXCEPT ![t] = "recv"]
  /\ UNCHANGED <<q, content, senders, slot, buf>>

Recv(a) ==
  /\ CanRun(a) /\ pc[a] = "run"
  /\ \/ Unlink(a)
     \/ a \in Thread /\ \E w \in Waits : RecvBlocks(a, w)

RecvRetry(t) ==
  /\ CanRun(t) /\ pc[t] = "recv"
  /\ \/ err[t] # "EOK" /\ Return(t) /\ UNCHANGED <<lists, err, timer>>
     \/ err[t] = "EOK" /\ Unlink(t)
     \/ err[t] = "EOK" /\ \E w \in Left(t) : RecvBlocks(t, w)
     \/ /\ err[t] = "EOK" /\ q.entry = 0 /\ "none" \in Left(t)
        /\ Return(t)
        /\ err' = [err EXCEPT ![t] = "-ETIMEOUT"]
        /\ UNCHANGED <<lists, timer>>

(* With interrupts enabled. *)
Copy(a) ==
  /\ CanRun(a) /\ pc[a] = "copy"
  /\ buf' = [buf EXCEPT ![a] = content[slot[a]]]
  /\ pc' = [pc EXCEPT ![a] = "give"]
  /\ UNCHANGED <<lists, slot, wait, err, timer>>

(* Give the slot back and wake a sender. *)
Give(a) ==
  /\ CanRun(a) /\ pc[a] = "give"
  /\ q' = [q EXCEPT !.next[slot[a]] = q.free, !.free = slot[a]]
  /\ Wake(senders) /\ senders' = Waiters(senders)
  /\ Return(a)
  /\ UNCHANGED <<content, receivers>>

-----------------------------------------------------------------------------
(* rt_mq_control(RT_IPC_CMD_RESET) by a thread: every waiter fails, every   *)
(* message goes back to the free list, the first message first.             *)
MoveToFree(z) ==
  [z EXCEPT !.head = z.next[z.head],
            !.tail = IF @ = z.head THEN Null ELSE @,
            !.next[z.head] = z.free,
            !.free = z.head]

AllFree ==
  LET moved[n \in 0 .. Cardinality(Slot)] ==
        IF n = 0 THEN q
        ELSE IF moved[n - 1].head = Null THEN moved[n - 1] ELSE MoveToFree(moved[n - 1])
  IN  [moved[Cardinality(Slot)] EXCEPT !.entry = 0]

Reset(t) ==
  /\ CanRun(t) /\ pc[t] = "run"
  /\ q' = AllFree
  /\ WakeAll("+ERROR")
  /\ UNCHANGED <<content, pc, slot, buf, wait>>

(* rt_mq_detach or rt_mq_delete, and a later rt_mq_init; the program sees   *)
(* to it that no call holds a slot.                                         *)
Detach(t) ==
  /\ CanRun(t) /\ pc[t] = "run" /\ \A a \in Actor : slot[a] = Null
  /\ q' = Empty
  /\ WakeAll("+ERROR")
  /\ UNCHANGED <<content, pc, slot, buf, wait>>

(* _timer_check takes the timer from the list and unlocks.                  *)
Expire(t) ==
  /\ timer[t] = "armed" /\ ~ InCallback
  /\ timer' = [timer EXCEPT ![t] = "firing"]
  /\ UNCHANGED <<lists, pc, slot, buf, wait, err>>

(* Mutant: the sign of the error is forgotten.                              *)
Timeout_Positive(t) ==
  /\ timer[t] \in {"firing", "missed"} /\ Suspended(t)
  /\ timer' = [timer EXCEPT ![t] = "off"]
  /\ err' = [err EXCEPT ![t] = "+ETIMEOUT"]
  /\ senders' = RemoveFirst(senders, t)
  /\ receivers' = RemoveFirst(receivers, t)
  /\ UNCHANGED <<q, content, pc, slot, buf, wait>>

(* _thread_timeout; its assertion that the thread is still suspended stops  *)
(* the system otherwise.                                                    *)
Timeout(t) ==
  /\ timer[t] \in {"firing", "missed"} /\ Suspended(t)
  /\ timer' = [timer EXCEPT ![t] = "off"]
  /\ err' = [err EXCEPT ![t] = "-ETIMEOUT"]
  /\ senders' = RemoveFirst(senders, t)
  /\ receivers' = RemoveFirst(receivers, t)
  /\ UNCHANGED <<q, content, pc, slot, buf, wait>>

(* rt_thread_resume of a waiting thread, by any code: it fails when the     *)
(* timer cannot be stopped, else the wait fails with the error set before   *)
(* it.                                                                      *)
Resume(t) ==
  /\ Suspended(t) /\ \E a \in Actor : CanRun(a)
  /\ timer' = [timer EXCEPT ![t] = Stopped(t)]
  /\ IF timer[t] = "firing"
     THEN UNCHANGED <<senders, receivers>>
     ELSE /\ senders' = RemoveFirst(senders, t)
          /\ receivers' = RemoveFirst(receivers, t)
  /\ UNCHANGED <<q, content, pc, slot, buf, wait, err>>

-----------------------------------------------------------------------------
Next ==
  \/ \E a \in Actor : \/ \E m \in Msg : Send(a, m) \/ Urgent(a, m)
                      \/ Fill(a) \/ Link(a) \/ Recv(a) \/ Copy(a) \/ Give(a)
  \/ \E t \in Thread : SendRetry(t) \/ RecvRetry(t) \/ Expire(t) \/ Timeout(t) \/ Resume(t)
                      \/ Reset(t) \/ Detach(t)

Spec == Init /\ [][Next]_vars

-----------------------------------------------------------------------------
(* Properties. *)

(* The slots that the links join from c on.                                 *)
Chain(next, c) ==
  LET walk[i \in 0 .. Cardinality(Slot)] ==
        IF i = 0 THEN c ELSE IF walk[i - 1] = Null THEN Null ELSE next[walk[i - 1]]
  IN  [i \in 1 .. Cardinality({j \in DOMAIN walk : walk[j] # Null}) |-> walk[i - 1]]

Free == Chain(q.next, q.free)
Messages == Chain(q.next, q.head)
Holders == {a \in Actor : slot[a] # Null}

(* Every slot is in exactly one place: on the free list, in the list of     *)
(* messages or in the hands of one call; both lists end, and the tail and   *)
(* the count are those of the list of messages.  No interleaving of half-   *)
(* done sends, receives and resets loses a slot or uses one twice.          *)
SlotsOK ==
  /\ IsInjective(Free \o Messages)
  /\ \A a, b \in Holders : a # b => slot[a] # slot[b]
  /\ LET listed == ToSet(Free \o Messages)
         held   == {slot[a] : a \in Holders}
     IN  listed \cap held = {} /\ listed \cup held = Slot
  /\ q.entry = Len(Messages)
  /\ q.tail = IF Messages = <<>> THEN Null ELSE Last(Messages)

(* No lost wake-up: while threads still wait, each message (each free slot) *)
(* is matched by a thread already woken that has not yet looked, though     *)
(* callers that never waited may take the message first and time-outs       *)
(* remove waiters at any moment.  It fails when Nested is TRUE, as the      *)
(* semaphore's does (module Semaphore, ReleaseCounts).                      *)
Woken(at) == {t \in Thread : pc[t] = at /\ ~ Suspended(t) /\ err[t] = "EOK"}

NoLostWakeup ==
  /\ receivers # <<>> => q.entry <= Cardinality(Woken("recv"))
  /\ senders # <<>> => Len(Free) <= Cardinality(Woken("send"))

(* The queue implements Fifo: messages come out whole and in the order of   *)
(* their linking although they are copied outside the locked sections.      *)
Hand(a) ==
  CASE pc[a] = "copy" -> content[slot[a]]
    [] pc[a] = "give" -> buf[a]
    [] OTHER          -> Null

Abstract == INSTANCE Fifo WITH
  Capacity <- Cardinality(Slot),
  InPlace  <- TRUE,
  queue    <- [i \in DOMAIN Messages |-> content[Messages[i]]],
  hand     <- [a \in Actor |-> Hand(a)]

Implements == Abstract!Spec

(* The threads, and the messages, of an instance are alike.                 *)
Symmetry == Permutations(Thread) \cup Permutations(Msg)
=============================================================================
