------------------------------ MODULE DataQueue ------------------------------
(***************************************************************************)
(* The data queue of components/drivers/ipc/dataqueue.c: a ring of         *)
(* pointers between a driver's handler and threads.  Waiting pushers are   *)
(* woken when the queue has drained to its low-water mark.                 *)
(***************************************************************************)
EXTENDS Waiting

CONSTANTS
  Size,      \* the number of places
  Lwm,       \* the low-water mark
  Item,      \* the data
  Null       \* no data

DataQueueAssumption ==
  /\ Size \in Nat \ {0} /\ Lwm \in 0 .. Size - 1
  /\ Null \notin Item

VARIABLE dq \* queue, get_index, put_index, is_empty, is_full

vars == <<w, pc, arg, dq>>

Place == 0 .. Size - 1

(*   push, pop    in a call that has waited: suspended, or woken            *)
(*   got          about to return with an item                              *)
(*   clear        in rt_data_queue_reset, before rt_enter_critical          *)
(*   reset        in its critical section                                   *)
TypeOK ==
  /\ WaitTypeOK
  /\ pc \in [Actor -> {"run", "push", "pop", "got", "clear", "reset"}]
  /\ arg \in [Actor -> [item : Item \cup {Null}, wait : {"none", "finite", "forever"}]]
  /\ dq \in [item : [Place -> Item \cup {Null}], get : Place, put : Place,
             empty : BOOLEAN, full : BOOLEAN]

Idle == [item |-> Null, wait |-> "none"]

Cleared(item) == [item |-> item, get |-> 0, put |-> 0, empty |-> TRUE, full |-> FALSE]

Init ==
  /\ w = InitW
  /\ pc = [a \in Actor |-> "run"]
  /\ arg = [a \in Actor |-> Idle]
  /\ dq = Cleared([i \in Place |-> Null])

-----------------------------------------------------------------------------
(* Preemption is disabled while a thread is in the critical section.        *)
Runs(a) == CanRun(a) /\ (a \in Thread => \A t \in Thread \ {a} : pc[t] # "reset")
Calls(a) == Runs(a) /\ pc[a] = "run"

Goto(a, p) == pc' = [pc EXCEPT ![a] = p]
Return(a) == Goto(a, "run") /\ arg' = [arg EXCEPT ![a] = Idle]

(* A wait always takes the whole time it was called with.                   *)
WaitOn(t, l, wait) == w' = SuspendTo(w, t, l, "FIFO", "EOK", wait)

(* rt_data_queue_len *)
Length(q) ==
  CASE q.empty         -> 0
    [] q.put > q.get   -> q.put - q.get
    [] OTHER           -> Size + q.put - q.get

(* Mutant: a full queue is not marked as such.                              *)
Stored_NoFull(m) ==
  [dq EXCEPT !.item[dq.put] = m, !.put = (@ + 1) % Size, !.empty = FALSE]

Stored(m) ==
  LET put == (dq.put + 1) % Size
  IN  [dq EXCEPT !.item[dq.put] = m, !.put = put, !.empty = FALSE,
                 !.full = (put = dq.get)]

Fetched ==
  LET get == (dq.get + 1) % Size
  IN  [dq EXCEPT !.get = get, !.full = FALSE, !.empty = (dq.put = get)]

(* A woken thread keeps its error number, which is RT_EOK.                  *)
WakeFirst(l) == IF w.list[l] = <<>> THEN w ELSE Ready(w, Head(w.list[l]))

(* Mutant: a popper is woken only when the queue was empty.                 *)
Store_WakesFirst(m) == dq' = Stored(m) /\ w' = IF dq.empty THEN WakeFirst("main") ELSE w

Store(m) == dq' = Stored(m) /\ w' = WakeFirst("main")

(* Mutant: a pusher is woken only below the mark.                           *)
Fetch_BelowMark(a) ==
  /\ dq' = Fetched
  /\ w' = IF Length(Fetched) < Lwm THEN WakeFirst("sender") ELSE w
  /\ Goto(a, "got")
  /\ arg' = [arg EXCEPT ![a] = [item |-> dq.item[dq.get], wait |-> "none"]]

(* Take the first item; at the low-water mark wake one pusher.              *)
Fetch(a) ==
  /\ dq' = Fetched
  /\ w' = IF Length(Fetched) <= Lwm THEN WakeFirst("sender") ELSE w
  /\ Goto(a, "got")
  /\ arg' = [arg EXCEPT ![a] = [item |-> dq.item[dq.get], wait |-> "none"]]

(* rt_data_queue_push; without time to wait, a push in vain changes nothing. *)
Push(a, m) ==
  /\ Calls(a)
  /\ \/ ~ dq.full /\ Store(m) /\ UNCHANGED <<pc, arg>>
     \/ /\ dq.full /\ a \in Thread
        /\ \E wait \in Waits :
             WaitOn(a, "sender", wait) /\ arg' = [arg EXCEPT ![a] = [item |-> m, wait |-> wait]]
        /\ Goto(a, "push")
        /\ UNCHANGED dq

PushWoken(t) ==
  /\ pc[t] = "push" /\ Runs(t)
  /\ \/ w.err[t] # "EOK" /\ Return(t) /\ UNCHANGED <<w, dq>>
     \/ w.err[t] = "EOK" /\ ~ dq.full /\ Store(arg[t].item) /\ Return(t)
     \/ w.err[t] = "EOK" /\ dq.full /\ WaitOn(t, "sender", arg[t].wait) /\ UNCHANGED <<pc, arg, dq>>

(* rt_data_queue_pop *)
Pop(a) ==
  /\ Calls(a)
  /\ \/ ~ dq.empty /\ Fetch(a)
     \/ /\ dq.empty /\ a \in Thread
        /\ \E wait \in Waits :
             WaitOn(a, "main", wait) /\ arg' = [arg EXCEPT ![a].wait = wait]
        /\ Goto(a, "pop")
        /\ UNCHANGED dq

PopWoken(t) ==
  /\ pc[t] = "pop" /\ Runs(t)
  /\ \/ w.err[t] # "EOK" /\ Return(t) /\ UNCHANGED <<w, dq>>
     \/ w.err[t] = "EOK" /\ ~ dq.empty /\ Fetch(t)
     \/ w.err[t] = "EOK" /\ dq.empty /\ WaitOn(t, "main", arg[t].wait) /\ UNCHANGED <<pc, arg, dq>>

PopReturn(a) ==
  /\ pc[a] = "got" /\ (a \in Thread => Runs(a))
  /\ Return(a)
  /\ UNCHANGED <<w, dq>>

(* rt_data_queue_reset: empty the queue, enter the critical section, and    *)
(* wake the waiting threads, one each time the queue is locked.             *)
Clear(t) ==
  /\ Calls(t)
  /\ dq' = Cleared(dq.item)
  /\ Goto(t, "clear")
  /\ UNCHANGED <<w, arg>>

EnterReset(t) ==
  /\ pc[t] = "clear" /\ Runs(t)
  /\ Goto(t, "reset")
  /\ UNCHANGED <<w, arg, dq>>

ResetOne(t) ==
  /\ pc[t] = "reset" /\ Runs(t)
  /\ \E l \in List :
       /\ w.list[l] # <<>> /\ (l = "sender" => w.list["main"] = <<>>)
       /\ w' = Dequeue(w, l, "+ERROR")
  /\ UNCHANGED <<pc, arg, dq>>

LeaveReset(t) ==
  /\ pc[t] = "reset" /\ Runs(t) /\ \A l \in List : w.list[l] = <<>>
  /\ Goto(t, "run")
  /\ UNCHANGED <<w, arg, dq>>

Next ==
  \/ \E a \in Actor : Pop(a) \/ PopReturn(a) \/ \E m \in Item : Push(a, m)
  \/ \E t \in Thread : \/ PushWoken(t) \/ PopWoken(t)
                       \/ Clear(t) \/ EnterReset(t) \/ ResetOne(t) \/ LeaveReset(t)
  \/ WaitStep /\ UNCHANGED dq

Spec == Init /\ [][Next]_vars

-----------------------------------------------------------------------------
(* Nobody is left asleep: while threads wait to pop, each item is matched   *)
(* by a popper already woken that has not yet looked; while threads wait to *)
(* push, the items and the pushers already woken, who each bring one, are   *)
(* more than the mark, or a reset is on its way to wake them all.           *)
NoneLeft ==
  /\ w.list["main"] # <<>> => Length(dq) <= Cardinality(Woken("pop"))
  /\ w.list["sender"] # <<>> =>
       \/ Length(dq) + Cardinality(Woken("push")) > Lwm
       \/ \E t \in Thread : pc[t] \in {"clear", "reset"}

(* The data queue implements Fifo; is_empty and is_full are right whenever  *)
(* the indexes meet.                                                        *)
Abstract == INSTANCE Fifo WITH
  Msg      <- Item,
  Capacity <- Size,
  InPlace  <- FALSE,
  queue    <- [i \in 1 .. Length(dq) |-> dq.item[(dq.get + i - 1) % Size]],
  hand     <- [a \in Actor |-> IF pc[a] = "got" THEN arg[a].item ELSE Null]
=============================================================================
