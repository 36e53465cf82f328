------------------------------ MODULE WaitQueue ------------------------------
(***************************************************************************)
(* The wait queue of components/drivers/ipc/waitqueue.c, and a thread that *)
(* waits in it until a condition holds.  The condition is the callers':    *)
(* the waiter tests it before each rt_wqueue_wait, the others make it true *)
(* before rt_wqueue_wakeup.                                                *)
(*                                                                         *)
(* One thread waits: a waiter that returns clears the flag of a wake-up    *)
(* that another, which is just about to wait, has not seen.                *)
(***************************************************************************)
EXTENDS Waiting

CONSTANT Reader \* the thread that waits

WaitQueueAssumption == Reader \in Thread

VARIABLE wqueue \* flag, waiting_list, and the condition

vars == <<w, pc, arg, wqueue>>

(*   wait     the condition did not hold, rt_wqueue_wait to come            *)
(*   asleep   in it, suspended or woken                                     *)
(*   remove   in it, before rt_wqueue_remove                                *)
(*   wake     the condition was made true, the wake-up to come              *)
TypeOK ==
  /\ WaitTypeOK
  /\ pc \in [Actor -> {"run", "wait", "asleep", "remove", "wake"}]
  /\ wqueue \in [flag : {"CLEAN", "WAKEUP"}, list : Seq(Thread), cond : BOOLEAN]

(* rt_wqueue_init *)
Init ==
  /\ w = InitW
  /\ pc = [a \in Actor |-> "run"]
  /\ arg = [a \in Actor |-> {}]
  /\ wqueue = [flag |-> "CLEAN", list |-> <<>>, cond |-> FALSE]

Goto(a, p) == pc' = [pc EXCEPT ![a] = p] /\ UNCHANGED arg

-----------------------------------------------------------------------------
(* The waiter uses up a condition that holds, and waits for one that does   *)
(* not.                                                                     *)
Test(t) ==
  /\ Free(t)
  /\ IF wqueue.cond
     THEN wqueue' = [wqueue EXCEPT !.cond = FALSE] /\ UNCHANGED <<pc, arg>>
     ELSE Goto(t, "wait") /\ UNCHANGED wqueue
  /\ UNCHANGED w

(* Mutant: a wake-up that comes before the wait is forgotten.               *)
Wait_IgnoresFlag(t) ==
  /\ pc[t] = "wait" /\ CanRun(t)
  /\ \E wait \in Waits : w' = Suspend(w, t, "EOK", wait)
  /\ wqueue' = [wqueue EXCEPT !.list = Append(@, t)]
  /\ Goto(t, "asleep")

(* _rt_wqueue_wait: a wake-up that came before it ends it at once.          *)
Wait(t) ==
  /\ pc[t] = "wait" /\ CanRun(t)
  /\ IF wqueue.flag = "WAKEUP"
     THEN /\ w' = [w EXCEPT !.err[t] = "EOK"]
          /\ wqueue' = [wqueue EXCEPT !.flag = "CLEAN"]
          /\ Goto(t, "remove")
     ELSE /\ \E wait \in Waits : w' = Suspend(w, t, "EOK", wait)
          /\ wqueue' = [wqueue EXCEPT !.list = Append(@, t)]
          /\ Goto(t, "asleep")

(* It goes on after its sleep, or its time-out.                             *)
Awake(t) ==
  /\ pc[t] = "asleep" /\ CanRun(t)
  /\ wqueue' = [wqueue EXCEPT !.flag = "CLEAN"]
  /\ Goto(t, "remove")
  /\ UNCHANGED w

(* rt_wqueue_remove *)
RemoveNode(t) ==
  /\ pc[t] = "remove" /\ CanRun(t)
  /\ wqueue' = [wqueue EXCEPT !.list = RemoveFirst(@, t)]
  /\ Goto(t, "run")
  /\ UNCHANGED w

-----------------------------------------------------------------------------
Produce(a) ==
  /\ Free(a) /\ a # Reader
  /\ wqueue' = [wqueue EXCEPT !.cond = TRUE]
  /\ Goto(a, "wake")
  /\ UNCHANGED w

(* rt_wqueue_wakeup *)
WakeUp(a) ==
  /\ pc[a] = "wake" /\ CanRun(a)
  /\ w' = WakeOne(w, wqueue.list)
  /\ wqueue' = [wqueue EXCEPT !.flag = "WAKEUP", !.list = WithoutWoken(w, @)]
  /\ Goto(a, "run")

(* rt_wqueue_wakeup_all *)
WakeUpAll(a) ==
  /\ pc[a] = "wake" /\ CanRun(a)
  /\ w' = WakeAll(w, wqueue.list)
  /\ wqueue' = [wqueue EXCEPT !.flag = "WAKEUP"]
  /\ Goto(a, "run")

Next ==
  \/ Test(Reader) \/ Wait(Reader) \/ Awake(Reader) \/ RemoveNode(Reader)
  \/ \E a \in Actor : Produce(a) \/ WakeUp(a) \/ WakeUpAll(a)
  \/ WaitStep /\ UNCHANGED wqueue

Spec == Init /\ [][Next]_vars

-----------------------------------------------------------------------------
(* The waiter does not sleep beside a condition that holds, wherever the    *)
(* wake-up falls between its test, its wait, its time-out and its return:   *)
(* unless the wake-up is still to come, or the time-out is under way.       *)
WaiterWoken ==
  wqueue.cond /\ Reader \in w.susp =>
    \/ \E a \in Actor : pc[a] = "wake"
    \/ w.timer[Reader] \in {"firing", "missed"}
=============================================================================
