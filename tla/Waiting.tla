------------------------------- MODULE Waiting -------------------------------
(***************************************************************************)
(* How threads wait for the objects of ipc.c, mempool.c and the drivers'   *)
(* ipc directory: the wait lists, the status, the error number and the     *)
(* thread timer, as operators on one record.  Each module of an object     *)
(* extends this one.                                                       *)
(*                                                                         *)
(* Any thread that is not suspended may take the next step: the order in   *)
(* which the scheduler picks them is left open.                            *)
(*                                                                         *)
(* A thread timer that runs out is taken from the timer list with          *)
(* interrupts disabled; its callback runs later in the same tick           *)
(* interrupt.  Between the two only a handler that nests in the tick       *)
(* interrupt can run.                                                      *)
(***************************************************************************)
EXTENDS Naturals, SequencesExt, FiniteSetsExt

CONSTANTS
  Thread,    \* the threads
  Isr,       \* the interrupt handlers, which never wait
  Priority,  \* the priority of each thread, 0 is the highest
  Waits,     \* the time-outs in use: "forever", "finite" (0 is always in use)
  Nested     \* whether a handler may interrupt the tick interrupt

WaitingAssumption ==
  /\ IsFiniteSet(Thread) /\ Thread \cap Isr = {}
  /\ Priority \in [Thread -> Nat]
  /\ Waits \subseteq {"forever", "finite"}
  /\ Nested \in BOOLEAN

Actor == Thread \cup Isr

VARIABLES
  w,         \* the waiting threads (WState)
  pc,        \* where each actor stands in the calls of the object
  arg        \* what its call holds in local variables

(* An object has at most two wait lists.                                    *)
List == {"main", "sender"}

(* thread->error with its sign.                                             *)
Error == {"EOK", "+EINTR", "-EINTR", "-ETIMEOUT", "+ERROR"}

(* The thread timer of a suspended thread:                                  *)
(*   off      it does not run                                               *)
(*   armed    it runs, and sched_flag_ttmr_set is set                       *)
(*   firing   it has run out and its callback is due; the flag is set       *)
(*   missed   the same, after a failed stop that cleared the flag           *)
WState ==
  [list  : [List -> Seq(Thread)],
   susp  : SUBSET Thread,
   err   : [Thread -> Error],
   timer : [Thread -> {"off", "armed", "firing", "missed"}]]

InitW ==
  [list  |-> [l \in List |-> <<>>],
   susp  |-> {},
   err   |-> [t \in Thread |-> "EOK"],
   timer |-> [t \in Thread |-> "off"]]

-----------------------------------------------------------------------------
(* Suspending. *)

(* rt_susp_list_enqueue: in order of arrival, or before the first thread of *)
(* a lower priority.                                                        *)
Enqueue(list, t, flag) ==
  LET lower == {i \in DOMAIN list : flag = "PRIO" /\ Priority[t] < Priority[list[i]]}
  IN  InsertAt(list, Min(lower \cup {Len(list) + 1}), t)

(* rt_thread_suspend_with_flag and the start of the timer, after the caller *)
(* has set the error to e.                                                  *)
Suspend(v, t, e, wait) ==
  [v EXCEPT !.err[t] = e,
            !.susp = @ \cup {t},
            !.timer[t] = IF wait = "finite" THEN "armed" ELSE "off"]

(* rt_thread_suspend_to_list                                                *)
SuspendTo(v, t, l, flag, e, wait) ==
  [Suspend(v, t, e, wait) EXCEPT !.list[l] = Enqueue(@, t, flag)]

-----------------------------------------------------------------------------
(* Waking. *)

Unlink(v, t) == [v EXCEPT !.list = [l \in List |-> RemoveFirst(@[l], t)]]

(* rt_sched_thread_ready fails for a thread that is not suspended, and for  *)
(* one whose timer cannot be stopped; the failed stop clears the flag.      *)
CanReady(v, t) == t \in v.susp /\ v.timer[t] # "firing"

Ready(v, t) ==
  IF CanReady(v, t)
  THEN [Unlink(v, t) EXCEPT !.susp = @ \ {t},
                            !.timer[t] = IF @ = "missed" THEN @ ELSE "off"]
  ELSE [v EXCEPT !.timer[t] = IF @ = "firing" THEN "missed" ELSE @]

(* rt_susp_list_dequeue: only the first thread is tried.                    *)
Dequeue(v, l, e) ==
  IF v.list[l] = <<>>
  THEN v
  ELSE LET t == Head(v.list[l])
       IN  IF CanReady(v, t) THEN [Ready(v, t) EXCEPT !.err[t] = e] ELSE Ready(v, t)

(* A walk over a list that takes a step for each of its threads.            *)
ForEach(v, threads, Step(_, _)) ==
  LET after[n \in 0 .. Len(threads)] ==
        IF n = 0 THEN v ELSE Step(after[n - 1], threads[n])
  IN  after[Len(threads)]

(* rt_susp_list_resume_all stops at the first thread it cannot wake.        *)
ResumeAll(v, l, e) ==
  LET one(u, t) == IF u.list[l] # <<>> /\ Head(u.list[l]) = t THEN Dequeue(u, l, e) ELSE u
  IN  ForEach(v, v.list[l], one)

(* rt_wqueue_wakeup resumes the first thread of a wait queue that can be    *)
(* resumed, and takes its node out; the error of each that is tried is EOK. *)
Try(v, t) == [Ready(v, t) EXCEPT !.err[t] = "EOK"]

FirstReady(v, nodes) ==
  Min({i \in DOMAIN nodes : CanReady(v, nodes[i])} \cup {Len(nodes) + 1})

WakeOne(v, nodes) ==
  ForEach(v, SubSeq(nodes, 1, Min({FirstReady(v, nodes), Len(nodes)})), Try)

WithoutWoken(v, nodes) ==
  IF FirstReady(v, nodes) > Len(nodes) THEN nodes ELSE RemoveAt(nodes, FirstReady(v, nodes))

(* rt_wqueue_wakeup_all leaves the nodes to their threads.                  *)
WakeAll(v, nodes) == ForEach(v, nodes, Try)

-----------------------------------------------------------------------------
(* Who may run. *)

InCallback == \E t \in Thread : w.timer[t] \in {"firing", "missed"}

CanRun(a) ==
  IF a \in Thread THEN a \notin w.susp /\ ~ InCallback ELSE InCallback => Nested

(* The actor may enter a call.                                              *)
Free(a) == CanRun(a) /\ pc[a] = "run"

-----------------------------------------------------------------------------
(* What happens to a waiting thread whatever it waits for. *)

(* _timer_check takes the timer from the list and unlocks.                  *)
Expire(t) ==
  /\ w.timer[t] = "armed" /\ ~ InCallback
  /\ w' = [w EXCEPT !.timer[t] = "firing"]
  /\ UNCHANGED <<pc, arg>>

(* Mutant: the thread that timed out stays in the wait list.                *)
Timeout_KeepsNode(t) ==
  /\ w.timer[t] \in {"firing", "missed"}
  /\ t \in w.susp
  /\ w' = [w EXCEPT !.susp = @ \ {t}, !.timer[t] = "off", !.err[t] = "-ETIMEOUT"]
  /\ UNCHANGED <<pc, arg>>

(* _thread_timeout, which asserts that the thread is still suspended.       *)
Timeout(t) ==
  /\ w.timer[t] \in {"firing", "missed"}
  /\ t \in w.susp
  /\ w' = [Unlink(w, t) EXCEPT !.susp = @ \ {t}, !.timer[t] = "off", !.err[t] = "-ETIMEOUT"]
  /\ UNCHANGED <<pc, arg>>

(* rt_thread_resume of a waiting thread, by any code.                       *)
Resume(t) ==
  /\ t \in w.susp
  /\ \E a \in Actor : CanRun(a)
  /\ w' = Ready(w, t)
  /\ UNCHANGED <<pc, arg>>

WaitStep == \E t \in Thread : Expire(t) \/ Timeout(t) \/ Resume(t)

-----------------------------------------------------------------------------
(* The threads that were woken and have not run since.                      *)
Woken(at) == {t \in Thread : pc[t] = at /\ t \notin w.susp /\ w.err[t] = "EOK"}

(* The wait lists hold suspended threads, each once; a timer runs only for  *)
(* a suspended thread.                                                      *)
WaitTypeOK ==
  /\ w \in WState
  /\ IsInjective(w.list["main"] \o w.list["sender"])
  /\ ToSet(w.list["main"] \o w.list["sender"]) \subseteq w.susp
  /\ \A t \in Thread : w.timer[t] # "off" => t \in w.susp

(* When the callback of a thread timer runs, the thread is still suspended: *)
(* resuming a thread and stopping its timer are one operation.              *)
CallbackFindsThread ==
  \A t \in Thread : w.timer[t] \in {"firing", "missed"} => t \in w.susp
=============================================================================
