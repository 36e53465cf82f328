------------------------------ MODULE WorkQueue ------------------------------
(***************************************************************************)
(* The work queue of components/drivers/ipc/workqueue.c: a worker thread,  *)
(* the works submitted to it at once or with a delay, and cancellation.    *)
(* The worker sleeps on a completion; who cancels a work that runs sleeps  *)
(* on a semaphore.                                                         *)
(*                                                                         *)
(* Times are left out: a delayed work may stand at any place of its list   *)
(* and fall due at any moment.                                             *)
(***************************************************************************)
EXTENDS Waiting

CONSTANTS
  Worker,    \* the thread of the queue
  Work,      \* the works
  Null       \* no work

WorkQueueAssumption == Worker \in Thread /\ Null \notin Work

VARIABLE wq \* work_list, delayed_list, work_current, sem's value, and the
            \* flag of wakeup_completion

vars == <<w, pc, arg, wq>>

(*   loop     the worker looks at its lists                                 *)
(*   idle     found none, rt_completion_wait to come; arg is the delay      *)
(*   wait     in rt_completion_wait                                         *)
(*   work     in a work function, where it may call what a thread may       *)
(*   ack      in _workqueue_work_completion, before rt_sem_trytake          *)
(*   release  in it, before rt_sem_release                                  *)
(*   cancel   in rt_workqueue_cancel_work_sync, work arg is not current     *)
(*   sync     in it, work arg was current, rt_sem_take to come              *)
(*   asleep   in that rt_sem_take                                           *)
(*   all      in rt_workqueue_cancel_all_work, in the loop over work_list;  *)
(*            arg is the work it has read, to be cancelled                  *)
(*   alllate  in its loop over delayed_list                                 *)
TypeOK ==
  /\ WaitTypeOK
  /\ pc \in [Actor -> {"run", "loop", "idle", "wait", "work", "ack", "release",
                       "cancel", "sync", "asleep", "all", "alllate"}]
  /\ arg \in [Actor -> Work \cup {Null, "finite", "forever"}]
  /\ wq \in [works : Seq(Work), delayed : Seq(Work), current : Work \cup {Null},
             sem : 0 .. 1, done : BOOLEAN]
  /\ IsInjective(wq.works \o wq.delayed)

(* rt_workqueue_create *)
Init ==
  /\ w = InitW
  /\ pc = [a \in Actor |-> IF a = Worker THEN "loop" ELSE "run"]
  /\ arg = [a \in Actor |-> Null]
  /\ wq = [works |-> <<>>, delayed |-> <<>>, current |-> Null, sem |-> 0, done |-> FALSE]

Goto(a, p) == pc' = [pc EXCEPT ![a] = p]
Set(a, x) == arg' = [arg EXCEPT ![a] = x]

-----------------------------------------------------------------------------
(* Submitting and cancelling. *)

(* rt_workqueue_cancel_all_work disables preemption.                        *)
Runs(a) == CanRun(a) /\ (a \in Thread => \A b \in Actor \ {a} : pc[b] \notin {"all", "alllate"})

(* May call: outside a call, or from a work function.                       *)
Calls(a) == Runs(a) /\ pc[a] \in {"run", "work"}

(* rt_list_remove *)
Out(x) == [wq EXCEPT !.works = RemoveFirst(@, x), !.delayed = RemoveFirst(@, x)]

(* Mutant: the completion is not done for a delayed work.                   *)
WakeWorker_NotDelayed(q) ==
  IF Len(q.delayed) > Len(wq.delayed)
  THEN wq' = q /\ UNCHANGED w
  ELSE /\ w' = IF pc[Worker] = "wait" THEN Ready(w, Worker) ELSE w
       /\ wq' = [q EXCEPT !.done = TRUE]

(* rt_completion_done; the queue becomes q.                                 *)
WakeWorker(q) ==
  /\ w' = IF pc[Worker] = "wait" /\ ~ wq.done THEN Ready(w, Worker) ELSE w
  /\ wq' = [q EXCEPT !.done = TRUE]

(* rt_workqueue_dowork, rt_workqueue_urgent_work, and a delayed submission. *)
Submit(a, x) ==
  /\ Calls(a)
  /\ LET q == Out(x)
     IN  \/ WakeWorker([q EXCEPT !.works = Append(@, x)])
         \/ WakeWorker([q EXCEPT !.works = Cons(x, @)])
         \/ \E i \in 1 .. Len(q.delayed) + 1 :
              WakeWorker([q EXCEPT !.delayed = InsertAt(@, i, x)])
  /\ UNCHANGED <<pc, arg>>

(* rt_workqueue_cancel_work; for the current work it returns -RT_EBUSY.     *)
Cancel(a, x) ==
  /\ Calls(a)
  /\ wq' = Out(x)
  /\ UNCHANGED <<w, pc, arg>>

(* rt_workqueue_cancel_all_work: a loop over each list; between the look at *)
(* the list and the cancellation handlers may move the work.                *)
CancelAll(a) ==
  /\ Calls(a)
  /\ Goto(a, "all") /\ Set(a, Null)
  /\ UNCHANGED <<w, wq>>

Loop(a, list, next) ==
  IF list = <<>> THEN Goto(a, next) /\ UNCHANGED arg ELSE Set(a, Head(list)) /\ UNCHANGED pc

CancelLook(a) ==
  /\ Runs(a) /\ arg[a] = Null
  /\ \/ pc[a] = "all" /\ Loop(a, wq.works, "alllate")
     \/ pc[a] = "alllate" /\ Loop(a, wq.delayed, IF a = Worker THEN "work" ELSE "run")
  /\ UNCHANGED <<w, wq>>

CancelOne(a) ==
  /\ Runs(a) /\ pc[a] \in {"all", "alllate"} /\ arg[a] # Null
  /\ wq' = Out(arg[a])
  /\ Set(a, Null)
  /\ UNCHANGED <<w, pc>>

(* rt_workqueue_cancel_work_sync looks at work_current with interrupts      *)
(* enabled ...                                                              *)
CancelSync(t, x) ==
  /\ Runs(t) /\ pc[t] = "run"
  /\ Goto(t, IF wq.current = x THEN "sync" ELSE "cancel")
  /\ Set(t, x)
  /\ UNCHANGED <<w, wq>>

(* ... and then cancels the work ...                                        *)
CancelOther(t) ==
  /\ pc[t] = "cancel" /\ Runs(t)
  /\ wq' = Out(arg[t])
  /\ Goto(t, "run") /\ Set(t, Null)
  /\ UNCHANGED w

(* ... or sleeps until a work has been completed.                           *)
AwaitWork(t) ==
  /\ pc[t] = "sync" /\ Runs(t)
  /\ Set(t, Null)
  /\ \/ wq.sem > 0 /\ wq' = [wq EXCEPT !.sem = @ - 1] /\ Goto(t, "run") /\ UNCHANGED w
     \/ /\ wq.sem = 0
        /\ w' = SuspendTo(w, t, "main", "FIFO", "+EINTR", "forever")
        /\ Goto(t, "asleep") /\ UNCHANGED wq

AwaitReturn(t) ==
  /\ pc[t] = "asleep" /\ Runs(t)
  /\ Goto(t, "run")
  /\ UNCHANGED <<w, arg, wq>>

-----------------------------------------------------------------------------
(* The worker. *)

At(p) == pc[Worker] = p /\ Runs(Worker)

(* Move n due works to the work list; take the first work, or go to sleep   *)
(* until the next one falls due.                                            *)
Look ==
  /\ At("loop")
  /\ \E n \in 0 .. Len(wq.delayed) :
       LET works == wq.works \o SubSeq(wq.delayed, 1, n)
           late  == SubSeq(wq.delayed, n + 1, Len(wq.delayed))
       IN  IF works = <<>>
           THEN /\ Goto(Worker, "idle")
                /\ Set(Worker, IF late = <<>> THEN "forever" ELSE "finite")
                /\ UNCHANGED wq
           ELSE /\ wq' = [wq EXCEPT !.works = Tail(works), !.delayed = late,
                                    !.current = Head(works)]
                /\ Goto(Worker, "work")
                /\ UNCHANGED arg
  /\ UNCHANGED w

(* Mutant: a completion done before the wait is forgotten.                  *)
Sleep_Forgets ==
  /\ At("idle")
  /\ wq' = [wq EXCEPT !.done = FALSE]
  /\ w' = Suspend(w, Worker, "EOK", arg[Worker])
  /\ Goto(Worker, "wait")
  /\ Set(Worker, Null)

(* rt_completion_wait *)
Sleep ==
  /\ At("idle")
  /\ \/ wq.done /\ Goto(Worker, "loop") /\ UNCHANGED w
     \/ ~ wq.done /\ w' = Suspend(w, Worker, "EOK", arg[Worker]) /\ Goto(Worker, "wait")
  /\ wq' = [wq EXCEPT !.done = FALSE]
  /\ Set(Worker, Null)

Awake ==
  /\ At("wait")
  /\ wq' = [wq EXCEPT !.done = FALSE]
  /\ Goto(Worker, "loop")
  /\ UNCHANGED <<w, arg>>

(* The work function returns; work_current is cleared without the lock.     *)
WorkDone ==
  /\ At("work")
  /\ wq' = [wq EXCEPT !.current = Null]
  /\ Goto(Worker, "ack")
  /\ UNCHANGED <<w, arg>>

(* _workqueue_work_completion: release until a token is left over, and take *)
(* that.                                                                    *)
TryTake ==
  /\ At("ack")
  /\ IF wq.sem > 0
     THEN wq' = [wq EXCEPT !.sem = @ - 1] /\ Goto(Worker, "loop")
     ELSE Goto(Worker, "release") /\ UNCHANGED wq
  /\ UNCHANGED <<w, arg>>

(* Mutant: one release is enough.                                           *)
Release_Once ==
  /\ At("release")
  /\ w' = Dequeue(w, "main", "EOK")
  /\ wq' = [wq EXCEPT !.sem = IF w.list["main"] = <<>> THEN 1 ELSE 0]
  /\ Goto(Worker, IF w.list["main"] = <<>> THEN "ack" ELSE "loop")
  /\ UNCHANGED arg

Release ==
  /\ At("release")
  /\ w' = Dequeue(w, "main", "EOK")
  /\ wq' = [wq EXCEPT !.sem = IF w.list["main"] = <<>> THEN 1 ELSE @]
  /\ Goto(Worker, "ack")
  /\ UNCHANGED arg

Next ==
  \/ Look \/ Sleep \/ Awake \/ WorkDone \/ TryTake \/ Release
  \/ \E a \in Actor : \/ CancelAll(a) \/ CancelLook(a) \/ CancelOne(a)
                      \/ \E x \in Work : Submit(a, x) \/ Cancel(a, x)
  \/ \E t \in Thread \ {Worker} :
       CancelOther(t) \/ AwaitWork(t) \/ AwaitReturn(t) \/ \E x \in Work : CancelSync(t, x)
  \/ (Expire(Worker) \/ Timeout(Worker)) /\ UNCHANGED wq

Spec == Init /\ [][Next]_vars

-----------------------------------------------------------------------------
(* The worker never sleeps beside a work: a submission between its look at  *)
(* the lists and its sleep, or beside its time-out, is seen; with a delayed *)
(* work it does not sleep for ever.  And no token is left over for a thread *)
(* that will wait for a later work.                                         *)
WorkServed ==
  /\ Worker \in w.susp =>
       wq.works = <<>> /\ (wq.delayed # <<>> => w.timer[Worker] # "off")
  /\ pc[Worker] \notin {"ack", "release"} => wq.sem = 0

(* When the worker goes on after a work, nobody still sleeps who waited for *)
(* its end.                                                                 *)
AllTold ==
  pc[Worker] \in {"ack", "release"} /\ pc'[Worker] = "loop" => w'.list["main"] = <<>>
=============================================================================
