----------------------------- MODULE ThreadLife -----------------------------
(***************************************************************************)
(* The life of threads beside the scheduler: they are created, started,    *)
(* return from their entry function, delete themselves or each other, wait *)
(* in the defunct list, and are freed by the idle thread.  The list node   *)
(* of a thread is in turn in a ready list and in the defunct list.         *)
(*                                                                         *)
(* Closing a thread and putting it into the defunct list are two steps of  *)
(* a critical section that interrupts may come between.  The mutexes and   *)
(* the thread timers of the dying threads are in modules Mutex and Timer.  *)
(***************************************************************************)
EXTENDS Scheduler

VARIABLES
  defunct,   \* _rt_thread_defunct, head first
  dead       \* the threads whose objects and stacks do not exist

lifeVars == <<k, on, sw, frame, isr, defunct, dead>>

(* Where a thread stands in the calls of this module; curr is the thread    *)
(* that is closed or freed.                                                 *)
(*   close    in a critical section, before rt_thread_close                 *)
(*   enqueue  before rt_thread_defunct_enqueue                              *)
(*   leave    before rt_exit_critical                                       *)
(*   left     a closed thread that has left it, the flag not yet tested     *)
(*   reap     the idle thread with a thread from the defunct list           *)
LifePc == {"close", "enqueue", "leave", "left", "reap"}
LifeFrame == [pc : Pc \cup LifePc, curr : Thread]

(* The values the data can have; a frame's thread matters as in Scheduler.  *)
LifeTypeOK ==
  /\ k \in KState /\ k.nest <= NestMax + 1
  /\ on \in Thread /\ sw \in SwitchRec
  /\ frame \in [Thread -> LifeFrame] /\ isr \in Seq(Frame) /\ Len(isr) <= IsrMax
  /\ defunct \in Seq(Thread) /\ dead \subseteq Thread \ {Idle}

LifeInit == Init /\ defunct = <<>> /\ dead = {}

-----------------------------------------------------------------------------
(* A spin lock is left in the state k1: outside a critical section that     *)
(* serves a pending switch.                                                 *)
Unlock(k1) ==
  IF k1.nest = 0 /\ k1.flag
  THEN Reschedule([k1 EXCEPT !.flag = FALSE], k1.cur)
  ELSE k' = k1 /\ UNCHANGED sw

Own == InThread /\ At("run")
Target == Current.curr
GotoFor(pc, t) == SetFrame([pc |-> pc, curr |-> t])

(* Mutant: the scheduler is not locked around the two steps.                *)
Dies_Unlocked(t) ==
  /\ k' = k
  /\ GotoFor("close", t)
  /\ UNCHANGED <<on, sw, defunct, dead>>

(* The first step of _thread_exit and _thread_detach: rt_enter_critical.    *)
Dies(t) ==
  /\ k' = [k EXCEPT !.nest = @ + 1]
  /\ GotoFor("close", t)
  /\ UNCHANGED <<on, sw, defunct, dead>>

(* _thread_exit after the entry function returns, or RT_THREAD_CTRL_CLOSE   *)
(* of the calling thread; with the scheduler unlocked.                      *)
Exit == Own /\ on # Idle /\ k.nest = 0 /\ Dies(on)

(* rt_thread_delete or rt_thread_detach of a thread that is not yet closed. *)
Delete(t) ==
  /\ Own /\ t \notin {on, Idle} \cup dead /\ k.stat[t] # "CLOSE"
  /\ Dies(t)

(* Mutant: the thread stays in its ready list.                              *)
CloseThread_KeepsReady(t) == [k EXCEPT !.stat[t] = "CLOSE", !.yield[t] = FALSE]

(* rt_sched_remove_thread and rt_sched_thread_close.                        *)
CloseThread(t) ==
  [(IF k.stat[t] = "INIT" THEN k ELSE RemoveThread(k, t))
     EXCEPT !.stat[t] = "CLOSE", !.yield[t] = FALSE]

(* rt_thread_close *)
Close ==
  /\ At("close")
  /\ k' = CloseThread(Target)
  /\ GotoFor("enqueue", Target)
  /\ UNCHANGED <<on, sw, defunct, dead>>

(* rt_thread_defunct_enqueue *)
Enqueue ==
  /\ At("enqueue")
  /\ defunct' = Cons(Target, defunct)
  /\ GotoFor("leave", Target)
  /\ UNCHANGED <<k, on, sw, dead>>

(* Mutant: the lock that rt_enter_critical took is kept.                    *)
Leave_KeepsLock ==
  /\ At("leave")
  /\ IF Target = on THEN GotoFor("left", on) ELSE Goto("run")
  /\ UNCHANGED <<k, on, sw, defunct, dead>>

(* rt_exit_critical_safe                                                    *)
Leave ==
  /\ At("leave")
  /\ k' = [k EXCEPT !.nest = IF @ > 0 THEN @ - 1 ELSE 0]
  /\ CASE Target = on                -> GotoFor("left", on)
       [] Target # on /\ k.nest <= 1 -> Goto("exit")
       [] OTHER                      -> Goto("run")
  /\ UNCHANGED <<on, sw, defunct, dead>>

(* The dying thread calls rt_schedule, or has its flag served by it.        *)
Left ==
  /\ At("left")
  /\ Goto(IF k.flag THEN "clear" ELSE "resched")
  /\ UNCHANGED <<k, on, sw, defunct, dead>>

-----------------------------------------------------------------------------
(* Mutant: the thread stays in the defunct list.                            *)
Reap_KeepsNode ==
  /\ Own /\ on = Idle /\ k.nest = 0 /\ defunct # <<>>
  /\ Unlock(k)
  /\ GotoFor("reap", Head(defunct))
  /\ UNCHANGED <<on, defunct, dead>>

(* rt_defunct_execute, from the loop of the idle thread: take a thread out  *)
(* of the list ...                                                          *)
Reap ==
  /\ Own /\ on = Idle /\ k.nest = 0 /\ defunct # <<>>
  /\ defunct' = Tail(defunct)
  /\ Unlock(k)
  /\ GotoFor("reap", Head(defunct))
  /\ UNCHANGED <<on, dead>>

(* A thread as rt_sched_thread_init_ctx leaves it, but for the status.      *)
Fresh(t) ==
  [k EXCEPT !.yield[t] = FALSE, !.slice[t] = InitTick, !.iprio[t] = InitPrio[t],
            !.cprio[t] = InitPrio[t], !.mask[t] = {}]

(* ... and free it, later and with interrupts enabled; what the object held *)
(* is gone.                                                                 *)
FreeThread ==
  /\ At("reap")
  /\ dead' = dead \cup {Target}
  /\ Unlock(Fresh(Target))
  /\ Goto("run")
  /\ UNCHANGED <<on, defunct>>

(* rt_thread_create or rt_thread_init of a freed thread.                    *)
Create(t) ==
  /\ Own /\ t \in dead
  /\ dead' = dead \ {t}
  /\ Unlock([Fresh(t) EXCEPT !.stat[t] = "INIT"])
  /\ frame' = [frame EXCEPT ![t] = [pc |-> "run", curr |-> t]]
  /\ UNCHANGED <<on, isr, defunct>>

(* The priority of a thread that is not closed.                             *)
Prioritise(t, p) == k.stat[t] # "CLOSE" /\ ControlPriority(t, p)

LifeNext ==
  \/ Exit \/ Close \/ Enqueue \/ Leave \/ Left \/ Reap \/ FreeThread
  \/ \E t \in Thread : Delete(t) \/ Create(t)
  \/ /\ KernelNext \/ \E t \in Thread, p \in Prio : Prioritise(t, p)
     /\ UNCHANGED <<defunct, dead>>

LifeSpec == LifeInit /\ [][LifeNext]_lifeVars

-----------------------------------------------------------------------------
(* Threads that die, are freed and come back leave the ready queue in       *)
(* order, whatever they were doing and whoever deletes them; a thread that  *)
(* can run has the mask of its priority; the current thread runs, suspends  *)
(* itself or dies.                                                          *)
QueueSurvives == QueueOK(k) /\ CurrentOK(k)

(* The threads on their way into and out of the defunct list.               *)
Closing == {frame[t].curr : t \in {u \in Thread : frame[u].pc = "enqueue"}}
Reaping == {frame[t].curr : t \in {u \in Thread : frame[u].pc = "reap"}}

(* No thread that has died is forgotten: it does not leave the CPU before   *)
(* it is in the defunct list, and each closed thread is in that list once,  *)
(* or in the hands of the one who puts it there or takes it out.            *)
NoneForgotten ==
  /\ IsInjective(defunct) /\ ToSet(defunct) \cap (Closing \cup Reaping) = {}
  /\ {t \in Thread \ dead : k.stat[t] = "CLOSE"} = ToSet(defunct) \cup Closing \cup Reaping

(* A thread is freed only when nothing uses it: it is neither on the CPU    *)
(* nor about to be saved or loaded by PendSV, in no list, and in the hands  *)
(* of no call; and it stays unused until it is created again.               *)
Freed == dead \cup Reaping

Held(f) == f.pc \in {"sched", "tick", "close", "enqueue", "leave", "left"}

InUse ==
  {on, k.cur} \cup (IF sw.pend THEN {sw.from, sw.to} ELSE {})
  \cup ToSet(defunct)
  \cup {isr[i].curr : i \in {j \in DOMAIN isr : Held(isr[j])}}
  \cup {frame[t].curr : t \in {u \in Thread \ Freed : Held(frame[u])}}
  \cup UNION {ToSet(k.list[p]) : p \in Prio}

NoneUsedFreed == InUse \cap Freed = {}

(* For model checking: the idle thread below all others.          *)
IdleLowest == [t \in Thread |-> IF t = Idle THEN 1 ELSE 0]
=============================================================================
