------------------------------- MODULE Kernel -------------------------------
(***************************************************************************)
(* The scheduler's data and the routines of scheduler_up.c and             *)
(* scheduler_comm.c that change it, as operators on one record.            *)
(*                                                                         *)
(* Every operator takes the scheduler's state k and returns the state the  *)
(* C routine leaves: the callers in thread.c, ipc.c and timer.c are        *)
(* modelled by composing the operators in the order of the calls.  Each    *)
(* routine runs with interrupts disabled, so one application is one step.  *)
(*                                                                         *)
(*   cur      rt_cpu_self()->current_thread                                *)
(*   stat     the thread status without its YIELD bit                      *)
(*   yield    the YIELD bit of the status                                  *)
(*   iprio    init_priority                                                *)
(*   cprio    current_priority                                             *)
(*   mask     number_mask, as the set of the priorities whose bit is set   *)
(*   slice    remaining_tick                                               *)
(*   list     rt_thread_priority_table, head first                         *)
(*   group    rt_thread_ready_priority_group, as a set of priorities       *)
(*   nest     rt_scheduler_lock_nest                                       *)
(*   flag     rt_scheduler_critical_switch_flag                            *)
(***************************************************************************)
EXTENDS Naturals, SequencesExt

CONSTANTS
  Thread,    \* the threads
  PrioMax,   \* RT_THREAD_PRIORITY_MAX: the number of priorities, 0 is the highest
  InitPrio,  \* the priority each thread is created with
  InitTick   \* the time slice each thread is created with

ASSUME KernelAssumption ==
  /\ PrioMax \in Nat \ {0}
  /\ InitPrio \in [Thread -> 0 .. PrioMax - 1]
  /\ InitTick \in Nat \ {0}

Prio == 0 .. PrioMax - 1

(* The three RT_THREAD_SUSPEND_* codes differ only in the signals that may  *)
(* interrupt the wait, and this configuration has no signals.               *)
Stat == {"INIT", "READY", "RUNNING", "SUSPEND", "CLOSE"}

KState ==
  [cur   : Thread,
   stat  : [Thread -> Stat],
   yield : [Thread -> BOOLEAN],
   iprio : [Thread -> Prio],
   cprio : [Thread -> Prio],
   mask  : [Thread -> SUBSET Prio],
   slice : [Thread -> 1 .. InitTick],
   list  : [Prio -> Seq(Thread)],
   group : SUBSET Prio,
   nest  : Nat,
   flag  : BOOLEAN]

-----------------------------------------------------------------------------
(* Readers. *)

(* __rt_ffs on the ready group: the lowest bit set. *)
HighestReady(k) == CHOOSE p \in k.group : \A q \in k.group : p <= q

IsSuspended(k, t) == k.stat[t] = "SUSPEND"

-----------------------------------------------------------------------------
(* The ready queue. *)

(* Mutant: a thread that yielded is put at the head like any other.         *)
InsertThread_YieldAtHead(k, t) ==
  IF t = k.cur
  THEN [k EXCEPT !.stat[t] = "RUNNING"]
  ELSE [k EXCEPT !.stat[t] = "READY",
                 !.list[k.cprio[t]] = Cons(t, @),
                 !.group = @ \cup k.mask[t]]

(* rt_sched_insert_thread: the current thread is only marked RUNNING; any   *)
(* other goes to the head of its list, or to the tail when it yielded.      *)
InsertThread(k, t) ==
  IF t = k.cur
  THEN [k EXCEPT !.stat[t] = "RUNNING"]
  ELSE [k EXCEPT !.stat[t] = "READY",
                 !.list[k.cprio[t]] = IF k.yield[t] THEN Append(@, t) ELSE Cons(t, @),
                 !.group = @ \cup k.mask[t]]

(* Mutant: the group bit survives the last thread of its list.              *)
RemoveThread_KeepsBit(k, t) == [k EXCEPT !.list = [p \in Prio |-> RemoveFirst(@[p], t)]]

(* rt_sched_remove_thread: unlink the node from the list it is in, then     *)
(* clear the group bit if the list of the thread's priority is empty.       *)
RemoveThread(k, t) ==
  LET l == [p \in Prio |-> RemoveFirst(k.list[p], t)]
  IN  [k EXCEPT !.list = l,
                !.group = IF l[k.cprio[t]] = <<>> THEN @ \ k.mask[t] ELSE @]

-----------------------------------------------------------------------------
(* rt_schedule, from the point where interrupts are disabled.  curr is the  *)
(* value of rt_thread_self() the caller read before that.                   *)

(* The current thread goes on: it still runs, and no ready thread has a     *)
(* higher priority, nor an equal one when the thread yielded.               *)
KeepsCurrent(k, curr) ==
  /\ k.stat[curr] = "RUNNING"
  /\ \/ k.cprio[curr] < HighestReady(k)
     \/ k.cprio[curr] = HighestReady(k) /\ ~ k.yield[curr]

ToThread(k, curr) ==
  IF KeepsCurrent(k, curr) THEN curr ELSE Head(k.list[HighestReady(k)])

(* Mutant: the switch ignores the scheduler lock.                           *)
Switches_Unlocked(k, curr) == k.group # {} /\ ToThread(k, curr) # curr

(* The call reaches rt_hw_context_switch or rt_hw_context_switch_interrupt. *)
Switches(k, curr) ==
  k.nest = 0 /\ k.group # {} /\ ToThread(k, curr) # curr

(* to_thread # curr_thread: publish the new current thread, put the old one *)
(* back if it still runs, clear its YIELD bit, take the new one out.        *)
SwitchThread(k, from, to) ==
  LET k1 == [k EXCEPT !.cur = to]
      k2 == IF k.stat[from] = "RUNNING" THEN InsertThread(k1, from) ELSE k1
      k3 == RemoveThread([k2 EXCEPT !.yield[from] = FALSE], to)
  IN  [k3 EXCEPT !.stat[to] = "RUNNING"]

KeepThread(k, curr) == [RemoveThread(k, curr) EXCEPT !.stat[curr] = "RUNNING"]

Schedule(k, curr) ==
  CASE k.nest # 0                       -> [k EXCEPT !.flag = TRUE]
    [] k.nest = 0 /\ k.group = {}       -> k
    [] k.nest = 0 /\ k.group # {}       ->
         IF ToThread(k, curr) = curr
         THEN KeepThread(k, curr)
         ELSE SwitchThread(k, curr, ToThread(k, curr))

-----------------------------------------------------------------------------
(* Status changes. *)

(* rt_sched_thread_startup: the mask is set and the status byte replaced.   *)
StartupThread(k, t) ==
  [k EXCEPT !.mask[t] = {k.cprio[t]}, !.stat[t] = "SUSPEND", !.yield[t] = FALSE]

(* rt_sched_thread_ready of a thread without a running thread timer.  The   *)
(* node's suspend list belongs to the caller's module.                      *)
ReadyThread(k, t) == IF IsSuspended(k, t) THEN InsertThread(k, t) ELSE k

(* rt_thread_suspend_to_list: fails for a thread that is neither READY nor  *)
(* RUNNING; the YIELD bit is kept.                                          *)
CanSuspend(k, t) == k.stat[t] \in {"READY", "RUNNING"}

SuspendThread(k, t) ==
  IF CanSuspend(k, t) THEN [RemoveThread(k, t) EXCEPT !.stat[t] = "SUSPEND"] ELSE k

(* rt_sched_thread_yield *)
YieldThread(k, t) == [k EXCEPT !.slice[t] = InitTick, !.yield[t] = TRUE]

(* _rt_sched_update_priority: a READY thread moves to its new list, its     *)
(* status byte passing through INIT, which drops the YIELD bit.             *)
SetPriority(k, t, p) == [k EXCEPT !.cprio[t] = p, !.mask[t] = {p}]

(* Mutant: the priority is set before the thread leaves its old list.       *)
ChangePriority_SetsFirst(k, t, p) ==
  IF k.stat[t] = "READY"
  THEN LET k1 == RemoveThread(SetPriority(k, t, p), t)
       IN  InsertThread([k1 EXCEPT !.stat[t] = "INIT", !.yield[t] = FALSE], t)
  ELSE SetPriority(k, t, p)

ChangePriority(k, t, p) ==
  IF k.stat[t] = "READY"
  THEN LET k1 == SetPriority(RemoveThread(k, t), t, p)
       IN  InsertThread([k1 EXCEPT !.stat[t] = "INIT", !.yield[t] = FALSE], t)
  ELSE SetPriority(k, t, p)

ResetPriority(k, t, p) == [ChangePriority(k, t, p) EXCEPT !.iprio[t] = p]

(* rt_sched_tick_increase(1) up to the unlock: the last tick of a slice     *)
(* yields the thread.                                                       *)
SliceExpires(k, t) == k.slice[t] <= 1

(* Mutant: the slice is not renewed when it is used up.                     *)
TickThread_NoRenewal(k, t) == [k EXCEPT !.slice[t] = @ - 1]

TickThread(k, t) ==
  IF SliceExpires(k, t) THEN YieldThread(k, t) ELSE [k EXCEPT !.slice[t] = @ - 1]

-----------------------------------------------------------------------------
(* What the routines keep.                                                  *)

(* The mask of a thread that can run is the bit of its current priority.    *)
MaskOK(k) ==
  \A t \in Thread : k.stat[t] \notin {"INIT", "CLOSE"} => k.mask[t] = {k.cprio[t]}

(* The list of a priority holds the READY threads of that priority, each    *)
(* once.                                                                    *)
ListOK(k) ==
  \A p \in Prio :
    /\ IsInjective(k.list[p])
    /\ ToSet(k.list[p]) = {t \in Thread : k.stat[t] = "READY" /\ k.cprio[t] = p}

(* A bit of the group is set exactly when the list is not empty.            *)
GroupOK(k) == \A p \in Prio : p \in k.group <=> k.list[p] # <<>>

QueueOK(k) == MaskOK(k) /\ ListOK(k) /\ GroupOK(k)

(* The current thread runs, or has suspended itself or died and is about to *)
(* leave; no other is RUNNING.                                              *)
CurrentOK(k) ==
  /\ k.stat[k.cur] \in {"RUNNING", "SUSPEND", "CLOSE"}
  /\ \A t \in Thread : k.stat[t] = "RUNNING" => t = k.cur

(* The current thread is a runnable thread of the highest priority.         *)
Runnable(k, t) == k.stat[t] \in {"READY", "RUNNING"}

HighestCurrent(k) ==
  /\ k.stat[k.cur] = "RUNNING"
  /\ \A t \in Thread : Runnable(k, t) => k.cprio[k.cur] <= k.cprio[t]
=============================================================================
