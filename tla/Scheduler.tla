----------------------------- MODULE Scheduler -----------------------------
(***************************************************************************)
(* The uniprocessor scheduler at work: threads calling the scheduling API, *)
(* interrupt handlers that tick, wake threads and may nest, the scheduler  *)
(* lock, and the deferred context switch of the Cortex-M port (PendSV).    *)
(*                                                                         *)
(* rt_schedule reads the current thread before it disables interrupts, and *)
(* rt_exit_critical tests and clears the pending-switch flag with          *)
(* interrupts enabled.  Each such point is a step boundary: a context's    *)
(* frame records how far its call has come.                                *)
(***************************************************************************)
EXTENDS Kernel

CONSTANTS
  Idle,      \* the idle thread
  Main,      \* the thread that runs first
  NestMax,   \* bound: depth of rt_enter_critical
  IsrMax     \* bound: depth of nested interrupt handlers

ASSUME SchedulerAssumption ==
  /\ Idle \in Thread /\ Main \in Thread \ {Idle}
  /\ \A t \in Thread : InitPrio[t] <= InitPrio[Idle]
  /\ NestMax \in Nat /\ IsrMax \in Nat

VARIABLES
  k,      \* the scheduler's data (module Kernel)
  on,     \* the thread whose registers and stack the CPU holds
  sw,     \* rt_thread_switch_interrupt_flag, rt_interrupt_from_thread, .._to_thread
  frame,  \* where each thread stands in its scheduler call
  isr     \* the frames of the active interrupt handlers, innermost last

vars == <<k, on, sw, frame, isr>>

(* Where a context stands.                                                  *)
(*   run      in its own code                                               *)
(*   resched  about to call rt_schedule                                     *)
(*   sched    in rt_schedule, curr read, interrupts not yet disabled        *)
(*   tick     in rt_sched_tick_increase, thread read, lock not yet taken    *)
(*   exit     in rt_exit_critical, nest is 0, flag not yet tested           *)
(*   clear    in rt_exit_critical, flag seen set, not yet cleared           *)
Pc == {"run", "resched", "sched", "tick", "exit", "clear"}
Frame == [pc : Pc, curr : Thread]
SwitchRec == [pend : BOOLEAN, from : Thread, to : Thread]

TypeOK ==
  /\ k \in KState
  /\ on \in Thread
  /\ sw \in SwitchRec
  /\ frame \in [Thread -> Frame]
  /\ isr \in Seq(Frame)
  /\ k.nest <= NestMax /\ Len(isr) <= IsrMax

(* The state the first PendSV leaves after rt_system_scheduler_start: the   *)
(* main thread runs, idle is ready, the other threads are initialised.      *)
Init ==
  /\ k = [cur   |-> Main,
          stat  |-> [t \in Thread |-> CASE t = Main -> "RUNNING"
                                        [] t = Idle -> "READY"
                                        [] OTHER    -> "INIT"],
          yield |-> [t \in Thread |-> FALSE],
          iprio |-> InitPrio,
          cprio |-> InitPrio,
          mask  |-> [t \in Thread |-> IF t \in {Main, Idle} THEN {InitPrio[t]} ELSE {}],
          slice |-> [t \in Thread |-> InitTick],
          list  |-> [p \in Prio |-> IF p = InitPrio[Idle] THEN <<Idle>> ELSE <<>>],
          group |-> {InitPrio[Idle]},
          nest  |-> 0,
          flag  |-> FALSE]
  /\ on = Main
  /\ sw = [pend |-> FALSE, from |-> Main, to |-> Main]
  /\ frame = [t \in Thread |-> [pc |-> "run", curr |-> t]]
  /\ isr = <<>>

-----------------------------------------------------------------------------
(* The executing context: the innermost handler, else the thread on the CPU. *)
(* PendSV has the lowest priority but precedes the next thread instruction.  *)

InIsr == isr # <<>>
InThread == ~ InIsr /\ ~ sw.pend
Current == IF InIsr THEN Last(isr) ELSE frame[on]
At(pc) == (InIsr \/ InThread) /\ Current.pc = pc

(* The executing context's frame becomes f. *)
SetFrame(f) ==
  IF InIsr
  THEN isr' = [isr EXCEPT ![Len(isr)] = f] /\ UNCHANGED frame
  ELSE frame' = [frame EXCEPT ![on] = f] /\ UNCHANGED isr

(* curr matters only where the code holds a value it read earlier. *)
Goto(pc) == SetFrame([pc |-> pc, curr |-> on])

(* Mutant: a second request before PendSV replaces `from'.                  *)
ContextSwitch_Replaces(s, from, to) == [pend |-> TRUE, from |-> from, to |-> to]

(* rt_hw_context_switch: a second request before PendSV only changes `to'. *)
ContextSwitch(s, from, to) ==
  [pend |-> TRUE, from |-> IF s.pend THEN s.from ELSE from, to |-> to]

(* rt_schedule with interrupts already disabled, in the state k1. *)
Reschedule(k1, curr) ==
  /\ k' = Schedule(k1, curr)
  /\ sw' = IF Switches(k1, curr) THEN ContextSwitch(sw, curr, ToThread(k1, curr)) ELSE sw

-----------------------------------------------------------------------------
(* Calls of any context. *)

(* rt_thread_resume: wake and reschedule under one lock. *)
Resume(t) ==
  /\ At("run")
  /\ IF IsSuspended(k, t)
     THEN Reschedule(ReadyThread(k, t), k.cur)
     ELSE UNCHANGED <<k, sw>>
  /\ UNCHANGED <<on, frame, isr>>

(* The wake-up of an IPC release: rt_spin_lock_irqsave, make the thread     *)
(* ready, rt_spin_unlock_irqrestore (which serves a pending switch), and    *)
(* only then, interrupts enabled again, rt_schedule.                        *)
Wake(t) ==
  /\ At("run")
  /\ IsSuspended(k, t)
  /\ LET k1 == ReadyThread(k, t)
     IN  IF k.nest = 0 /\ k.flag
         THEN Reschedule([k1 EXCEPT !.flag = FALSE], k.cur)
         ELSE k' = k1 /\ UNCHANGED sw
  /\ Goto("resched")
  /\ UNCHANGED on

(* rt_schedule: read the current thread ... *)
ReadCurrent ==
  /\ At("resched")
  /\ SetFrame([pc |-> "sched", curr |-> k.cur])
  /\ UNCHANGED <<k, on, sw>>

(* ... and decide with interrupts disabled. *)
DoSchedule ==
  /\ At("sched")
  /\ Reschedule(k, Current.curr)
  /\ Goto("run")
  /\ UNCHANGED on

-----------------------------------------------------------------------------
(* Calls of a thread. *)

(* rt_thread_startup *)
Startup(t) ==
  /\ InThread /\ At("run")
  /\ k.stat[t] = "INIT"
  /\ Reschedule(ReadyThread(StartupThread(k, t), t), k.cur)
  /\ UNCHANGED <<on, frame, isr>>

(* rt_thread_yield *)
Yield ==
  /\ InThread /\ At("run")
  /\ Reschedule(YieldThread(k, k.cur), k.cur)
  /\ UNCHANGED <<on, frame, isr>>

(* rt_thread_suspend of the calling thread; its caller must reschedule. *)
Suspend ==
  /\ InThread /\ At("run")
  /\ on # Idle
  /\ k' = SuspendThread(k, k.cur)
  /\ IF CanSuspend(k, k.cur) THEN Goto("resched") ELSE UNCHANGED <<frame, isr>>
  /\ UNCHANGED <<on, sw>>

(* rt_enter_critical *)
EnterCritical ==
  /\ InThread /\ At("run")
  /\ k.nest < NestMax
  /\ k' = [k EXCEPT !.nest = @ + 1]
  /\ UNCHANGED <<on, sw, frame, isr>>

(* rt_exit_critical: leave one level; at level 0 go on to test the flag. *)
ExitCritical ==
  /\ InThread /\ At("run")
  /\ k.nest > 0
  /\ k' = [k EXCEPT !.nest = @ - 1]
  /\ IF k.nest = 1 THEN Goto("exit") ELSE UNCHANGED <<frame, isr>>
  /\ UNCHANGED <<on, sw>>

(* Mutant: the outermost exit does not look at the flag.                    *)
TestFlag_Ignored ==
  /\ At("exit")
  /\ Goto("run")
  /\ UNCHANGED <<k, on, sw>>

TestFlag ==
  /\ At("exit")
  /\ Goto(IF k.flag THEN "clear" ELSE "run")
  /\ UNCHANGED <<k, on, sw>>

ClearFlag ==
  /\ At("clear")
  /\ k' = [k EXCEPT !.flag = FALSE]
  /\ Goto("resched")
  /\ UNCHANGED <<on, sw>>

(* rt_thread_control(RT_THREAD_CTRL_CHANGE_PRIORITY / RESET_PRIORITY): no   *)
(* rescheduling follows.                                                    *)
ControlPriority(t, p) ==
  /\ InThread /\ At("run")
  /\ k' \in {ChangePriority(k, t, p), ResetPriority(k, t, p)}
  /\ UNCHANGED <<on, sw, frame, isr>>

-----------------------------------------------------------------------------
(* Interrupts. *)

IsrEnter ==
  /\ Len(isr) < IsrMax
  /\ isr' = Append(isr, [pc |-> "run", curr |-> on])
  /\ UNCHANGED <<k, on, sw, frame>>

IsrLeave ==
  /\ InIsr /\ At("run")
  /\ isr' = Front(isr)
  /\ UNCHANGED <<k, on, sw, frame>>

(* rt_sched_tick_increase: read the thread ... *)
TickRead ==
  /\ InIsr /\ At("run")
  /\ SetFrame([pc |-> "tick", curr |-> k.cur])
  /\ UNCHANGED <<k, on, sw>>

(* ... and charge it one tick, rescheduling when its slice is used up. *)
TickCharge ==
  /\ At("tick")
  /\ IF SliceExpires(k, Current.curr)
     THEN Reschedule(TickThread(k, Current.curr), k.cur)
     ELSE k' = TickThread(k, Current.curr) /\ UNCHANGED sw
  /\ Goto("run")
  /\ UNCHANGED on

(* PendSV_Handler: save the context on the CPU as that of `from', load `to'. *)
(* `from' and `to' are not read again before the next request sets them.    *)
PendSV ==
  /\ sw.pend /\ ~ InIsr
  /\ on' = sw.to
  /\ sw' = [pend |-> FALSE, from |-> sw.to, to |-> sw.to]
  /\ UNCHANGED <<k, frame, isr>>

-----------------------------------------------------------------------------
ThreadNext ==
  \/ \E t \in Thread : Startup(t)
  \/ Yield \/ Suspend
  \/ EnterCritical \/ ExitCritical \/ TestFlag \/ ClearFlag

IsrNext == IsrEnter \/ IsrLeave \/ TickRead \/ TickCharge \/ PendSV

SharedNext ==
  \/ \E t \in Thread : Resume(t) \/ Wake(t)
  \/ ReadCurrent \/ DoSchedule

(* The kernel without priority control by the application ... *)
KernelNext == ThreadNext \/ IsrNext \/ SharedNext
KernelSpec == Init /\ [][KernelNext]_vars

(* ... restricted to handlers that wake threads by rt_thread_resume only ... *)
LockedNext ==
  \/ ThreadNext \/ IsrNext
  \/ \E t \in Thread : Resume(t) \/ (InThread /\ Wake(t))
  \/ ReadCurrent \/ DoSchedule
LockedSpec == Init /\ [][LockedNext]_vars

(* ... with the progress of a started call and of a handler: interrupts     *)
(* leave the threads some time, and calls and handlers finish ...           *)
CallStep == ReadCurrent \/ DoSchedule \/ TestFlag \/ ClearFlag \/ TickCharge
Fairness ==
  /\ SF_vars(PendSV \/ (InThread /\ CallStep))
  /\ WF_vars(InIsr /\ CallStep) /\ SF_vars(IsrLeave)
FairSpec == KernelSpec /\ Fairness

(* ... and with priority control. *)
Next == KernelNext \/ \E t \in Thread, p \in Prio : ControlPriority(t, p)
Spec == Init /\ [][Next]_vars

-----------------------------------------------------------------------------
(* Properties. *)

(* The ready queue agrees with the threads' states at every step boundary   *)
(* (module Kernel), and the current thread with the thread states.          *)
ReadyQueueOK == QueueOK(k) /\ CurrentOK(k)

(* PendSV saves the registers on the CPU into the stack of `from' and loads *)
(* those of `to': whatever sequence of reschedulings precedes it, `from' is *)
(* the thread on the CPU and `to' the current thread.  Without a pending    *)
(* switch the thread on the CPU is the current thread.                      *)
ContextOK ==
  IF sw.pend THEN sw.from = on /\ sw.to = k.cur ELSE on = k.cur

(* A thread executes its own code with the scheduler unlocked only while it *)
(* is RUNNING and no runnable thread has a higher priority: no interleaving *)
(* of wake-ups, ticks and the unlocked tail of rt_exit_critical loses a     *)
(* rescheduling request.                                                    *)
HighestRuns ==
  (At("run") /\ InThread /\ k.nest = 0) => on = k.cur /\ HighestCurrent(k)

(* A thread inside rt_enter_critical stays on the CPU until it leaves,      *)
(* even when it suspends itself or interrupts wake threads meanwhile.       *)
CriticalPinned == [][k.nest > 0 => on' = on]_vars

(* Why the highest-priority thread is not lost: whenever the current thread *)
(* is not the highest, some context is still to reschedule, or the flag is  *)
(* set and the current thread is still to leave its critical section.       *)
Served ==
  /\ Runnable(k, Idle)
  /\ \/ HighestCurrent(k)
     \/ \E i \in DOMAIN isr : isr[i].pc \in {"resched", "sched"}
     \/ frame[k.cur].pc \in {"resched", "sched", "clear"}
     \/ k.flag /\ (k.nest > 0 \/ frame[k.cur].pc = "exit")

(* The current thread a context has read in rt_schedule is the current one; *)
(* handlers lock the scheduler only by disabling interrupts.                *)
FramesOK ==
  /\ \A t \in Thread : frame[t].pc = "sched" => frame[t].curr = t
  /\ \A i \in DOMAIN isr :
       /\ isr[i].pc \in {"run", "resched", "sched", "tick"}
       /\ isr[i].pc = "sched" => i = Len(isr) /\ isr[i].curr = k.cur

(* No switch is pending while the scheduler is locked.                      *)
PinnedOK == k.nest > 0 => ~ sw.pend

Inv == TypeOK /\ ReadyQueueOK /\ ContextOK /\ FramesOK /\ PinnedOK

(* A running thread of priority p, with the scheduler unlocked, gives way   *)
(* to its equals: it yields, or a tick ends its slice.                      *)
GivesWay(p) ==
  /\ k.stat[k.cur] = "RUNNING" /\ k.cprio[k.cur] = p /\ k.nest = 0
  /\ Yield \/ (TickCharge /\ SliceExpires(k, k.cur))

(* Round robin among equals: as long as threads of its priority give way    *)
(* again and again, a READY thread runs unless a thread of higher priority  *)
(* can.  Woken threads enter at the head of their list, ahead of threads    *)
(* that have waited longer, and threads that wake each other may do so many *)
(* times within a slice: whoever gives way comes behind all that wait, and  *)
(* stays behind them until it runs.                                         *)
NoStarvation ==
  \A t \in Thread :
    ([]<><<GivesWay(InitPrio[t])>>_vars) =>
      []<>(\/ k.stat[t] # "READY"
           \/ \E u \in Thread : k.cprio[u] < k.cprio[t] /\ Runnable(k, u))
=============================================================================
