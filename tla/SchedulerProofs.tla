--------------------------- MODULE SchedulerProofs ---------------------------
(***************************************************************************)
(* The scheduler's invariants for any threads, priorities, slices and      *)
(* depths of the scheduler lock, and the life of threads above it.         *)
(*                                                                         *)
(* Inv is inductive for the steps that do not interrupt a handler inside   *)
(* rt_schedule; that holds when handlers do not nest, and, for any nesting, *)
(* when handlers wake threads by rt_thread_resume only.                    *)
(*                                                                         *)
(* Whoever dies, is deleted, freed and created again, the ready queue is   *)
(* in order, no closed thread is forgotten, and none is freed while it is  *)
(* used, when handlers do not nest.                                        *)
(***************************************************************************)
EXTENDS ThreadLife, KernelProofs

(* The state the first PendSV leaves satisfies the invariant, and the main  *)
(* thread is the highest.                                                   *)
LEMMA InitInv == Init => Inv /\ Served
<1> SUFFICES ASSUME Init PROVE Inv /\ Served
  OBVIOUS
<1> USE KernelAssumption, SchedulerAssumption
<1> DEFINE p0 == InitPrio[Idle]
           stat0 == [t \in Thread |-> CASE t = Main -> "RUNNING"
                                        [] t = Idle -> "READY"
                                        [] OTHER    -> "INIT"]
           mask0 == [t \in Thread |-> IF t \in {Main, Idle} THEN {InitPrio[t]} ELSE {}]
           list0 == [p \in Prio |-> IF p = p0 THEN <<Idle>> ELSE <<>>]
<1>1. /\ k.cur = Main /\ k.stat = stat0 /\ k.yield = [t \in Thread |-> FALSE]
      /\ k.iprio = InitPrio /\ k.cprio = InitPrio /\ k.mask = mask0
      /\ k.slice = [t \in Thread |-> InitTick] /\ k.list = list0
      /\ k.group = {p0} /\ k.nest = 0 /\ k.flag = FALSE
      /\ k = [cur |-> k.cur, stat |-> k.stat, yield |-> k.yield, iprio |-> k.iprio,
              cprio |-> k.cprio, mask |-> k.mask, slice |-> k.slice, list |-> k.list,
              group |-> k.group, nest |-> k.nest, flag |-> k.flag]
  BY DEF Init
<1>2. /\ on = Main /\ sw = [pend |-> FALSE, from |-> Main, to |-> Main] /\ isr = <<>>
      /\ frame = [t \in Thread |-> [pc |-> "run", curr |-> t]]
  BY DEF Init
<1>3. InitPrio \in [Thread -> Prio] /\ p0 \in Prio /\ Idle # Main
  BY DEF Prio
<1>4. stat0 \in [Thread -> Stat]
  BY DEF Stat
<1>5. list0 \in [Prio -> Seq(Thread)]
  BY <1>3
<1>6. mask0 \in [Thread -> SUBSET Prio]
  BY <1>3
<1>7. stat0[Main] = "RUNNING" /\ stat0[Idle] = "READY"
      /\ \A t \in Thread \ {Main, Idle} : stat0[t] = "INIT"
  BY <1>3
<1>8. k \in KState
  <2>1. [t \in Thread |-> InitTick] \in [Thread -> 1 .. InitTick]
    OBVIOUS
  <2>2. [t \in Thread |-> FALSE] \in [Thread -> BOOLEAN]
    OBVIOUS
  <2>3. {p0} \in SUBSET Prio /\ 0 \in Nat /\ FALSE \in BOOLEAN /\ Main \in Thread
    BY <1>3
  <2> DEFINE y0 == [t \in Thread |-> FALSE]
             s0 == [t \in Thread |-> InitTick]
  <2> HIDE DEF p0, stat0, mask0, list0, y0, s0
  <2>4. k = [cur |-> Main, stat |-> stat0, yield |-> y0, iprio |-> InitPrio,
             cprio |-> InitPrio, mask |-> mask0, slice |-> s0, list |-> list0,
             group |-> {p0}, nest |-> 0, flag |-> FALSE]
    BY <1>1 DEF y0, s0
  <2>5. y0 \in [Thread -> BOOLEAN] /\ s0 \in [Thread -> 1 .. InitTick]
    BY <2>1, <2>2 DEF y0, s0
  <2> QED BY <1>3, <1>4, <1>5, <1>6, <2>3, <2>4, <2>5 DEF KState
<1>9. MaskOK(k)
  BY <1>1, <1>3, <1>7 DEF MaskOK
<1>10. GroupOK(k)
  BY <1>1, <1>3 DEF GroupOK
<1>11. ListOK(k)
  <2> SUFFICES ASSUME NEW p \in Prio
               PROVE  /\ IsInjective(k.list[p])
                      /\ ToSet(k.list[p])
                           = {t \in Thread : k.stat[t] = "READY" /\ k.cprio[t] = p}
    BY DEF ListOK
  <2>1. \A t \in Thread : k.stat[t] = "READY" <=> t = Idle
    BY <1>1, <1>7
  <2>2. CASE p = p0
    <3>1. k.list[p] = <<Idle>>
      BY <1>1, <2>2
    <3>2. IsInjective(<<Idle>>) /\ ToSet(<<Idle>>) = {Idle}
      BY DEF IsInjective, ToSet
    <3>3. k.cprio[Idle] = p /\ Idle \in Thread
      BY <1>1, <2>2
    <3>4. {t \in Thread : k.stat[t] = "READY" /\ k.cprio[t] = p} = {Idle}
      BY <2>1, <3>3
    <3> QED BY <3>1, <3>2, <3>4
  <2>3. CASE p # p0
    <3>1. k.list[p] = <<>>
      BY <1>1, <2>3
    <3>2. IsInjective(<<>>) /\ ToSet(<<>>) = {}
      BY DEF IsInjective, ToSet
    <3> QED BY <1>1, <2>1, <2>3, <3>1, <3>2
  <2> QED BY <2>2, <2>3
<1>12. CurrentOK(k)
  BY <1>1, <1>7 DEF CurrentOK
<1>13. TypeOK
  BY <1>1, <1>2, <1>8 DEF TypeOK, Frame, Pc, SwitchRec
<1>14. FramesOK /\ ContextOK /\ PinnedOK
  BY <1>1, <1>2 DEF FramesOK, ContextOK, PinnedOK
<1>15. Served
  <2>1. HighestCurrent(k)
    <3>1. \A t \in Thread : Runnable(k, t) => t \in {Main, Idle}
      BY <1>1, <1>7 DEF Runnable
    <3>2. InitPrio[Main] <= InitPrio[Idle] /\ InitPrio[Main] <= InitPrio[Main]
      BY <1>3 DEF Prio
    <3> QED BY <1>1, <1>7, <3>1, <3>2 DEF HighestCurrent
  <2> QED BY <1>1, <1>7, <2>1 DEF Served, Runnable
<1> QED BY <1>9, <1>10, <1>11, <1>12, <1>13, <1>14, <1>15 DEF Inv, ReadyQueueOK, QueueOK

-----------------------------------------------------------------------------
(* Inv with room for what other modules add to the scheduler: the frames    *)
(* of threads may stand at any of P, and the lock may be nested to depth d. *)
FrameOf(P) == [pc : P, curr : Thread]

Shape(P, d) ==
  /\ k \in KState /\ on \in Thread /\ sw \in SwitchRec
  /\ frame \in [Thread -> FrameOf(P)] /\ isr \in Seq(Frame)
  /\ k.nest <= d /\ Len(isr) <= IsrMax

Safe(P, d) ==
  /\ Pc \subseteq P /\ d \in Nat /\ NestMax <= d
  /\ Shape(P, d) /\ ReadyQueueOK /\ ContextOK /\ FramesOK /\ PinnedOK

(* The scheduler alone: its own frames and its own lock depth.              *)
LEMMA InvSafe == Inv <=> Safe(Pc, NestMax)
  BY SchedulerAssumption DEF Inv, TypeOK, Safe, Shape, Frame, FrameOf

(* The same of the next state.                                              *)
LEMMA InvSafePrimed == Inv' <=> Safe(Pc, NestMax)'
  BY InvSafe, PTL

-----------------------------------------------------------------------------
(* The parts of a step. *)

(* rt_schedule in a state the calling routine made from k.                  *)
LEMMA RescheduleKeeps ==
  ASSUME NEW P, NEW d, Safe(P, d), NEW k1, KernelOK(k1), k1.cur = k.cur, k1.nest = k.nest,
         Reschedule(k1, k.cur), UNCHANGED on
  PROVE  /\ KernelOK(k') /\ k'.nest = k.nest
         /\ sw' \in SwitchRec /\ ContextOK' /\ PinnedOK'
         /\ \A t \in Thread : Runnable(k', t) <=> Runnable(k1, t)
         /\ SameClosed(k1, k')
         /\ k.nest # 0 => k'.flag = TRUE /\ k'.cur = k.cur
         /\ (k.nest = 0 /\ \E t \in Thread : Runnable(k1, t)) => HighestCurrent(k')
<1> DEFINE to == ToThread(k1, k.cur)
           S == Switches(k1, k.cur)
<1>1. /\ k' = Schedule(k1, k1.cur)
      /\ sw' = IF S THEN ContextSwitch(sw, k.cur, to) ELSE sw
  BY DEF Reschedule
<1>2. /\ KernelOK(k') /\ k'.nest = k1.nest
      /\ k'.cur = IF S THEN to ELSE k.cur
      /\ \A t \in Thread : Runnable(k', t) <=> Runnable(k1, t)
      /\ SameClosed(k1, k')
      /\ k1.nest # 0 => k'.flag = TRUE
      /\ (k1.nest = 0 /\ \E t \in Thread : Runnable(k1, t)) => HighestCurrent(k')
  BY ZenonT(40), <1>1, ScheduleKeeps
<1>3. S => k1.nest = 0
  BY DEF Switches
<1>4. /\ k.cur \in Thread /\ k'.cur \in Thread /\ on \in Thread /\ sw \in SwitchRec
      /\ k.nest \in Nat
  BY <1>2 DEF Safe, Shape, KState, KernelOK
<1> HIDE DEF S, to
<1>5. sw' \in SwitchRec
  BY <1>1, <1>2, <1>4 DEF ContextSwitch, SwitchRec
<1>6. ContextOK'
  BY <1>1, <1>2, <1>4 DEF ContextSwitch, ContextOK, Safe, SwitchRec
<1>7. PinnedOK'
  BY <1>1, <1>2, <1>3, <1>4 DEF PinnedOK, Safe
<1> QED BY <1>2, <1>3, <1>5, <1>6, <1>7

(* The executing context moves to frame f.                                  *)
LEMMA SetFrameKeeps ==
  ASSUME NEW P, NEW d, Safe(P, d), NEW f \in Frame, SetFrame(f),
         InIsr => f.pc \in {"run", "resched", "sched", "tick"},
         f.pc = "sched" => f.curr = IF InIsr THEN k'.cur ELSE on
  PROVE  /\ frame' \in [Thread -> FrameOf(P)]
         /\ isr' \in Seq(Frame) /\ Len(isr') = Len(isr)
         /\ FramesOK'
         /\ InIsr => /\ frame' = frame
                     /\ isr'[Len(isr)] = f
                     /\ \A i \in 1 .. Len(isr) - 1 : isr'[i] = isr[i]
         /\ ~ InIsr => isr' = isr /\ frame' = [frame EXCEPT ![on] = f]
<1>1. /\ frame \in [Thread -> FrameOf(P)] /\ isr \in Seq(Frame) /\ on \in Thread
      /\ f \in FrameOf(P)
  BY DEF Safe, Shape, Frame, FrameOf
<1>2. CASE InIsr
  <2>1. isr' = [isr EXCEPT ![Len(isr)] = f] /\ frame' = frame
    BY <1>2 DEF SetFrame
  <2>2. Len(isr) \in 1 .. Len(isr)
    BY <1>1, <1>2 DEF InIsr
  <2>3. /\ isr' \in Seq(Frame) /\ Len(isr') = Len(isr)
        /\ \A i \in 1 .. Len(isr) : isr'[i] = IF i = Len(isr) THEN f ELSE isr[i]
    BY <1>1, <2>1, <2>2, ExceptSeq
  <2>4. DOMAIN isr' = 1 .. Len(isr) /\ DOMAIN isr = 1 .. Len(isr)
    BY <1>1, <2>3
  <2>5. FramesOK'
    BY <1>2, <2>1, <2>3, <2>4 DEF FramesOK, Safe
  <2>6. /\ isr'[Len(isr)] = f
        /\ \A i \in 1 .. Len(isr) - 1 : isr'[i] = isr[i]
    BY <1>1, <2>2, <2>3
  <2> QED BY <1>1, <1>2, <2>1, <2>3, <2>5, <2>6
<1>3. CASE ~ InIsr
  <2>1. isr' = isr /\ isr = <<>> /\ frame' = [frame EXCEPT ![on] = f]
    BY <1>3 DEF SetFrame, InIsr
  <2>2. FramesOK'
    BY <1>1, <1>3, <2>1 DEF FramesOK, Safe
  <2> QED BY <1>1, <1>3, <2>1, <2>2
<1> QED BY <1>2, <1>3

(* Goto sets a frame whose curr is not used.                                *)
LEMMA GotoKeeps ==
  ASSUME NEW P, NEW d, Safe(P, d), NEW pc \in Pc \ {"sched"}, Goto(pc),
         InIsr => pc \in {"run", "resched", "tick"}
  PROVE  /\ frame' \in [Thread -> FrameOf(P)]
         /\ isr' \in Seq(Frame) /\ Len(isr') = Len(isr)
         /\ FramesOK'
         /\ InIsr => /\ frame' = frame
                     /\ isr'[Len(isr)].pc = pc
                     /\ \A i \in 1 .. Len(isr) - 1 : isr'[i] = isr[i]
         /\ ~ InIsr => isr' = isr /\ frame'[on].pc = pc
<1> DEFINE f == [pc |-> pc, curr |-> on]
<1>1. f \in Frame /\ f.pc = pc /\ SetFrame(f) /\ f.pc # "sched"
  BY DEF Safe, Shape, Frame, Goto
<1> HIDE DEF f
<1>2. /\ frame' \in [Thread -> FrameOf(P)]
      /\ isr' \in Seq(Frame) /\ Len(isr') = Len(isr)
      /\ FramesOK'
      /\ InIsr => /\ frame' = frame
                  /\ isr'[Len(isr)] = f
                  /\ \A i \in 1 .. Len(isr) - 1 : isr'[i] = isr[i]
      /\ ~ InIsr => isr' = isr /\ frame' = [frame EXCEPT ![on] = f]
  BY <1>1, SetFrameKeeps
<1> QED BY <1>1, <1>2 DEF Safe, Shape

(* No handler is inside rt_schedule when the innermost one is not.          *)
LEMMA NoHandlerInSchedule ==
  ASSUME NEW P, NEW d, Safe(P, d), NEW pc \in Pc \ {"sched"}, At(pc)
  PROVE  /\ \A i \in DOMAIN isr : isr[i].pc # "sched"
         /\ InIsr => pc \in {"run", "resched", "tick"} /\ isr[Len(isr)].pc = pc
         /\ ~ InIsr => InThread /\ isr = <<>> /\ on = k.cur /\ frame[on].pc = pc
<1>1. isr \in Seq(Frame) /\ sw \in SwitchRec
  BY DEF Safe, Shape
<1>2. CASE InIsr
  <2>1. Len(isr) \in DOMAIN isr /\ isr[Len(isr)].pc = pc
    BY <1>1, <1>2 DEF InIsr, At, Current, Last
  <2> QED BY <1>2, <2>1 DEF Safe, FramesOK
<1>3. CASE ~ InIsr
  BY <1>3 DEF InIsr, InThread, At, Current, Safe, ContextOK
<1> QED BY <1>2, <1>3

(* Frames that stay: only a change of the current thread can disturb them.  *)
LEMMA SameFrames ==
  ASSUME NEW P, NEW d, Safe(P, d), UNCHANGED <<frame, isr>>,
         k'.cur = k.cur \/ \A i \in DOMAIN isr : isr[i].pc # "sched"
  PROVE  FramesOK'
  BY DEF Safe, FramesOK

(* The invariant, from what a step leaves in each variable.                 *)
LEMMA SafeParts ==
  ASSUME NEW P, NEW d, Safe(P, d), KernelOK(k'), k'.nest <= d, on' \in Thread, sw' \in SwitchRec,
         frame' \in [Thread -> FrameOf(P)], isr' \in Seq(Frame), Len(isr') <= IsrMax,
         ContextOK', FramesOK', PinnedOK'
  PROVE  Safe(P, d)'
  BY DEF Safe, Shape, ReadyQueueOK, KernelOK

(* A call that changes the state by a routine and reschedules, frames as    *)
(* they were: after it the current thread is the highest, or the scheduler  *)
(* is locked and the flag is set.                                           *)
LEMMA CallAndReschedule ==
  ASSUME NEW P, NEW d, Safe(P, d), NEW pc \in Pc \ {"sched"}, At(pc),
         NEW k1, KernelOK(k1), k1.cur = k.cur, k1.nest = k.nest,
         Runnable(k, Idle) => Runnable(k1, Idle),
         Reschedule(k1, k.cur), UNCHANGED <<on, frame, isr>>
  PROVE  Safe(P, d)' /\ (Served => Served')
<1>1. /\ KernelOK(k') /\ k'.nest = k.nest
      /\ sw' \in SwitchRec /\ ContextOK' /\ PinnedOK'
      /\ \A t \in Thread : Runnable(k', t) <=> Runnable(k1, t)
      /\ k.nest # 0 => k'.flag = TRUE /\ k'.cur = k.cur
      /\ (k.nest = 0 /\ \E t \in Thread : Runnable(k1, t)) => HighestCurrent(k')
  BY RescheduleKeeps
<1>2. FramesOK'
  BY NoHandlerInSchedule, SameFrames
<1>3. Safe(P, d)'
  BY <1>1, <1>2, SafeParts DEF Safe, Shape
<1>4. ASSUME Served PROVE Served'
  <2>1. Runnable(k1, Idle) /\ Runnable(k', Idle)
    BY <1>1, <1>4, SchedulerAssumption DEF Served
  <2>2. CASE k.nest = 0
    BY <1>1, <2>1, <2>2, SchedulerAssumption DEF Served
  <2>3. CASE k.nest # 0
    BY <1>1, <2>1, <2>3 DEF Served, Safe, Shape, KState
  <2> QED BY <2>2, <2>3
<1> QED BY <1>3, <1>4

-----------------------------------------------------------------------------
(* The actions. *)

(* rt_thread_resume, from a thread or a handler.                            *)
LEMMA ResumeStep ==
  ASSUME NEW P, NEW d, Safe(P, d), NEW t \in Thread, Resume(t)
  PROVE  Safe(P, d)' /\ (Served => Served')
<1>1. At("run") /\ "run" \in Pc \ {"sched"} /\ KernelOK(k) /\ UNCHANGED <<on, frame, isr>>
  BY DEF Resume, Pc, Safe, Shape, ReadyQueueOK, KernelOK
<1>2. CASE IsSuspended(k, t)
  <2> DEFINE k1 == ReadyThread(k, t)
  <2>1. /\ KernelOK(k1) /\ k1.cur = k.cur /\ k1.nest = k.nest
        /\ Runnable(k, Idle) => Runnable(k1, Idle)
    BY <1>1, ReadyKeeps, SchedulerAssumption
  <2>2. Reschedule(k1, k.cur)
    BY <1>2 DEF Resume
  <2> HIDE DEF k1
  <2> QED BY <1>1, <2>1, <2>2, CallAndReschedule
<1>3. CASE ~ IsSuspended(k, t)
  <2>1. UNCHANGED vars
    BY <1>3 DEF Resume, vars
  <2> QED BY <2>1 DEF vars, Safe, Shape, ReadyQueueOK, ContextOK, FramesOK, PinnedOK, Served
<1> QED BY <1>2, <1>3

(* rt_thread_startup.                                                       *)
LEMMA StartupStep ==
  ASSUME NEW P, NEW d, Safe(P, d), NEW t \in Thread, Startup(t)
  PROVE  Safe(P, d)' /\ (Served => Served')
<1> DEFINE k0 == StartupThread(k, t)
           k1 == ReadyThread(k0, t)
<1>1. At("run") /\ "run" \in Pc \ {"sched"} /\ KernelOK(k) /\ UNCHANGED <<on, frame, isr>>
  BY DEF Startup, Pc, Safe, Shape, ReadyQueueOK, KernelOK
<1>2. /\ KernelOK(k0) /\ k0.cur = k.cur /\ k0.nest = k.nest
      /\ Runnable(k, Idle) => Runnable(k0, Idle)
  BY <1>1, StartupKeeps, SchedulerAssumption DEF Startup
<1> HIDE DEF k0
<1>3. /\ KernelOK(k1) /\ k1.cur = k.cur /\ k1.nest = k.nest
      /\ Runnable(k, Idle) => Runnable(k1, Idle)
  BY <1>2, ReadyKeeps, SchedulerAssumption
<1>4. Reschedule(k1, k.cur)
  BY DEF Startup, k0
<1> HIDE DEF k1
<1> QED BY <1>1, <1>3, <1>4, CallAndReschedule

(* rt_thread_yield.                                                         *)
LEMMA YieldStep ==
  ASSUME NEW P, NEW d, Safe(P, d), Yield
  PROVE  Safe(P, d)' /\ (Served => Served')
<1> DEFINE k1 == YieldThread(k, k.cur)
<1>1. /\ At("run") /\ "run" \in Pc \ {"sched"} /\ KernelOK(k) /\ k.cur \in Thread
      /\ UNCHANGED <<on, frame, isr>>
  BY DEF Yield, Pc, Safe, Shape, ReadyQueueOK, KernelOK, KState
<1>2. /\ KernelOK(k1) /\ k1.cur = k.cur /\ k1.nest = k.nest
      /\ Runnable(k, Idle) => Runnable(k1, Idle)
  BY <1>1, YieldKeeps DEF Runnable
<1>3. Reschedule(k1, k.cur)
  BY DEF Yield
<1> HIDE DEF k1
<1> QED BY <1>1, <1>2, <1>3, CallAndReschedule

(* A request to reschedule that the step leaves with the context itself.    *)
LEMMA WakeStep ==
  ASSUME NEW P, NEW d, Safe(P, d), NEW t \in Thread, Wake(t)
  PROVE  Safe(P, d)' /\ (Served => Served')
<1> DEFINE k1 == ReadyThread(k, t)
           k2 == [k1 EXCEPT !.flag = FALSE]
<1>1. /\ At("run") /\ "run" \in Pc \ {"sched"} /\ KernelOK(k) /\ UNCHANGED on
      /\ "resched" \in Pc \ {"sched"} /\ Goto("resched")
  BY DEF Wake, Pc, Safe, Shape, ReadyQueueOK, KernelOK
<1>2. /\ KernelOK(k1) /\ k1.cur = k.cur /\ k1.nest = k.nest
      /\ Runnable(k, Idle) => Runnable(k1, Idle)
  BY <1>1, ReadyKeeps, SchedulerAssumption
<1>3. CASE k.nest = 0 /\ k.flag
  <2>1. Reschedule(k2, k.cur)
    BY <1>3 DEF Wake
  <2> HIDE DEF k1
  <2>2. k2 \in KState
    BY <1>2 DEF KernelOK, KState
  <2>3. KernelOK(k2) /\ k2.cur = k.cur /\ k2.nest = k.nest /\ k2.stat = k1.stat
    BY <1>2, <2>2, SameQueue DEF KernelOK, KState
  <2> HIDE DEF k2
  <2>4. /\ KernelOK(k') /\ k'.nest = k.nest
        /\ sw' \in SwitchRec /\ ContextOK' /\ PinnedOK'
        /\ \A u \in Thread : Runnable(k', u) <=> Runnable(k2, u)
        /\ (\E u \in Thread : Runnable(k2, u)) => HighestCurrent(k')
    BY <1>1, <1>3, <2>1, <2>3, RescheduleKeeps
  <2>5. /\ frame' \in [Thread -> FrameOf(P)]
        /\ isr' \in Seq(Frame) /\ Len(isr') = Len(isr)
        /\ FramesOK'
    BY <1>1, GotoKeeps
  <2>6. Safe(P, d)'
    BY <1>1, <2>4, <2>5, SafeParts DEF Safe, Shape
  <2>7. Served => Served'
    BY <1>2, <2>3, <2>4, SchedulerAssumption DEF Served, Runnable
  <2> QED BY <2>6, <2>7
<1>4. CASE ~ (k.nest = 0 /\ k.flag)
  <2>1. k' = k1 /\ UNCHANGED sw
    BY <1>4 DEF Wake
  <2> HIDE DEF k1
  <2>2. /\ frame' \in [Thread -> FrameOf(P)]
        /\ isr' \in Seq(Frame) /\ Len(isr') = Len(isr)
        /\ FramesOK'
        /\ InIsr => isr'[Len(isr)].pc = "resched"
        /\ ~ InIsr => frame'[on].pc = "resched"
    BY <1>1, GotoKeeps
  <2>3. ContextOK' /\ PinnedOK'
    BY <1>1, <1>2, <2>1 DEF Safe, ContextOK, PinnedOK
  <2>4. Safe(P, d)'
    BY <1>1, <1>2, <2>1, <2>2, <2>3, SafeParts DEF Safe, Shape
  <2>5. ASSUME Served PROVE Served'
    <3>1. Runnable(k', Idle)
      BY <1>2, <2>1, <2>5 DEF Served
    <3>2. CASE InIsr
      <4>1. Len(isr) \in DOMAIN isr'
        BY <2>2, <3>2 DEF InIsr, Safe, Shape
      <4> QED BY <2>2, <3>1, <3>2, <4>1 DEF Served
    <3>3. CASE ~ InIsr
      <4>1. k'.cur = on
        BY <1>1, <1>2, <2>1, <3>3, NoHandlerInSchedule
      <4> QED BY <2>2, <3>1, <3>3, <4>1 DEF Served
    <3> QED BY <3>2, <3>3
  <2> QED BY <2>4, <2>5
<1> QED BY <1>3, <1>4

(* rt_schedule up to the reading of the current thread: the request to      *)
(* reschedule stays with the context.                                       *)
LEMMA ReadCurrentStep ==
  ASSUME NEW P, NEW d, Safe(P, d), ReadCurrent
  PROVE  Safe(P, d)' /\ (Served => Served')
<1> DEFINE f == [pc |-> "sched", curr |-> k.cur]
<1>1. At("resched") /\ "resched" \in Pc \ {"sched"} /\ SetFrame(f) /\ UNCHANGED <<k, on, sw>>
  BY DEF ReadCurrent, Pc
<1>2. ~ InIsr => isr = <<>> /\ on = k.cur
  BY <1>1, NoHandlerInSchedule
<1>3. f \in Frame /\ f.pc = "sched" /\ f.curr = k.cur
  BY DEF Frame, Pc, Safe, Shape, KState
<1> HIDE DEF f
<1>4. /\ frame' \in [Thread -> FrameOf(P)]
      /\ isr' \in Seq(Frame) /\ Len(isr') = Len(isr)
      /\ FramesOK'
      /\ InIsr => isr'[Len(isr)] = f
      /\ ~ InIsr => frame' = [frame EXCEPT ![on] = f]
  BY <1>1, <1>2, <1>3, SetFrameKeeps
<1>5. Safe(P, d)'
  BY <1>1, <1>4, SafeParts DEF Safe, Shape, ReadyQueueOK, KernelOK, ContextOK, PinnedOK
<1>6. ASSUME Served PROVE Served'
  <2>1. CASE InIsr
    <3>1. Len(isr) \in DOMAIN isr'
      BY <1>4, <2>1 DEF InIsr, Safe, Shape
    <3> QED BY <1>1, <1>3, <1>4, <1>6, <2>1, <3>1 DEF Served
  <2>2. CASE ~ InIsr
    <3>1. frame'[k'.cur].pc = "sched"
      BY <1>1, <1>2, <1>3, <1>4, <2>2 DEF Safe, Shape
    <3> QED BY <1>1, <1>6, <3>1 DEF Served
  <2> QED BY <2>1, <2>2
<1> QED BY <1>5, <1>6

(* The thread rt_schedule has read is still the current one.                *)
LEMMA ReadThread ==
  ASSUME NEW P, NEW d, Safe(P, d), At("sched")
  PROVE  Current.curr = k.cur
<1>1. CASE InIsr
  <2>1. Len(isr) \in DOMAIN isr /\ Current = isr[Len(isr)] /\ Current.pc = "sched"
    BY <1>1 DEF InIsr, At, Current, Last, Safe, Shape
  <2> QED BY <2>1 DEF Safe, FramesOK
<1>2. CASE ~ InIsr
  <2>1. on = k.cur /\ on \in Thread /\ Current = frame[on] /\ Current.pc = "sched"
    BY <1>2 DEF At, InThread, Current, Safe, ContextOK, Shape
  <2> QED BY <2>1 DEF Safe, FramesOK
<1> QED BY <1>1, <1>2

(* The thread a context has read is a thread.                               *)
LEMMA CurrentThread ==
  ASSUME NEW P, NEW d, Safe(P, d)
  PROVE  Current.curr \in Thread
<1>1. CASE InIsr
  <2>1. Current \in Frame
    BY <1>1 DEF InIsr, Current, Last, Safe, Shape
  <2> QED BY <2>1 DEF Frame
<1>2. CASE ~ InIsr
  BY <1>2 DEF Current, Safe, Shape, FrameOf
<1> QED BY <1>1, <1>2

(* The request is served: what a context was still to do is done.           *)
LEMMA DoScheduleStep ==
  ASSUME NEW P, NEW d, Safe(P, d), DoSchedule
  PROVE  Safe(P, d)' /\ (Served => Served')
<1>1. /\ KernelOK(k) /\ "run" \in Pc \ {"sched"} /\ Goto("run") /\ UNCHANGED on
      /\ At("sched") /\ Reschedule(k, Current.curr)
  BY DEF DoSchedule, Pc, Safe, Shape, ReadyQueueOK, KernelOK
<1>2. Current.curr = k.cur
  BY <1>1, ReadThread
<1>3. /\ KernelOK(k') /\ k'.nest = k.nest
      /\ sw' \in SwitchRec /\ ContextOK' /\ PinnedOK'
      /\ \A t \in Thread : Runnable(k', t) <=> Runnable(k, t)
      /\ k.nest # 0 => k'.flag = TRUE
      /\ (k.nest = 0 /\ \E t \in Thread : Runnable(k, t)) => HighestCurrent(k')
  BY <1>1, <1>2, RescheduleKeeps
<1>4. /\ frame' \in [Thread -> FrameOf(P)]
      /\ isr' \in Seq(Frame) /\ Len(isr') = Len(isr)
      /\ FramesOK'
  BY <1>1, GotoKeeps
<1>5. Safe(P, d)'
  BY <1>1, <1>3, <1>4, SafeParts DEF Safe, Shape
<1>6. ASSUME Served PROVE Served'
  <2>1. Runnable(k', Idle)
    BY <1>3, <1>6, SchedulerAssumption DEF Served
  <2>2. CASE k.nest = 0
    BY <1>3, <1>6, <2>1, <2>2, SchedulerAssumption DEF Served
  <2>3. CASE k.nest # 0
    BY <1>3, <2>1, <2>3 DEF Served, Safe, Shape, KState
  <2> QED BY <2>2, <2>3
<1> QED BY <1>5, <1>6

(* Steps of a thread that touch neither the queue nor the current thread.   *)
LEMMA ThreadStep ==
  ASSUME NEW P, NEW d, Safe(P, d), InThread, KernelOK(k'), k'.cur = k.cur, k'.nest <= d,
         NEW pc \in Pc \ {"sched"},
         Goto(pc) \/ UNCHANGED <<frame, isr>>, UNCHANGED <<on, sw>>
  PROVE  Safe(P, d)' /\ isr' = <<>> /\ on = k.cur /\ (Goto(pc) => frame'[k'.cur].pc = pc)
<1>1. ~ InIsr /\ isr = <<>> /\ ~ sw.pend /\ on = k.cur
  BY DEF InThread, InIsr, Safe, ContextOK
<1>2. ContextOK' /\ PinnedOK'
  BY <1>1 DEF Safe, ContextOK, PinnedOK
<1>3. CASE Goto(pc)
  <2>1. /\ frame' \in [Thread -> FrameOf(P)]
        /\ isr' \in Seq(Frame) /\ Len(isr') = Len(isr)
        /\ FramesOK' /\ isr' = isr /\ frame'[on].pc = pc
    BY <1>1, <1>3, GotoKeeps
  <2> QED BY <1>1, <1>2, <2>1, SafeParts DEF Safe, Shape
<1>4. CASE UNCHANGED <<frame, isr>> /\ ~ Goto(pc)
  <2>1. FramesOK'
    BY <1>4, SameFrames
  <2> QED BY <1>1, <1>2, <1>4, <2>1, SafeParts DEF Safe, Shape
<1> QED BY <1>3, <1>4

(* rt_thread_suspend of the calling thread, which is then to call           *)
(* rt_schedule.                                                             *)
LEMMA SuspendStep ==
  ASSUME NEW P, NEW d, Safe(P, d), Suspend
  PROVE  Safe(P, d)' /\ (Served => Served')
<1>1. /\ InThread /\ on # Idle /\ UNCHANGED <<on, sw>> /\ k' = SuspendThread(k, k.cur)
      /\ KernelOK(k) /\ k.cur \in Thread /\ "resched" \in Pc \ {"sched"}
      /\ k.nest <= d
  BY DEF Suspend, Pc, Safe, Shape, ReadyQueueOK, KernelOK, KState
<1>2. IF CanSuspend(k, k.cur) THEN Goto("resched") ELSE UNCHANGED <<frame, isr>>
  BY DEF Suspend
<1>3. /\ KernelOK(k') /\ k'.cur = k.cur /\ k'.nest = k.nest
      /\ \A u \in Thread \ {k.cur} : Runnable(k, u) => Runnable(k', u)
  BY <1>1, SuspendKeeps
<1>4. /\ Safe(P, d)' /\ on = k.cur
      /\ Goto("resched") => frame'[k'.cur].pc = "resched"
  BY <1>1, <1>2, <1>3, ThreadStep
<1>5. CASE CanSuspend(k, k.cur)
  BY <1>1, <1>2, <1>3, <1>4, <1>5, SchedulerAssumption DEF Served
<1>6. CASE ~ CanSuspend(k, k.cur)
  <2>1. k' = k /\ UNCHANGED <<frame, isr>>
    BY <1>1, <1>2, <1>6 DEF SuspendThread
  <2> QED BY <1>4, <2>1 DEF Served
<1> QED BY <1>5, <1>6

(* Nesting and flag are not part of the queue.                              *)
LEMMA CriticalState ==
  ASSUME NEW P, NEW d, Safe(P, d), NEW n \in Nat, NEW b \in BOOLEAN,
         k' = [k EXCEPT !.nest = n, !.flag = b]
  PROVE  /\ KernelOK(k') /\ k'.cur = k.cur /\ k'.nest = n /\ k'.flag = b
         /\ k'.stat = k.stat /\ k'.cprio = k.cprio
         /\ \A u \in Thread : Runnable(k', u) <=> Runnable(k, u)
         /\ HighestCurrent(k') <=> HighestCurrent(k)
<1>1. k \in KState /\ KernelOK(k)
  BY DEF Safe, Shape, ReadyQueueOK, KernelOK
<1>2. k' \in KState
  BY <1>1 DEF KState
<1>3. /\ k'.cur = k.cur /\ k'.nest = n /\ k'.flag = b
      /\ k'.stat = k.stat /\ k'.cprio = k.cprio /\ k'.mask = k.mask
      /\ k'.list = k.list /\ k'.group = k.group
  BY <1>1 DEF KState
<1>4. KernelOK(k')
  BY <1>1, <1>2, <1>3, SameQueue
<1> QED BY <1>3, <1>4 DEF Runnable, HighestCurrent

(* rt_enter_critical.                                                       *)
LEMMA EnterCriticalStep ==
  ASSUME NEW P, NEW d, Safe(P, d), EnterCritical
  PROVE  Safe(P, d)' /\ (Served => Served')
<1>1. /\ InThread /\ k.nest \in Nat /\ k.flag \in BOOLEAN /\ k.nest < NestMax
      /\ UNCHANGED <<on, sw, frame, isr>> /\ k \in KState
      /\ d \in Nat /\ NestMax \in Nat /\ NestMax <= d
  BY SchedulerAssumption DEF EnterCritical, Safe, Shape, KState
<1>2. k' = [k EXCEPT !.nest = k.nest + 1, !.flag = k.flag]
  BY <1>1 DEF EnterCritical, KState
<1> DEFINE n == k.nest + 1
<1> n \in Nat
  BY <1>1
<1> HIDE DEF n
<1>3. /\ KernelOK(k') /\ k'.cur = k.cur /\ k'.nest = k.nest + 1 /\ k'.flag = k.flag
      /\ \A u \in Thread : Runnable(k', u) <=> Runnable(k, u)
      /\ HighestCurrent(k') <=> HighestCurrent(k)
  BY <1>1, <1>2, CriticalState DEF n
<1>4. Safe(P, d)'
  <2>1. "run" \in Pc \ {"sched"} /\ k'.nest <= d
    BY <1>1, <1>3 DEF Pc
  <2> QED BY <1>1, <1>3, <2>1, ThreadStep
<1> QED BY <1>1, <1>3, <1>4, SchedulerAssumption DEF Served

(* rt_exit_critical up to the decrement: at level 0 the flag is still to be *)
(* tested.                                                                  *)
LEMMA ExitCriticalStep ==
  ASSUME NEW P, NEW d, Safe(P, d), ExitCritical
  PROVE  Safe(P, d)' /\ (Served => Served')
<1>1. /\ InThread /\ At("run") /\ k.nest \in Nat \ {0} /\ k.flag \in BOOLEAN
      /\ k.nest <= d
      /\ UNCHANGED <<on, sw>> /\ k \in KState /\ d \in Nat /\ NestMax \in Nat /\ NestMax <= d
      /\ IF k.nest = 1 THEN Goto("exit") ELSE UNCHANGED <<frame, isr>>
  BY SMTT(30), SchedulerAssumption DEF ExitCritical, Safe, Shape, KState
<1> DEFINE n == k.nest - 1
<1>2. k' = [k EXCEPT !.nest = n, !.flag = k.flag]
  BY <1>1 DEF ExitCritical, KState
<1> n \in Nat
  BY <1>1
<1> HIDE DEF n
<1>3. /\ KernelOK(k') /\ k'.cur = k.cur /\ k'.nest = k.nest - 1 /\ k'.flag = k.flag
      /\ \A u \in Thread : Runnable(k', u) <=> Runnable(k, u)
      /\ HighestCurrent(k') <=> HighestCurrent(k)
  BY <1>1, <1>2, CriticalState DEF n
<1>4. Safe(P, d)' /\ (Goto("exit") => frame'[k'.cur].pc = "exit")
  <2>1. "exit" \in Pc \ {"sched"} /\ k'.nest <= d
    BY <1>1, <1>3 DEF Pc
  <2> QED BY <1>1, <1>3, <2>1, ThreadStep
<1>5. ~ InIsr /\ isr = <<>> /\ frame[k.cur].pc = "run"
  <2>1. "run" \in Pc \ {"sched"} /\ ~ InIsr
    BY <1>1 DEF Pc, InThread
  <2> QED BY <1>1, <2>1, NoHandlerInSchedule
<1>6. ASSUME Served PROVE Served'
  <2>1. HighestCurrent(k) \/ k.flag
    BY <1>5, <1>6 DEF Served
  <2>2. Runnable(k', Idle)
    BY <1>3, <1>6, SchedulerAssumption DEF Served
  <2>3. CASE k.nest = 1
    BY <1>1, <1>3, <1>4, <2>1, <2>2, <2>3 DEF Served
  <2>4. CASE k.nest # 1
    <3>1. k'.nest > 0
      BY <1>1, <1>3, <2>4
    <3> QED BY <1>3, <2>1, <2>2, <3>1 DEF Served
  <2> QED BY <2>3, <2>4
<1> QED BY <1>4, <1>6

(* The test of the flag in rt_exit_critical: a flag that is set is seen.    *)
LEMMA TestFlagStep ==
  ASSUME NEW P, NEW d, Safe(P, d), TestFlag
  PROVE  Safe(P, d)' /\ (Served => Served')
<1> DEFINE to == IF k.flag THEN "clear" ELSE "run"
<1>1. /\ At("exit") /\ "exit" \in Pc \ {"sched"} /\ to \in Pc \ {"sched"}
      /\ Goto(to) /\ UNCHANGED <<k, on, sw>>
      /\ KernelOK(k') /\ k'.cur = k.cur /\ k'.nest <= d
  BY DEF TestFlag, Pc, Safe, Shape, ReadyQueueOK, KernelOK
<1>2. ~ InIsr /\ InThread /\ isr = <<>> /\ on = k.cur /\ frame[k.cur].pc = "exit"
  BY <1>1, NoHandlerInSchedule
<1> HIDE DEF to
<1>3. Safe(P, d)' /\ frame'[k'.cur].pc = to
  BY <1>1, <1>2, ThreadStep
<1>4. ASSUME Served PROVE Served'
  <2>1. HighestCurrent(k) \/ k.flag
    BY <1>2, <1>4 DEF Served
  <2> QED BY <1>1, <1>3, <1>4, <2>1 DEF Served, to
<1> QED BY <1>3, <1>4

(* The flag is cleared by a thread that goes on to call rt_schedule.        *)
LEMMA ClearFlagStep ==
  ASSUME NEW P, NEW d, Safe(P, d), ClearFlag
  PROVE  Safe(P, d)' /\ (Served => Served')
<1>1. /\ At("clear") /\ "clear" \in Pc \ {"sched"} /\ "resched" \in Pc \ {"sched"}
      /\ Goto("resched") /\ UNCHANGED <<on, sw>> /\ k.nest <= d
      /\ k.nest \in Nat /\ k \in KState
  BY DEF ClearFlag, Pc, Safe, Shape, KState
<1>2. ~ InIsr /\ InThread
  BY <1>1, NoHandlerInSchedule
<1>3. k' = [k EXCEPT !.nest = k.nest, !.flag = FALSE]
  BY <1>1 DEF ClearFlag, KState
<1>4. /\ KernelOK(k') /\ k'.cur = k.cur /\ k'.nest = k.nest
      /\ \A u \in Thread : Runnable(k', u) <=> Runnable(k, u)
  BY <1>1, <1>3, CriticalState
<1>5. Safe(P, d)' /\ frame'[k'.cur].pc = "resched"
  BY <1>1, <1>2, <1>4, ThreadStep
<1> QED BY <1>4, <1>5, SchedulerAssumption DEF Served

(* Priority control keeps the queue; it does not reschedule, so the highest *)
(* thread may be left waiting.                                              *)
LEMMA ControlPriorityStep ==
  ASSUME NEW P, NEW d, Safe(P, d), NEW t \in Thread, NEW p \in Prio, ControlPriority(t, p)
  PROVE  Safe(P, d)'
<1>1. /\ InThread /\ UNCHANGED <<on, sw, frame, isr>> /\ KernelOK(k) /\ k.nest <= d
      /\ "run" \in Pc \ {"sched"}
      /\ k' \in {ChangePriority(k, t, p), ResetPriority(k, t, p)}
  BY DEF ControlPriority, Pc, Safe, Shape, ReadyQueueOK, KernelOK
<1>2. KernelOK(k') /\ k'.cur = k.cur /\ k'.nest = k.nest
  BY <1>1, ChangePriorityKeeps, ResetPriorityKeeps
<1> QED BY <1>1, <1>2, ThreadStep

(* An interrupt whose handler starts while no handler is inside             *)
(* rt_schedule.                                                             *)
LEMMA IsrEnterStep ==
  ASSUME NEW P, NEW d, Safe(P, d), IsrEnter, \A i \in DOMAIN isr : isr[i].pc # "sched"
  PROVE  Safe(P, d)' /\ (Served => Served')
<1> DEFINE f == [pc |-> "run", curr |-> on]
<1>1. /\ isr \in Seq(Frame) /\ f \in Frame /\ f.pc = "run" /\ Len(isr) < IsrMax
      /\ isr' = Append(isr, f) /\ UNCHANGED <<k, on, sw, frame>> /\ IsrMax \in Nat
  BY SchedulerAssumption DEF IsrEnter, Safe, Shape, Frame, Pc
<1> HIDE DEF f
<1>2. /\ isr' \in Seq(Frame) /\ Len(isr') = Len(isr) + 1 /\ DOMAIN isr' = 1 .. Len(isr) + 1
      /\ DOMAIN isr = 1 .. Len(isr)
      /\ \A i \in 1 .. Len(isr) : isr'[i] = isr[i]
      /\ isr'[Len(isr) + 1] = f
  BY <1>1
<1>3. FramesOK'
  BY <1>1, <1>2 DEF FramesOK, Safe
<1>4. Safe(P, d)'
  BY <1>1, <1>2, <1>3, SafeParts DEF Safe, Shape, ReadyQueueOK, KernelOK, ContextOK, PinnedOK
<1>5. ASSUME Served PROVE Served'
  <2>1. \A i \in DOMAIN isr : i \in DOMAIN isr' /\ isr'[i] = isr[i]
    BY <1>2
  <2> QED BY <1>1, <1>5, <2>1 DEF Served
<1> QED BY <1>4, <1>5

(* A handler returns only from its own code, with no request of its own     *)
(* pending.                                                                 *)
LEMMA IsrLeaveStep ==
  ASSUME NEW P, NEW d, Safe(P, d), IsrLeave
  PROVE  Safe(P, d)' /\ (Served => Served')
<1>1. /\ isr \in Seq(Frame) /\ isr # <<>> /\ At("run") /\ "run" \in Pc \ {"sched"} /\ InIsr
      /\ isr' = Front(isr) /\ UNCHANGED <<k, on, sw, frame>>
      /\ IsrMax \in Nat
  BY SchedulerAssumption DEF IsrLeave, InIsr, Safe, Shape, Pc
<1>2. /\ isr[Len(isr)].pc = "run"
      /\ \A i \in DOMAIN isr : isr[i].pc # "sched"
  BY <1>1, NoHandlerInSchedule
<1>3. /\ isr' \in Seq(Frame) /\ Len(isr') = Len(isr) - 1
      /\ \A i \in 1 .. Len(isr) - 1 : isr'[i] = isr[i]
  BY <1>1, FrontProperties
<1>4. DOMAIN isr' = 1 .. Len(isr) - 1 /\ DOMAIN isr = 1 .. Len(isr)
  BY <1>1, <1>3
<1>5. FramesOK'
  BY <1>1, <1>2, <1>3, <1>4 DEF FramesOK, Safe
<1>6. Safe(P, d)'
  <2>1. Len(isr') <= IsrMax
    BY <1>1, <1>3 DEF Safe, Shape
  <2> QED
    BY <1>1, <1>3, <1>5, <2>1, SafeParts DEF Safe, Shape, ReadyQueueOK, KernelOK, ContextOK, PinnedOK
<1>7. ASSUME Served PROVE Served'
  <2>1. \A i \in DOMAIN isr : isr[i].pc \in {"resched", "sched"}
                              => i \in DOMAIN isr' /\ isr'[i] = isr[i]
    BY <1>1, <1>2, <1>3, <1>4
  <2> QED BY <1>1, <1>7, <2>1 DEF Served
<1> QED BY <1>6, <1>7

(* rt_sched_tick_increase up to the reading of the current thread.          *)
LEMMA TickReadStep ==
  ASSUME NEW P, NEW d, Safe(P, d), TickRead
  PROVE  Safe(P, d)' /\ (Served => Served')
<1> DEFINE f == [pc |-> "tick", curr |-> k.cur]
<1>1. /\ InIsr /\ At("run") /\ "run" \in Pc \ {"sched"} /\ SetFrame(f)
      /\ UNCHANGED <<k, on, sw>>
  BY DEF TickRead, Pc
<1>2. f \in Frame /\ f.pc = "tick"
  BY DEF Frame, Pc, Safe, Shape, KState
<1> HIDE DEF f
<1>3. /\ frame' \in [Thread -> FrameOf(P)]
      /\ isr' \in Seq(Frame) /\ Len(isr') = Len(isr)
      /\ FramesOK' /\ frame' = frame
      /\ \A i \in 1 .. Len(isr) - 1 : isr'[i] = isr[i]
  BY <1>1, <1>2, SetFrameKeeps
<1>4. Safe(P, d)'
  BY <1>1, <1>3, SafeParts DEF Safe, Shape, ReadyQueueOK, KernelOK, ContextOK, PinnedOK
<1>5. ASSUME Served PROVE Served'
  <2>1. isr[Len(isr)].pc = "run"
    BY <1>1, NoHandlerInSchedule
  <2>2. DOMAIN isr = 1 .. Len(isr) /\ DOMAIN isr' = 1 .. Len(isr) /\ Len(isr) \in Nat
    BY <1>3 DEF Safe, Shape
  <2>3. \A i \in DOMAIN isr : isr[i].pc \in {"resched", "sched"}
                              => i \in DOMAIN isr' /\ isr'[i] = isr[i]
    BY <1>3, <2>1, <2>2
  <2> QED BY <1>1, <1>3, <1>5, <2>3 DEF Served
<1> QED BY <1>4, <1>5

(* The tick charged to the thread read before, which reschedules at the end *)
(* of the slice.                                                            *)
LEMMA TickChargeStep ==
  ASSUME NEW P, NEW d, Safe(P, d), TickCharge
  PROVE  Safe(P, d)' /\ (Served => Served')
<1> DEFINE t == Current.curr
           k1 == TickThread(k, t)
<1>1. /\ At("tick") /\ "tick" \in Pc \ {"sched"} /\ "run" \in Pc \ {"sched"}
      /\ Goto("run") /\ UNCHANGED on /\ KernelOK(k)
  BY DEF TickCharge, Pc, Safe, Shape, ReadyQueueOK, KernelOK
<1>2. t \in Thread
  BY CurrentThread
<1> HIDE DEF t
<1>3. /\ KernelOK(k1) /\ k1.cur = k.cur /\ k1.nest = k.nest
      /\ k1.stat = k.stat /\ k1.cprio = k.cprio /\ k1.flag = k.flag
  BY <1>1, <1>2, TickKeeps
<1>4. /\ frame' \in [Thread -> FrameOf(P)]
      /\ isr' \in Seq(Frame) /\ Len(isr') = Len(isr)
      /\ FramesOK'
      /\ InIsr => /\ frame' = frame
                  /\ \A i \in 1 .. Len(isr) - 1 : isr'[i] = isr[i]
      /\ ~ InIsr => isr' = isr /\ frame'[on].pc = "run"
  BY <1>1, GotoKeeps
<1>5. CASE SliceExpires(k, t)
  <2>1. Reschedule(k1, k.cur)
    BY <1>5 DEF TickCharge, t
  <2> HIDE DEF k1
  <2>2. /\ KernelOK(k') /\ k'.nest = k.nest
        /\ sw' \in SwitchRec /\ ContextOK' /\ PinnedOK'
        /\ \A u \in Thread : Runnable(k', u) <=> Runnable(k1, u)
        /\ k.nest # 0 => k'.flag = TRUE
        /\ (k.nest = 0 /\ \E u \in Thread : Runnable(k1, u)) => HighestCurrent(k')
    BY <1>1, <1>3, <2>1, RescheduleKeeps
  <2>3. Safe(P, d)'
    BY <1>1, <1>4, <2>2, SafeParts DEF Safe, Shape
  <2>4. ASSUME Served PROVE Served'
    <3>1. Runnable(k1, Idle) /\ Runnable(k', Idle)
      BY <1>3, <2>2, <2>4, SchedulerAssumption DEF Served, Runnable
    <3>2. CASE k.nest = 0
      BY <2>2, <3>1, <3>2, SchedulerAssumption DEF Served
    <3>3. CASE k.nest # 0
      BY <2>2, <3>1, <3>3 DEF Served, Safe, Shape, KState
    <3> QED BY <3>2, <3>3
  <2> QED BY <2>3, <2>4
<1>6. CASE ~ SliceExpires(k, t)
  <2>1. k' = k1 /\ UNCHANGED sw
    BY <1>6 DEF TickCharge, t
  <2> HIDE DEF k1
  <2>2. ContextOK' /\ PinnedOK'
    BY <1>1, <1>3, <2>1 DEF Safe, ContextOK, PinnedOK
  <2>3. Safe(P, d)'
    BY <1>1, <1>3, <1>4, <2>1, <2>2, SafeParts DEF Safe, Shape
  <2>4. ASSUME Served PROVE Served'
    <3>1. Runnable(k', Idle) /\ (HighestCurrent(k) => HighestCurrent(k'))
      BY <1>3, <2>1, <2>4 DEF Served, Runnable, HighestCurrent
    <3>2. CASE InIsr
      <4>1. isr[Len(isr)].pc = "tick"
        BY <1>1, <3>2, NoHandlerInSchedule
      <4>2. DOMAIN isr = 1 .. Len(isr) /\ DOMAIN isr' = 1 .. Len(isr) /\ Len(isr) \in Nat
        BY <1>4 DEF Safe, Shape
      <4>3. \A i \in DOMAIN isr : isr[i].pc \in {"resched", "sched"}
                                  => i \in DOMAIN isr' /\ isr'[i] = isr[i]
        BY <1>4, <3>2, <4>1, <4>2
      <4> QED BY <1>3, <1>4, <2>1, <2>4, <3>1, <3>2, <4>3 DEF Served
    <3>3. CASE ~ InIsr
      <4>1. on = k.cur /\ frame[on].pc = "tick" /\ isr = <<>>
        BY <1>1, <3>3, NoHandlerInSchedule
      <4> QED BY <1>3, <1>4, <2>1, <2>4, <3>1, <3>3, <4>1 DEF Served
    <3> QED BY <3>2, <3>3
  <2> QED BY <2>3, <2>4
<1> QED BY <1>5, <1>6

(* PendSV loads the current thread.                                         *)
LEMMA PendSVStep ==
  ASSUME NEW P, NEW d, Safe(P, d), PendSV
  PROVE  Safe(P, d)' /\ (Served => Served')
<1>1. /\ sw.pend /\ on' = sw.to /\ sw' = [pend |-> FALSE, from |-> sw.to, to |-> sw.to]
      /\ UNCHANGED <<k, frame, isr>> /\ sw \in SwitchRec
  BY DEF PendSV, Safe, Shape
<1>2. sw' \in SwitchRec /\ on' \in Thread /\ ContextOK' /\ PinnedOK'
  BY <1>1 DEF SwitchRec, Safe, ContextOK, PinnedOK
<1>3. FramesOK'
  BY <1>1, SameFrames
<1>4. Safe(P, d)'
  BY <1>1, <1>2, <1>3, SafeParts DEF Safe, Shape, ReadyQueueOK, KernelOK
<1> QED BY <1>1, <1>4 DEF Served

-----------------------------------------------------------------------------
(* The next-state relations. *)

(* No handler is interrupted inside rt_schedule.                            *)
Uninterrupted == IsrEnter => \A i \in DOMAIN isr : isr[i].pc # "sched"

(* Every step of the scheduler that does not interrupt a handler inside     *)
(* rt_schedule.                                                             *)
LEMMA KernelStep ==
  ASSUME NEW P, NEW d, Safe(P, d), Uninterrupted, [KernelNext]_vars
  PROVE  Safe(P, d)' /\ (Served => Served')
<1>1. CASE UNCHANGED vars
  BY <1>1 DEF vars, Safe, Shape, ReadyQueueOK, ContextOK, FramesOK, PinnedOK, Served
<1>2. CASE ThreadNext
  BY <1>2, StartupStep, YieldStep, SuspendStep, EnterCriticalStep, ExitCriticalStep,
     TestFlagStep, ClearFlagStep DEF ThreadNext
<1>3. CASE IsrNext
  BY <1>3, IsrEnterStep, IsrLeaveStep, TickReadStep, TickChargeStep, PendSVStep
     DEF IsrNext, Uninterrupted
<1>4. CASE SharedNext
  BY <1>4, ResumeStep, WakeStep, ReadCurrentStep, DoScheduleStep DEF SharedNext
<1> QED BY <1>1, <1>2, <1>3, <1>4 DEF KernelNext

(* What Inv and Served say where a thread runs its own code.                *)
LEMMA InvImplies ==
  Inv => TypeOK /\ ReadyQueueOK /\ ContextOK /\ (Served => HighestRuns)
<1> SUFFICES ASSUME Inv, Served, At("run"), InThread, k.nest = 0
             PROVE  on = k.cur /\ HighestCurrent(k)
  BY DEF Inv, HighestRuns
<1> Safe(Pc, NestMax)
  BY InvSafe
<1>1. "run" \in Pc \ {"sched"} /\ ~ InIsr
  BY DEF Pc, InThread
<1>2. isr = <<>> /\ on = k.cur /\ frame[on].pc = "run"
  BY <1>1, NoHandlerInSchedule
<1> QED BY <1>2 DEF Served

(* Without nesting, a handler is entered only from a thread.                *)
LEMMA Depth1 ==
  ASSUME IsrMax <= 1, NEW P, NEW d, Safe(P, d)
  PROVE  Uninterrupted
<1>1. Len(isr) \in Nat /\ DOMAIN isr = 1 .. Len(isr) /\ IsrMax \in Nat
  BY SchedulerAssumption DEF Safe, Shape
<1>2. IsrEnter => Len(isr) = 0
  BY <1>1 DEF IsrEnter
<1> QED BY <1>1, <1>2 DEF Uninterrupted

(* The scheduler with handlers that do not nest: the state has its type,    *)
(* the ready queue agrees with the thread states, PendSV saves and loads    *)
(* the right contexts, and a thread in its own code with the scheduler      *)
(* unlocked is a runnable thread of the highest priority.                   *)
THEOREM KernelSafety ==
  ASSUME IsrMax <= 1
  PROVE  KernelSpec => [](TypeOK /\ ReadyQueueOK /\ ContextOK /\ HighestRuns)
<1>1. Inv /\ Served /\ [KernelNext]_vars => (Inv /\ Served)'
  BY InvSafe, InvSafePrimed, KernelStep, Depth1
<1>2. KernelSpec => [](Inv /\ Served)
  BY <1>1, InitInv, PTL DEF KernelSpec
<1>3. Inv /\ Served => TypeOK /\ ReadyQueueOK /\ ContextOK /\ HighestRuns
  BY InvImplies
<1> QED BY <1>2, <1>3, PTL

(* No handler stands between reading the current thread and using it.       *)
HandlersLocked == \A i \in DOMAIN isr : isr[i].pc \in {"run", "tick"}

(* When handlers wake threads by rt_thread_resume only, none is ever inside *)
(* rt_schedule with interrupts enabled.                                     *)
LEMMA LockedStep ==
  ASSUME Inv, HandlersLocked, [LockedNext]_vars
  PROVE  HandlersLocked' /\ [KernelNext]_vars /\ Uninterrupted
<1>1. isr \in Seq(Frame)
  BY DEF Inv, TypeOK
<1>2. [KernelNext]_vars
  BY DEF LockedNext, KernelNext, SharedNext
<1>3. Uninterrupted
  BY DEF Uninterrupted, HandlersLocked
<1>4. ASSUME NEW pc \in Pc, NEW c, SetFrame([pc |-> pc, curr |-> c]),
             InIsr => pc \in {"run", "tick"}
      PROVE  HandlersLocked'
  <2>1. CASE InIsr
    <3> DEFINE f == [pc |-> pc, curr |-> c]
    <3>1. isr' = [isr EXCEPT ![Len(isr)] = f] /\ f.pc = pc
      BY <1>4, <2>1 DEF SetFrame
    <3> HIDE DEF f
    <3>2. DOMAIN isr' = DOMAIN isr /\ \A i \in DOMAIN isr : isr'[i] \in {f, isr[i]}
      BY <1>1, <3>1
    <3> QED BY <1>4, <2>1, <3>1, <3>2 DEF HandlersLocked
  <2>2. CASE ~ InIsr
    BY <1>4, <2>2 DEF SetFrame, HandlersLocked
  <2> QED BY <2>1, <2>2
<1>5. ASSUME InIsr, NEW pc \in Pc \ {"sched", "run", "tick"}, At(pc) PROVE FALSE
  <2>1. Len(isr) \in DOMAIN isr /\ isr[Len(isr)].pc = pc
    BY <1>1, <1>5 DEF InIsr, At, Current, Last
  <2> QED BY <1>5, <2>1 DEF HandlersLocked
<1>6. ASSUME UNCHANGED isr PROVE HandlersLocked'
  BY <1>6 DEF HandlersLocked
<1>7. ASSUME NEW t \in Thread, InThread, Wake(t) PROVE HandlersLocked'
  <2>1. ~ InIsr /\ isr = <<>> /\ SetFrame([pc |-> "resched", curr |-> on])
    BY <1>7 DEF Wake, Goto, InThread, InIsr
  <2> QED BY <2>1 DEF SetFrame, HandlersLocked
<1>8. ASSUME ReadCurrent \/ DoSchedule \/ TestFlag \/ ClearFlag PROVE HandlersLocked'
  <2>1. ~ InIsr
    <3>1. At("resched") \/ At("sched") \/ At("exit") \/ At("clear")
      BY <1>8 DEF ReadCurrent, DoSchedule, TestFlag, ClearFlag
    <3>2. ~ (InIsr /\ At("sched"))
      BY <1>1 DEF InIsr, At, Current, Last, HandlersLocked
    <3> QED BY <1>5, <3>1, <3>2 DEF Pc
  <2>2. isr' = isr
    BY <1>8, <2>1 DEF ReadCurrent, DoSchedule, TestFlag, ClearFlag, Goto, SetFrame
  <2> QED BY <1>6, <2>2
<1>9. ASSUME Suspend \/ ExitCritical PROVE HandlersLocked'
  <2>1. ~ InIsr
    BY <1>9 DEF Suspend, ExitCritical, InThread
  <2>2. isr' = isr
    BY <1>9, <2>1 DEF Suspend, ExitCritical, Goto, SetFrame
  <2> QED BY <1>6, <2>2
<1>10. ASSUME TickRead \/ TickCharge PROVE HandlersLocked'
  <2>1. \E pc \in {"run", "tick"}, c \in Thread : SetFrame([pc |-> pc, curr |-> c])
    BY <1>10 DEF TickRead, TickCharge, Goto, Inv, TypeOK, KState
  <2> QED BY <1>4, <2>1 DEF Pc
<1>11. ASSUME IsrEnter PROVE HandlersLocked'
  <2> DEFINE f == [pc |-> "run", curr |-> on]
  <2>1. isr' = Append(isr, f) /\ f \in Frame /\ f.pc = "run"
    BY <1>11 DEF IsrEnter, Frame, Pc, Inv, TypeOK
  <2> HIDE DEF f
  <2>2. /\ DOMAIN isr' = 1 .. Len(isr) + 1 /\ DOMAIN isr = 1 .. Len(isr) /\ Len(isr) \in Nat
        /\ isr'[Len(isr) + 1] = f
        /\ \A i \in 1 .. Len(isr) : isr'[i] = isr[i]
    BY <1>1, <2>1
  <2> QED BY <2>1, <2>2 DEF HandlersLocked
<1>12. ASSUME IsrLeave PROVE HandlersLocked'
  <2>1. isr # <<>> /\ isr' = Front(isr)
    BY <1>12 DEF IsrLeave, InIsr
  <2>2. /\ DOMAIN isr' = 1 .. Len(isr) - 1 /\ DOMAIN isr = 1 .. Len(isr) /\ Len(isr) \in Nat
        /\ \A i \in 1 .. Len(isr) - 1 : isr'[i] = isr[i]
    BY <1>1, <2>1, FrontProperties
  <2> QED BY <2>2 DEF HandlersLocked
<1>13. HandlersLocked'
  <2>1. CASE UNCHANGED vars
    BY <1>6, <2>1 DEF vars
  <2>2. CASE ThreadNext
    BY <1>6, <1>8, <1>9, <2>2 DEF ThreadNext, Startup, Yield, EnterCritical
  <2>3. CASE IsrNext
    BY <1>6, <1>10, <1>11, <1>12, <2>3 DEF IsrNext, PendSV
  <2>4. CASE \E t \in Thread : Resume(t) \/ (InThread /\ Wake(t))
    BY <1>6, <1>7, <2>4 DEF Resume
  <2> QED BY <1>8, <2>1, <2>2, <2>3, <2>4 DEF LockedNext
<1> QED BY <1>2, <1>3, <1>13

(* The same for handlers nested to any depth, when they wake threads by     *)
(* rt_thread_resume, which reads the current thread under the lock.         *)
THEOREM LockedSafety == LockedSpec => [](TypeOK /\ ReadyQueueOK /\ ContextOK /\ HighestRuns)
<1> DEFINE I == Inv /\ Served /\ HandlersLocked
<1>1. Init => I
  BY InitInv DEF Init, HandlersLocked
<1>2. I /\ [LockedNext]_vars => I'
  BY InvSafe, InvSafePrimed, LockedStep, KernelStep
<1>3. I => TypeOK /\ ReadyQueueOK /\ ContextOK /\ HighestRuns
  BY InvImplies
<1> QED BY <1>1, <1>2, <1>3, PTL DEF LockedSpec

(* With priority control by the application, all but HighestRuns.           *)
THEOREM ControlSafety ==
  ASSUME IsrMax <= 1
  PROVE  Spec => [](TypeOK /\ ReadyQueueOK /\ ContextOK)
<1>1. Inv /\ [Next]_vars => Inv'
  BY InvSafe, InvSafePrimed, KernelStep, Depth1, ControlPriorityStep DEF Next
<1>2. Spec => []Inv
  BY <1>1, InitInv, PTL DEF Spec
<1>3. Inv => TypeOK /\ ReadyQueueOK /\ ContextOK
  BY InvImplies
<1> QED BY <1>2, <1>3, PTL

(* The scheduler's state has its type, whoever controls priorities.         *)
THEOREM StateTyped ==
  ASSUME IsrMax <= 1
  PROVE  Spec => []TypeOK
  BY ControlSafety, PTL

(* A thread inside a critical section stays on the CPU.                     *)
THEOREM Pinned ==
  ASSUME IsrMax <= 1
  PROVE  KernelSpec => CriticalPinned
<1>1. Inv /\ [KernelNext]_vars => Inv'
  BY InvSafe, InvSafePrimed, KernelStep, Depth1
<1>2. Inv /\ [KernelNext]_vars => [k.nest > 0 => on' = on]_vars
  <2> SUFFICES ASSUME Inv, KernelNext, k.nest > 0 PROVE on' = on
    BY DEF vars
  <2>1. ~ sw.pend
    BY DEF Inv, PinnedOK
  <2> QED
    BY <2>1 DEF KernelNext, ThreadNext, IsrNext, SharedNext, Startup, Yield, Suspend,
       EnterCritical, ExitCritical, TestFlag, ClearFlag, IsrEnter, IsrLeave, TickRead,
       TickCharge, PendSV, Resume, Wake, ReadCurrent, DoSchedule
<1> QED BY <1>1, <1>2, InitInv, PTL DEF KernelSpec, CriticalPinned

-----------------------------------------------------------------------------
(* The life of threads. *)

(* The steps of a death that the scheduler lock surrounds.                  *)
LockPc == {"close", "enqueue", "leave"}

(* The idle thread never dies and never suspends; a freed thread is closed. *)
LifeShape ==
  /\ defunct \in Seq(Thread) /\ dead \subseteq Thread \ {Idle}
  /\ Runnable(k, Idle)
  /\ \A t \in dead : k.stat[t] = "CLOSE"

(* Only the thread on the CPU is between the lock and the unlock of a       *)
(* death, and what it holds there is not yet, or already, on its way.       *)
CallsOK ==
  \A t \in Thread :
    /\ frame[t].pc # "tick"
    /\ frame[t].pc \in LockPc => t = on /\ k.nest > 0 /\ frame[t].curr # Idle
    /\ frame[t].pc = "close" => /\ k.stat[frame[t].curr] # "CLOSE"
                                /\ frame[t].curr = t => k.nest = 1
    /\ frame[t].pc = "leave" => frame[t].curr \in ToSet(defunct)
    /\ frame[t].pc = "reap" => t = Idle
    /\ frame[t].pc = "left" => frame[t].curr = t

NestOK == k.nest > NestMax => frame[on].pc \in LockPc

(* A closed thread that is still current is on its way to its last          *)
(* rt_schedule.                                                             *)
LastSteps == {"left", "clear", "resched", "sched"}

DyingOK ==
  k.stat[k.cur] = "CLOSE" =>
    \/ /\ frame[k.cur].pc \in {"enqueue", "leave"}
       /\ frame[k.cur].curr = k.cur /\ k.nest = 1
    \/ frame[k.cur].pc \in LastSteps /\ k.nest = 0

HandlersOK == \A i \in DOMAIN isr : isr[i].pc = "tick" => isr[i].curr = k.cur

OffCPU == on \notin Freed /\ k.cur \notin Freed

LifeInv ==
  /\ Safe(Pc \cup LifePc, NestMax + 1) /\ LifeShape
  /\ CallsOK /\ NestOK /\ DyingOK /\ HandlersOK
  /\ OffCPU /\ NoneForgotten /\ Closing \cap Reaping = {}

(* What LifeInv says of the executing thread.                               *)
LEMMA LifeTypes ==
  ASSUME LifeInv
  PROVE  /\ k \in KState /\ KernelOK(k) /\ k.nest \in Nat /\ k.cur \in Thread
         /\ on \in Thread /\ sw \in SwitchRec
         /\ frame \in [Thread -> LifeFrame] /\ isr \in Seq(Frame)
         /\ InThread => on = k.cur /\ ~ sw.pend /\ isr = <<>> /\ ~ InIsr
         /\ k.nest <= NestMax + 1 /\ NestMax \in Nat /\ Len(isr) <= IsrMax
         /\ Idle \in Thread
  BY SchedulerAssumption
     DEF LifeInv, Safe, Shape, FrameOf, LifeFrame, ReadyQueueOK, KernelOK, KState,
         InThread, InIsr, ContextOK

-----------------------------------------------------------------------------
(* The scheduler's own steps. *)

(* What they do to the threads' states ...                                  *)
QuietData ==
  /\ SameClosed(k, k') /\ Runnable(k', Idle)
  /\ k'.cur = k.cur \/ k'.stat[k'.cur] = "RUNNING"
  /\ \/ k'.nest = k.nest
     \/ InThread /\ frame[on].pc = "run" /\ (k'.nest <= NestMax \/ k'.nest <= k.nest)

(* rt_schedule closes nobody, and leaves a RUNNING current thread when the  *)
(* scheduler is not locked.                                                 *)
LEMMA RescheduleQuiet ==
  ASSUME NEW P, NEW d, Safe(P, d), NEW k1, KernelOK(k1), k1.cur = k.cur, k1.nest = k.nest,
         SameClosed(k, k1), Runnable(k1, Idle), Reschedule(k1, k.cur), UNCHANGED on
  PROVE  QuietData /\ (k.nest = 0 => k'.stat[k'.cur] = "RUNNING")
<1>1. /\ k'.nest = k.nest
      /\ \A t \in Thread : Runnable(k', t) <=> Runnable(k1, t)
      /\ SameClosed(k1, k')
      /\ k.nest # 0 => k'.cur = k.cur
      /\ (k.nest = 0 /\ \E t \in Thread : Runnable(k1, t)) => HighestCurrent(k')
  BY RescheduleKeeps
<1>2. k.nest = 0 => k'.stat[k'.cur] = "RUNNING"
  BY <1>1, SchedulerAssumption DEF HighestCurrent
<1> QED BY <1>1, <1>2, SchedulerAssumption DEF QuietData, SameClosed

(* No step of the scheduler closes a thread or brings one back, stops the   *)
(* idle thread, or makes a thread current that does not run.                *)
LEMMA KernelData ==
  ASSUME NEW P, NEW d, Safe(P, d), Runnable(k, Idle),
         KernelNext \/ \E t \in Thread, p \in Prio : ControlPriority(t, p)
  PROVE  QuietData
<1>1. /\ KernelOK(k) /\ k \in KState /\ k.cur \in Thread /\ Idle \in Thread
      /\ InThread => on = k.cur /\ ~ InIsr
  BY SchedulerAssumption
     DEF Safe, Shape, ReadyQueueOK, KernelOK, KState, ContextOK, InThread
<1>2. ASSUME k'.stat = k.stat, k'.cur = k.cur, k'.nest = k.nest PROVE QuietData
  BY <1>2 DEF QuietData, SameClosed, Runnable
<1>3. ASSUME NEW t \in Thread, Resume(t) PROVE QuietData
  <2>1. CASE IsSuspended(k, t)
    BY <1>1, <1>3, <2>1, ReadyKeeps, RescheduleQuiet DEF Resume
  <2>2. CASE ~ IsSuspended(k, t)
    BY <1>2, <1>3, <2>2 DEF Resume
  <2> QED BY <2>1, <2>2
<1>4. ASSUME NEW t \in Thread, Wake(t) PROVE QuietData
  <2> DEFINE k1 == ReadyThread(k, t)
             k2 == [k1 EXCEPT !.flag = FALSE]
  <2>1. /\ KernelOK(k1) /\ k1.cur = k.cur /\ k1.nest = k.nest
        /\ Runnable(k1, Idle) /\ SameClosed(k, k1)
    BY <1>1, ReadyKeeps
  <2>2. CASE k.nest = 0 /\ k.flag
    <3>1. Reschedule(k2, k.cur) /\ UNCHANGED on
      BY <1>4, <2>2 DEF Wake
    <3> HIDE DEF k1
    <3>2. k2 \in KState
      BY <2>1 DEF KernelOK, KState
    <3>3. KernelOK(k2) /\ k2.cur = k.cur /\ k2.nest = k.nest /\ k2.stat = k1.stat
      BY <2>1, <3>2, SameQueue DEF KernelOK, KState
    <3> HIDE DEF k2
    <3>4. SameClosed(k, k2) /\ Runnable(k2, Idle)
      BY <2>1, <3>3 DEF SameClosed, Runnable
    <3> QED BY <3>1, <3>3, <3>4, RescheduleQuiet
  <2>3. CASE ~ (k.nest = 0 /\ k.flag)
    <3>1. k' = k1
      BY <1>4, <2>3 DEF Wake
    <3> HIDE DEF k1
    <3> QED BY <2>1, <3>1 DEF QuietData
  <2> QED BY <2>2, <2>3
<1>5. ASSUME NEW t \in Thread, Startup(t) PROVE QuietData
  <2> DEFINE k1 == StartupThread(k, t)
             k2 == ReadyThread(k1, t)
  <2>1. /\ KernelOK(k1) /\ k1.cur = k.cur /\ k1.nest = k.nest
        /\ Runnable(k1, Idle) /\ SameClosed(k, k1)
    BY <1>1, <1>5, StartupKeeps DEF Startup
  <2> HIDE DEF k1
  <2>2. /\ KernelOK(k2) /\ k2.cur = k.cur /\ k2.nest = k.nest
        /\ Runnable(k2, Idle) /\ SameClosed(k1, k2)
    BY <1>1, <2>1, ReadyKeeps
  <2>3. Reschedule(k2, k.cur) /\ UNCHANGED on
    BY <1>5 DEF Startup, k1
  <2> HIDE DEF k2
  <2>4. SameClosed(k, k2)
    BY <2>1, <2>2 DEF SameClosed
  <2> QED BY <2>2, <2>3, <2>4, RescheduleQuiet
<1>6. ASSUME Yield PROVE QuietData
  <2> DEFINE k1 == YieldThread(k, k.cur)
  <2>1. KernelOK(k1) /\ k1.cur = k.cur /\ k1.nest = k.nest /\ k1.stat = k.stat
    BY <1>1, YieldKeeps
  <2>2. Reschedule(k1, k.cur) /\ UNCHANGED on
    BY <1>6 DEF Yield
  <2> HIDE DEF k1
  <2>3. SameClosed(k, k1) /\ Runnable(k1, Idle)
    BY <2>1 DEF SameClosed, Runnable
  <2> QED BY <2>1, <2>2, <2>3, RescheduleQuiet
<1>7. ASSUME Suspend PROVE QuietData
  BY <1>1, <1>7, SuspendKeeps DEF Suspend, QuietData
<1>8. ASSUME EnterCritical \/ ExitCritical PROVE QuietData
  <2>1. InThread /\ frame[on].pc = "run"
    BY <1>1, <1>8 DEF EnterCritical, ExitCritical, At, Current
  <2>2. k'.nest <= NestMax \/ k'.nest <= k.nest
    BY <1>1, <1>8, SchedulerAssumption DEF KState, EnterCritical, ExitCritical
  <2>3. k'.stat = k.stat /\ k'.cur = k.cur
    BY <1>1, <1>8 DEF KState, EnterCritical, ExitCritical
  <2> QED BY <2>1, <2>2, <2>3 DEF QuietData, SameClosed, Runnable
<1>9. ASSUME DoSchedule PROVE QuietData
  <2>1. Reschedule(k, k.cur) /\ UNCHANGED on
    BY <1>9, ReadThread DEF DoSchedule
  <2>2. SameClosed(k, k)
    BY DEF SameClosed
  <2> QED BY <1>1, <2>1, <2>2, RescheduleQuiet
<1>10. ASSUME TickCharge PROVE QuietData
  <2> DEFINE t == Current.curr
             k1 == TickThread(k, t)
  <2>1. KernelOK(k1) /\ k1.cur = k.cur /\ k1.nest = k.nest /\ k1.stat = k.stat
    BY <1>1, CurrentThread, TickKeeps
  <2>2. IF SliceExpires(k, t) THEN Reschedule(k1, k.cur) ELSE k' = k1
    BY <1>10 DEF TickCharge
  <2>3. UNCHANGED on
    BY <1>10 DEF TickCharge
  <2> HIDE DEF k1, t
  <2>4. SameClosed(k, k1) /\ Runnable(k1, Idle)
    BY <2>1 DEF SameClosed, Runnable
  <2> QED BY <2>1, <2>2, <2>3, <2>4, RescheduleQuiet DEF QuietData
<1>11. ASSUME NEW t \in Thread, NEW p \in Prio, ControlPriority(t, p) PROVE QuietData
  BY <1>1, <1>11, ChangePriorityKeeps, ResetPriorityKeeps DEF ControlPriority, QuietData
<1>12. ASSUME ClearFlag PROVE QuietData
  BY <1>1, <1>2, <1>12 DEF ClearFlag, KState
<1>13. ASSUME ReadCurrent \/ TestFlag \/ IsrEnter \/ IsrLeave \/ TickRead \/ PendSV PROVE QuietData
  BY <1>2, <1>13 DEF ReadCurrent, TestFlag, IsrEnter, IsrLeave, TickRead, PendSV
<1> QED BY <1>3, <1>4, <1>5, <1>6, <1>7, <1>8, <1>9, <1>10, <1>11, <1>12, <1>13
        DEF KernelNext, ThreadNext, IsrNext, SharedNext

(* ... and to the frames: those of this module's calls stay as they are.    *)
QuietFrames ==
  /\ on' = on \/ (sw.pend /\ on' = k.cur)
  /\ \A t \in Thread :
       \/ frame'[t] = frame[t]
       \/ /\ t = on /\ InThread
          /\ frame[t].pc \in Pc /\ frame'[t].pc \in Pc \ {"tick"}
          /\ k.stat[on] = "CLOSE" => \/ frame'[t].pc \in LastSteps
                                     \/ k'.stat[k'.cur] = "RUNNING"

(* The steps of the scheduler move the frame of the executing thread only,  *)
(* and a closed thread only along its last steps.                           *)
LEMMA KernelFrames ==
  ASSUME LifeInv, KernelNext \/ \E t \in Thread, p \in Prio : ControlPriority(t, p)
  PROVE  QuietFrames
<1>1. /\ k \in KState /\ on \in Thread
      /\ frame \in [Thread -> LifeFrame] /\ isr \in Seq(Frame)
      /\ InThread => on = k.cur /\ ~ InIsr
      /\ At("run") \/ At("exit") => InIsr \/ InThread
  BY LifeTypes DEF At
<1>2. ASSUME UNCHANGED <<frame, on>> PROVE QuietFrames
  BY <1>2 DEF QuietFrames
<1>3. ASSUME NEW from \in Pc, NEW to \in Pc \ {"tick"}, NEW c, At(from), UNCHANGED on,
             SetFrame([pc |-> to, curr |-> c]),
             k.stat[k.cur] = "CLOSE" /\ frame[k.cur].pc = from =>
               to \in LastSteps \/ k'.stat[k'.cur] = "RUNNING"
      PROVE  QuietFrames
  <2>1. CASE InIsr
    BY <1>2, <1>3, <2>1 DEF SetFrame
  <2>2. CASE ~ InIsr
    <3>1. /\ InThread /\ on = k.cur /\ frame[on].pc = from
          /\ frame' = [frame EXCEPT ![on] = [pc |-> to, curr |-> c]]
      BY <1>1, <1>3, <2>2 DEF SetFrame, At, Current
    <3>2. frame'[on].pc = to /\ \A t \in Thread \ {on} : frame'[t] = frame[t]
      BY <1>1, <3>1
    <3> QED BY <1>3, <3>1, <3>2 DEF QuietFrames
  <2> QED BY <2>1, <2>2
<1>4. ASSUME NEW pc \in Pc \ {"clear", "resched", "sched"},
             k.stat[k.cur] = "CLOSE", frame[k.cur].pc = pc
      PROVE  FALSE
  BY <1>4 DEF LifeInv, DyingOK, Pc, LastSteps
<1>5. ASSUME NEW t \in Thread,
             Resume(t) \/ Startup(t) \/ Yield \/ EnterCritical \/ IsrEnter \/ IsrLeave
             \/ \E p \in Prio : ControlPriority(t, p)
      PROVE  QuietFrames
  BY <1>2, <1>5
     DEF Resume, Startup, Yield, EnterCritical, IsrEnter, IsrLeave, ControlPriority
<1>6. ASSUME NEW t \in Thread, Wake(t) PROVE QuietFrames
  BY <1>3, <1>4, <1>6 DEF Wake, Goto, Pc
<1>7. ASSUME ReadCurrent PROVE QuietFrames
  BY <1>3, <1>7 DEF ReadCurrent, Pc, LastSteps
<1>8. ASSUME DoSchedule PROVE QuietFrames
  <2>1. Reschedule(k, k.cur) /\ UNCHANGED on /\ At("sched")
    BY <1>8, ReadThread DEF DoSchedule, LifeInv
  <2>2. KernelOK(k) /\ SameClosed(k, k) /\ Runnable(k, Idle)
    BY LifeTypes DEF SameClosed, LifeInv, LifeShape
  <2>3. k.nest = 0 => k'.stat[k'.cur] = "RUNNING"
    BY <2>1, <2>2, RescheduleQuiet DEF LifeInv
  <2>4. k.stat[k.cur] = "CLOSE" /\ frame[k.cur].pc = "sched" => k.nest = 0
    BY DEF LifeInv, DyingOK
  <2> QED BY <1>3, <1>8, <2>1, <2>3, <2>4 DEF DoSchedule, Goto, Pc
<1>9. ASSUME Suspend \/ ExitCritical PROVE QuietFrames
  BY <1>2, <1>3, <1>4, <1>9 DEF Suspend, ExitCritical, Goto, Pc
<1>10. ASSUME TestFlag PROVE QuietFrames
  <2> DEFINE to == IF k.flag THEN "clear" ELSE "run"
  <2>1. to \in Pc \ {"tick"} /\ "exit" \in Pc \ {"clear", "resched", "sched"}
    BY DEF Pc
  <2>2. At("exit") /\ UNCHANGED on /\ SetFrame([pc |-> to, curr |-> on])
    BY <1>10 DEF TestFlag, Goto
  <2> HIDE DEF to
  <2> QED BY <1>3, <1>4, <2>1, <2>2
<1>11. ASSUME ClearFlag PROVE QuietFrames
  BY <1>3, <1>11 DEF ClearFlag, Goto, Pc, LastSteps
<1>12. ASSUME TickRead PROVE QuietFrames
  BY <1>2, <1>12 DEF TickRead, SetFrame
<1>13. ASSUME TickCharge PROVE QuietFrames
  <2>1. ~ (k.stat[k.cur] = "CLOSE" /\ frame[k.cur].pc = "tick")
    BY <1>4 DEF Pc
  <2> QED BY <1>3, <1>13, <2>1 DEF TickCharge, Goto, Pc
<1>14. ASSUME PendSV PROVE QuietFrames
  BY <1>14 DEF PendSV, QuietFrames, LifeInv, Safe, ContextOK
<1> QED BY <1>5, <1>6, <1>7, <1>8, <1>9, <1>10, <1>11, <1>12, <1>13, <1>14, SchedulerAssumption
        DEF KernelNext, ThreadNext, IsrNext, SharedNext

(* A handler that has read the current thread is the only one, and charges  *)
(* that thread before another can become current.                           *)
LEMMA KernelHandlers ==
  ASSUME LifeInv, IsrMax <= 1,
         KernelNext \/ \E t \in Thread, p \in Prio : ControlPriority(t, p)
  PROVE  HandlersOK'
<1>1. isr \in Seq(Frame) /\ Len(isr) \in {0, 1} /\ (InThread => ~ InIsr)
  <2>1. isr \in Seq(Frame) /\ Len(isr) <= IsrMax /\ (InThread => ~ InIsr)
    BY LifeTypes
  <2>2. Len(isr) \in Nat /\ IsrMax \in Nat
    BY <2>1, SchedulerAssumption
  <2>3. \A n, m \in Nat : n <= m /\ m <= 1 => n \in {0, 1}
    OBVIOUS
  <2>4. Len(isr) \in {0, 1}
    BY <2>1, <2>2, <2>3
  <2> QED BY <2>1, <2>4
<1>2. CASE Len(isr) = 0
  <2>1. isr = <<>> /\ ~ InIsr
    BY <1>1, <1>2 DEF InIsr
  <2>2. isr' = <<>> \/ isr' = Append(isr, [pc |-> "run", curr |-> on])
    BY <2>1 DEF KernelNext, ThreadNext, IsrNext, SharedNext, Startup, Yield, Suspend,
       EnterCritical, ExitCritical, TestFlag, ClearFlag, IsrEnter, IsrLeave, TickRead,
       TickCharge, PendSV, Resume, Wake, ReadCurrent, DoSchedule, ControlPriority,
       Goto, SetFrame
  <2>3. \A i \in DOMAIN isr' : isr'[i].pc # "tick"
    BY <2>1, <2>2
  <2> QED BY <2>3 DEF HandlersOK
<1>3. CASE Len(isr) = 1
  <2>1. InIsr /\ Current = isr[1] /\ ~ InThread
    BY <1>1, <1>3 DEF InIsr, Current, Last
  <2>2. ASSUME NEW f, f.pc # "tick" \/ (f.curr = k.cur /\ k'.cur = k.cur),
               isr' = [isr EXCEPT ![Len(isr)] = f]
        PROVE  HandlersOK'
    <3>1. DOMAIN isr' = {1} /\ isr'[1] = f
      BY <1>1, <1>3, <2>2
    <3> QED BY <2>2, <3>1 DEF HandlersOK
  <2>3. ASSUME isr' = isr, isr[1].pc = "run" PROVE HandlersOK'
    BY <1>1, <1>3, <2>3 DEF HandlersOK
  <2>4. CASE \E t \in Thread : Resume(t)
    BY <2>1, <2>3, <2>4 DEF Resume, At
  <2>5. CASE \E t \in Thread : Wake(t)
    BY <2>1, <2>2, <2>5 DEF Wake, Goto, SetFrame
  <2>6. CASE ReadCurrent \/ DoSchedule \/ ClearFlag \/ TickRead \/ TickCharge
    BY <2>1, <2>2, <2>6
       DEF ReadCurrent, DoSchedule, ClearFlag, TickRead, TickCharge, Goto, SetFrame
  <2>7. CASE IsrLeave
    <3>1. isr' = Front(isr) /\ isr # <<>>
      BY <1>3, <2>7 DEF IsrLeave
    <3>2. DOMAIN isr' = 1 .. Len(isr) - 1
      BY <1>1, <3>1, FrontProperties
    <3>3. DOMAIN isr' = {}
      BY <1>3, <3>2
    <3> QED BY <3>3 DEF HandlersOK
  <2>8. CASE TestFlag
    <3>1. isr[1].pc = "exit"
      BY <2>1, <2>8 DEF TestFlag, At
    <3> QED BY <1>1, <1>3, <3>1 DEF LifeInv, Safe, FramesOK
  <2> QED
    BY <1>3, <2>1, <2>4, <2>5, <2>6, <2>7, <2>8, SchedulerAssumption
       DEF KernelNext, ThreadNext, IsrNext, SharedNext, Startup, Yield, Suspend,
           EnterCritical, ExitCritical, IsrEnter, PendSV, ControlPriority
<1> QED BY <1>1, <1>2, <1>3

(* The frames of this module's calls decide who is closing and who reaping. *)
LEMMA SameCalls ==
  ASSUME \A t \in Thread :
           \/ frame'[t] = frame[t]
           \/ /\ frame[t].pc \notin {"enqueue", "reap"}
              /\ frame'[t].pc \notin {"enqueue", "reap"}
  PROVE  Closing' = Closing /\ Reaping' = Reaping
  BY DEF Closing, Reaping

(* A thread that is freed, or about to be, is closed.                       *)
LEMMA FreedClosed ==
  ASSUME LifeInv
  PROVE  Freed \subseteq Thread /\ \A t \in Freed : k.stat[t] = "CLOSE"
  BY DEF LifeInv, LifeShape, NoneForgotten, Freed

(* Steps that leave the threads' states and the frames of this module's     *)
(* calls alone keep the invariant.                                          *)
LEMMA QuietKeeps ==
  ASSUME LifeInv, Safe(Pc \cup LifePc, NestMax + 1)', QuietData, QuietFrames,
         HandlersOK', UNCHANGED <<defunct, dead>>
  PROVE  LifeInv'
<1>1. /\ k.nest \in Nat /\ k.cur \in Thread /\ on \in Thread /\ NestMax \in Nat
      /\ frame \in [Thread -> LifeFrame]
      /\ InThread => on = k.cur /\ ~ sw.pend
      /\ k'.cur \in Thread /\ k' \in KState
  BY LifeTypes DEF Safe, Shape, KState
<1>2. /\ \A t \in Thread : k'.stat[t] = "CLOSE" <=> k.stat[t] = "CLOSE"
      /\ Runnable(k', Idle)
      /\ k'.cur = k.cur \/ k'.stat[k'.cur] = "RUNNING"
      /\ \/ k'.nest = k.nest
         \/ InThread /\ frame[on].pc = "run" /\ (k'.nest <= NestMax \/ k'.nest <= k.nest)
  BY DEF QuietData, SameClosed
<1>3. /\ on' = on \/ (sw.pend /\ on' = k.cur)
      /\ \A t \in Thread :
           \/ frame'[t] = frame[t]
           \/ /\ t = on /\ InThread
              /\ frame[t].pc \in Pc /\ frame'[t].pc \in Pc \ {"tick"}
              /\ k.stat[on] = "CLOSE" => \/ frame'[t].pc \in LastSteps
                                         \/ k'.stat[k'.cur] = "RUNNING"
  BY DEF QuietFrames
<1>4. Closing' = Closing /\ Reaping' = Reaping /\ Freed' = Freed
  <2>1. \A t \in Thread :
           \/ frame'[t] = frame[t]
           \/ /\ frame[t].pc \notin {"enqueue", "reap"}
              /\ frame'[t].pc \notin {"enqueue", "reap"}
    BY <1>3 DEF Pc
  <2> QED BY <2>1, SameCalls DEF Freed
<1>5. k.nest > 0 => on' = on /\ ~ sw.pend
  BY <1>1, <1>3 DEF LifeInv, Safe, PinnedOK
<1>6. LifeShape'
  BY <1>2 DEF LifeInv, LifeShape
<1>7. \A t \in Thread : frame'[t].pc \in LockPc \cup {"left", "reap", "tick"} => frame'[t] = frame[t]
  BY <1>3 DEF Pc, LockPc
<1>8. \A t \in Thread : frame[t].pc \in LockPc => t = on /\ k.nest > 0 /\ frame[t].curr # Idle
  BY DEF LifeInv, CallsOK
<1>9. \A t \in Thread : frame[t].pc \in LockPc => k'.nest = k.nest /\ on' = on
  <2> SUFFICES ASSUME NEW t \in Thread, frame[t].pc \in LockPc
               PROVE  k'.nest = k.nest /\ on' = on
    OBVIOUS
  <2>1. frame[on].pc # "run"
    BY <1>8 DEF LockPc
  <2> QED BY <1>2, <1>5, <1>8, <2>1
<1>10. CallsOK'
  <2> SUFFICES ASSUME NEW t \in Thread
               PROVE  /\ frame'[t].pc # "tick"
                      /\ frame'[t].pc \in LockPc => t = on' /\ k'.nest > 0 /\ frame'[t].curr # Idle
                      /\ frame'[t].pc = "close" => /\ k'.stat[frame'[t].curr] # "CLOSE"
                                                   /\ frame'[t].curr = t => k'.nest = 1
                      /\ frame'[t].pc = "leave" => frame'[t].curr \in ToSet(defunct)
                      /\ frame'[t].pc = "reap" => t = Idle
                      /\ frame'[t].pc = "left" => frame'[t].curr = t
    BY DEF CallsOK
  <2>1. frame[t].pc # "tick"
    BY DEF LifeInv, CallsOK
  <2>2. CASE frame'[t] = frame[t]
    <3>1. frame[t].curr \in Thread
      BY <1>1 DEF LifeFrame
    <3> QED BY <1>2, <1>9, <2>2, <3>1 DEF LifeInv, CallsOK, LockPc
  <2>3. CASE frame'[t] # frame[t]
    BY <1>3, <2>3 DEF Pc, LockPc
  <2> QED BY <2>2, <2>3
<1>11. NestOK'
  <2>1. CASE k'.nest = k.nest
    <3>1. k.nest > NestMax => frame[on].pc \in LockPc /\ k.nest > 0
      BY <1>1 DEF LifeInv, NestOK
    <3>2. frame[on].pc \in LockPc => frame'[on] = frame[on]
      BY <1>1, <1>3 DEF Pc, LockPc
    <3> QED BY <1>5, <2>1, <3>1, <3>2 DEF NestOK
  <2>2. CASE k'.nest # k.nest
    <3>1. k.nest <= NestMax
      BY <1>1, <1>2, <2>2 DEF LifeInv, NestOK, LockPc
    <3>2. k'.nest \in Nat
      BY <1>1 DEF KState
    <3> QED BY <1>1, <1>2, <2>2, <3>1, <3>2 DEF NestOK
  <2> QED BY <2>1, <2>2
<1>12. DyingOK'
  <2> SUFFICES ASSUME k'.stat[k'.cur] = "CLOSE"
               PROVE  \/ /\ frame'[k'.cur].pc \in {"enqueue", "leave"}
                         /\ frame'[k'.cur].curr = k'.cur /\ k'.nest = 1
                      \/ frame'[k'.cur].pc \in LastSteps /\ k'.nest = 0
    BY DEF DyingOK
  <2>1. k'.cur = k.cur /\ k.stat[k.cur] = "CLOSE"
    BY <1>1, <1>2
  <2>2. \/ /\ frame[k.cur].pc \in {"enqueue", "leave"}
           /\ frame[k.cur].curr = k.cur /\ k.nest = 1
        \/ frame[k.cur].pc \in LastSteps /\ k.nest = 0
    BY <2>1 DEF LifeInv, DyingOK
  <2>3. frame[k.cur].pc # "run"
    BY <2>2 DEF LastSteps
  <2>4. k'.nest = k.nest
    BY <1>1, <1>2, <2>3
  <2>5. CASE frame'[k.cur] = frame[k.cur]
    BY <2>1, <2>2, <2>4, <2>5
  <2>6. CASE frame'[k.cur] # frame[k.cur]
    <3>1. frame[k.cur].pc \in Pc /\ frame'[k.cur].pc \in LastSteps
      BY <1>1, <1>3, <2>1, <2>6
    <3> QED BY <2>1, <2>2, <2>4, <3>1 DEF Pc
  <2> QED BY <2>5, <2>6
<1>13. OffCPU'
  <2>1. \A t \in Freed : t \in Thread /\ k'.stat[t] = "CLOSE"
    BY <1>2, FreedClosed
  <2> QED BY <1>2, <1>3, <1>4, <2>1 DEF LifeInv, OffCPU
<1>14. NoneForgotten' /\ (Closing \cap Reaping = {})'
  BY <1>2, <1>4 DEF LifeInv, NoneForgotten
<1> QED BY <1>6, <1>10, <1>11, <1>12, <1>13, <1>14 DEF LifeInv

(* The scheduler's own steps keep the invariant of this module.             *)
LEMMA KernelLife ==
  ASSUME LifeInv, IsrMax <= 1, UNCHANGED <<defunct, dead>>,
         KernelNext \/ \E t \in Thread, p \in Prio : ControlPriority(t, p)
  PROVE  LifeInv'
<1>1. Safe(Pc \cup LifePc, NestMax + 1) /\ Runnable(k, Idle)
  BY DEF LifeInv, LifeShape
<1>2. Safe(Pc \cup LifePc, NestMax + 1)'
  BY <1>1, KernelStep, Depth1, ControlPriorityStep
<1> QED BY <1>1, <1>2, KernelData, KernelFrames, KernelHandlers, QuietKeeps

-----------------------------------------------------------------------------
(* The steps of a thread in the calls of this module. *)

(* A step of a thread in these calls, which moves its frame, keeps what the *)
(* scheduler needs.                                                         *)
LEMMA LifeSafe ==
  ASSUME LifeInv, InThread, KernelOK(k'), k'.nest <= NestMax + 1, UNCHANGED on,
         sw' \in SwitchRec, ContextOK', PinnedOK',
         NEW pc \in (Pc \cup LifePc) \ {"sched"}, NEW c \in Thread,
         SetFrame([pc |-> pc, curr |-> c])
  PROVE  /\ Safe(Pc \cup LifePc, NestMax + 1)'
         /\ HandlersOK' /\ isr' = <<>>
         /\ frame' = [frame EXCEPT ![on] = [pc |-> pc, curr |-> c]]
         /\ frame'[on].pc = pc /\ frame'[on].curr = c
         /\ \A t \in Thread \ {on} : frame'[t] = frame[t]
<1> DEFINE P == Pc \cup LifePc
           f == [pc |-> pc, curr |-> c]
<1>1. /\ on \in Thread /\ frame \in [Thread -> LifeFrame]
      /\ isr = <<>> /\ ~ InIsr /\ f \in LifeFrame /\ IsrMax \in Nat
  BY LifeTypes, SchedulerAssumption DEF LifeFrame
<1>2. isr' = <<>> /\ frame' = [frame EXCEPT ![on] = f]
  BY <1>1 DEF SetFrame
<1>3. frame' \in [Thread -> FrameOf(P)]
  BY <1>1, <1>2 DEF LifeFrame, FrameOf
<1>4. /\ frame'[on].pc = pc /\ frame'[on].curr = c
      /\ \A t \in Thread \ {on} : frame'[t] = frame[t]
  BY <1>1, <1>2
<1>5. FramesOK'
  <2>1. \A t \in Thread : frame'[t].pc = "sched" => frame'[t].curr = t
    BY <1>4 DEF LifeInv, Safe, FramesOK
  <2> QED BY <1>2, <2>1 DEF FramesOK
<1>6. Safe(P, NestMax + 1)
  BY DEF LifeInv
<1>7. Safe(P, NestMax + 1)'
  <2>1. on' \in Thread /\ isr' \in Seq(Frame) /\ Len(isr') <= IsrMax
    BY <1>1, <1>2
  <2> HIDE DEF P
  <2> QED BY <1>3, <1>5, <1>6, <2>1, SafeParts
<1> QED BY <1>2, <1>4, <1>7 DEF HandlersOK

(* Only the thread on the CPU, outside handlers, is inside these calls.     *)
LEMMA LifeThread ==
  ASSUME LifeInv, NEW pc \in LifePc, At(pc)
  PROVE  /\ InThread /\ frame[on].pc = pc /\ on = k.cur
         /\ Current = frame[on] /\ frame[on].curr \in Thread
<1>1. ~ InIsr
  <2> SUFFICES ASSUME InIsr PROVE FALSE
    OBVIOUS
  <2>1. isr \in Seq(Frame) /\ isr # <<>>
    BY LifeTypes DEF InIsr
  <2>2. Len(isr) \in DOMAIN isr /\ isr[Len(isr)].pc = pc
    BY <2>1 DEF At, Current, Last
  <2> QED BY <2>2 DEF LifeInv, Safe, FramesOK, LifePc
<1>2. InThread /\ on = k.cur /\ frame[on].pc = pc /\ Current = frame[on]
  BY <1>1, LifeTypes DEF At, Current
<1> QED BY <1>2, LifeTypes DEF LifeFrame

(* A thread in its own code is not closed, and nobody else is in the middle *)
(* of a death.                                                              *)
LEMMA OwnThread ==
  ASSUME LifeInv, Own
  PROVE  /\ InThread /\ frame[on].pc = "run" /\ on = k.cur /\ on \in Thread
         /\ k.stat[on] # "CLOSE" /\ k.nest <= NestMax
         /\ \A t \in Thread : frame[t].pc \notin LockPc
         /\ Closing = {}
<1>1. InThread /\ frame[on].pc = "run" /\ on = k.cur /\ on \in Thread
  BY LifeTypes DEF Own, At, Current
<1>2. k.stat[on] # "CLOSE"
  BY <1>1 DEF LifeInv, DyingOK, LastSteps
<1>3. k.nest <= NestMax
  BY <1>1, LifeTypes DEF LifeInv, NestOK, LockPc
<1>4. \A t \in Thread : frame[t].pc \notin LockPc
  BY <1>1 DEF LifeInv, CallsOK, LockPc
<1> QED BY <1>1, <1>2, <1>3, <1>4 DEF Closing, LockPc

(* The steps that leave the pending switch alone.                           *)
LEMMA SameSwitch ==
  ASSUME LifeInv, InThread, UNCHANGED <<on, sw>>, k'.cur = k.cur
  PROVE  sw' \in SwitchRec /\ ContextOK' /\ PinnedOK'
  BY LifeTypes DEF ContextOK, PinnedOK

(* The lock that a death begins with.                                       *)
LEMMA DiesStep ==
  ASSUME LifeInv, Own, NEW t \in Thread, t # Idle, k.stat[t] # "CLOSE",
         t = on => k.nest = 0, Dies(t)
  PROVE  LifeInv'
<1>1. /\ InThread /\ frame[on].pc = "run" /\ on = k.cur /\ on \in Thread
      /\ k.stat[on] # "CLOSE" /\ k.nest <= NestMax
      /\ \A u \in Thread : frame[u].pc \notin LockPc
      /\ Closing = {}
  BY OwnThread
<1>2. k.nest \in Nat /\ k \in KState /\ NestMax \in Nat /\ k.flag \in BOOLEAN
  BY LifeTypes DEF KState
<1> DEFINE n == k.nest + 1
<1>3. k' = [k EXCEPT !.nest = n, !.flag = k.flag]
  BY <1>2 DEF Dies, KState
<1> n \in Nat
  BY <1>2
<1>4. n <= NestMax + 1 /\ n > 0 /\ (k.nest = 0 => n = 1)
  BY <1>1, <1>2
<1> HIDE DEF n
<1>5. KernelOK(k') /\ k'.cur = k.cur /\ k'.nest = n /\ k'.stat = k.stat
  BY <1>2, <1>3, CriticalState DEF LifeInv
<1>6. UNCHANGED <<on, sw, defunct, dead>> /\ SetFrame([pc |-> "close", curr |-> t])
  BY DEF Dies, GotoFor
<1>7. sw' \in SwitchRec /\ ContextOK' /\ PinnedOK'
  BY <1>1, <1>5, <1>6, SameSwitch
<1>8. /\ Safe(Pc \cup LifePc, NestMax + 1)' /\ HandlersOK'
      /\ frame'[on].pc = "close" /\ frame'[on].curr = t
      /\ \A u \in Thread \ {on} : frame'[u] = frame[u]
  BY <1>1, <1>4, <1>5, <1>6, <1>7, LifeSafe DEF LifePc
<1>9. Closing' = Closing /\ Reaping' = Reaping /\ Freed' = Freed
  <2>1. \A u \in Thread :
           \/ frame'[u] = frame[u]
           \/ /\ frame[u].pc \notin {"enqueue", "reap"}
              /\ frame'[u].pc \notin {"enqueue", "reap"}
    BY <1>1, <1>8
  <2> QED BY <2>1, <1>6, SameCalls DEF Freed
<1>10. LifeShape'
  BY <1>5, <1>6 DEF LifeInv, LifeShape, Runnable
<1>11. CallsOK'
  <2>1. \A u \in Thread \ {on} : frame'[u] = frame[u] /\ frame'[u].pc \notin LockPc
    BY <1>1, <1>8
  <2> QED BY <1>4, <1>5, <1>6, <1>8, <2>1 DEF LifeInv, CallsOK, LockPc
<1>12. NestOK' /\ DyingOK'
  BY <1>1, <1>5, <1>6, <1>8 DEF NestOK, DyingOK, LockPc
<1>13. OffCPU' /\ NoneForgotten' /\ (Closing \cap Reaping = {})'
  BY <1>5, <1>6, <1>9 DEF LifeInv, OffCPU, NoneForgotten
<1> QED BY <1>8, <1>10, <1>11, <1>12, <1>13 DEF LifeInv

(* Who closes a thread is on the CPU, and who reaps is the idle thread.     *)
InHands ==
  /\ Closing = IF frame[on].pc = "enqueue" THEN {frame[on].curr} ELSE {}
  /\ Reaping = IF frame[Idle].pc = "reap" THEN {frame[Idle].curr} ELSE {}

(* The calls that hold a closed thread are known from two frames.           *)
LEMMA Hands == on \in Thread /\ CallsOK => InHands
<1> SUFFICES ASSUME on \in Thread, CallsOK PROVE InHands
  OBVIOUS
<1>1. Idle \in Thread
  BY SchedulerAssumption
<1>2. \A t \in Thread : frame[t].pc = "enqueue" => t = on
  BY DEF CallsOK, LockPc
<1>3. \A t \in Thread : frame[t].pc = "reap" => t = Idle
  BY DEF CallsOK
<1> QED BY <1>1, <1>2, <1>3 DEF InHands, Closing, Reaping

(* The same of the next state.                                              *)
LEMMA HandsPrimed == (on \in Thread)' /\ CallsOK' => InHands'
  BY Hands, PTL

(* rt_thread_close takes the thread out of its ready list.                  *)
LEMMA CloseThreadKeeps ==
  ASSUME KernelOK(k), NEW t \in Thread, t # Idle, k.stat[t] # "CLOSE"
  PROVE  LET r == CloseThread(t)
         IN  /\ KernelOK(r) /\ r.cur = k.cur /\ r.nest = k.nest
             /\ r.stat = [k.stat EXCEPT ![t] = "CLOSE"]
<1> DEFINE k1 == [(IF k.stat[t] = "INIT" THEN k ELSE RemoveThread(k, t)) EXCEPT !.stat[t] = "CLOSE"]
           r == CloseThread(t)
<1>1. k \in KState /\ QueueOK(k) /\ CurrentOK(k)
  BY DEF KernelOK
<1>2. /\ k1 \in KState /\ QueueOK(k1)
      /\ k1.stat = [k.stat EXCEPT ![t] = "CLOSE"]
      /\ k1.cur = k.cur /\ k1.nest = k.nest
  <2>1. CASE k.stat[t] = "INIT"
    <3>1. k1 = [k EXCEPT !.stat[t] = "CLOSE"]
      BY <2>1
    <3>2. k1 \in KState
      BY <1>1, <3>1, SetStatType DEF Stat
    <3>3. /\ k1.stat = [k.stat EXCEPT ![t] = "CLOSE"] /\ k1.cprio = k.cprio
          /\ k1.mask = k.mask /\ k1.list = k.list /\ k1.group = k.group
          /\ k1.cur = k.cur /\ k1.nest = k.nest
      BY <1>1, <3>1 DEF KState
    <3> HIDE DEF k1
    <3>4. \A u \in Thread : k1.stat[u] = "READY" <=> k.stat[u] = "READY"
      BY <1>1, <2>1, <3>3 DEF KState
    <3>5. MaskOK(k1)
      BY <1>1, <3>3 DEF QueueOK, MaskOK, KState
    <3>6. ListOK(k1) /\ GroupOK(k1)
      BY <1>1, <3>3, <3>4 DEF QueueOK, ListOK, GroupOK
    <3> QED BY <3>2, <3>3, <3>5, <3>6 DEF QueueOK
  <2>2. CASE k.stat[t] # "INIT"
    <3>1. k.mask[t] = {k.cprio[t]}
      BY <1>1, <2>2 DEF QueueOK, MaskOK
    <3>2. k1 = [RemoveThread(k, t) EXCEPT !.stat[t] = "CLOSE"]
      BY <2>2
    <3> HIDE DEF k1
    <3> QED BY <1>1, <3>1, <3>2, RemoveKeeps DEF Stat
  <2> QED BY <2>1, <2>2
<1>3. r = [k1 EXCEPT !.yield[t] = FALSE]
  BY DEF CloseThread
<1> HIDE DEF k1, r
<1>4. r \in KState
  BY <1>2, <1>3 DEF KState
<1>5. KernelOK(k1)
  BY SMTT(30), <1>1, <1>2 DEF KernelOK, CurrentOK, KState
<1>6. /\ r.cur = k1.cur /\ r.stat = k1.stat /\ r.mask = k1.mask /\ r.cprio = k1.cprio
      /\ r.list = k1.list /\ r.group = k1.group /\ r.nest = k1.nest
  BY <1>2, <1>3 DEF KState
<1>7. KernelOK(r)
  BY <1>4, <1>5, <1>6, SameQueue
<1> QED BY <1>2, <1>6, <1>7 DEF r

(* rt_thread_close: the thread goes from its ready list into the hands of   *)
(* the one who closes it ...                                                *)
LEMMA CloseStep ==
  ASSUME LifeInv, Close
  PROVE  LifeInv'
<1> DEFINE T == frame[on].curr
<1>1. /\ InThread /\ frame[on].pc = "close" /\ on = k.cur /\ on \in Thread
      /\ Target = T /\ T \in Thread /\ KernelOK(k) /\ k \in KState
  BY LifeThread, LifeTypes DEF Close, LifePc, Target
<1>2. /\ k.nest > 0 /\ T # Idle /\ k.stat[T] # "CLOSE" /\ (T = on => k.nest = 1)
      /\ k.nest <= NestMax + 1
      /\ \A u \in Thread \ {on} : frame[u].pc \notin LockPc
  BY <1>1, LifeTypes DEF LifeInv, CallsOK, LockPc
<1>3. /\ k' = CloseThread(T) /\ UNCHANGED <<on, sw, defunct, dead>>
      /\ SetFrame([pc |-> "enqueue", curr |-> T])
  BY <1>1 DEF Close, GotoFor
<1> HIDE DEF T
<1>4. /\ KernelOK(k') /\ k'.cur = k.cur /\ k'.nest = k.nest
      /\ k'.stat = [k.stat EXCEPT ![T] = "CLOSE"]
  BY <1>1, <1>2, <1>3, CloseThreadKeeps
<1>5. \A u \in Thread : k'.stat[u] = IF u = T THEN "CLOSE" ELSE k.stat[u]
  BY <1>1, <1>4 DEF KState
<1>6. sw' \in SwitchRec /\ ContextOK' /\ PinnedOK'
  BY <1>1, <1>3, <1>4, SameSwitch
<1>7. /\ Safe(Pc \cup LifePc, NestMax + 1)' /\ HandlersOK'
      /\ frame'[on].pc = "enqueue" /\ frame'[on].curr = T
      /\ \A u \in Thread \ {on} : frame'[u] = frame[u]
  BY <1>1, <1>2, <1>3, <1>4, <1>6, LifeSafe DEF LifePc
<1>8. LifeShape'
  BY <1>2, <1>3, <1>5, SchedulerAssumption DEF LifeInv, LifeShape, Runnable
<1>9. CallsOK'
  <2>1. \A u \in Thread \ {on} : frame'[u] = frame[u] /\ frame'[u].pc \notin LockPc
    BY <1>2, <1>7
  <2> QED BY <1>2, <1>3, <1>4, <1>7, <2>1 DEF LifeInv, CallsOK, LockPc
<1>10. NestOK'
  BY <1>3, <1>7 DEF NestOK, LockPc
<1>11. DyingOK'
  <2>1. k.stat[k.cur] # "CLOSE"
    BY <1>1 DEF LifeInv, DyingOK, LastSteps
  <2> QED BY <1>1, <1>2, <1>4, <1>5, <1>7, <2>1 DEF DyingOK
<1>12. Closing = {} /\ Closing' = {T} /\ Reaping' = Reaping
  <2>1. frame'[Idle].pc = "reap" <=> frame[Idle].pc = "reap"
    BY <1>1, <1>7, SchedulerAssumption
  <2>2. frame'[Idle].pc = "reap" => frame'[Idle] = frame[Idle]
    BY <1>1, <1>7, SchedulerAssumption
  <2> QED BY <1>1, <1>3, <1>7, <1>9, <2>1, <2>2, Hands, HandsPrimed DEF LifeInv, InHands
<1>13. T \notin ToSet(defunct) \cup Reaping \cup dead
  BY <1>2 DEF LifeInv, NoneForgotten, LifeShape
<1>14. OffCPU'
  BY <1>3, <1>4, <1>12 DEF LifeInv, OffCPU, Freed
<1>15. NoneForgotten' /\ (Closing \cap Reaping = {})'
  <2>1. {t \in Thread \ dead : k'.stat[t] = "CLOSE"}
          = {t \in Thread \ dead : k.stat[t] = "CLOSE"} \cup {T}
    BY <1>1, <1>5, <1>13
  <2> QED BY <1>3, <1>12, <1>13, <2>1 DEF LifeInv, NoneForgotten
<1> QED BY <1>7, <1>8, <1>9, <1>10, <1>11, <1>14, <1>15 DEF LifeInv

(* ... from there into the defunct list ...                                 *)
LEMMA EnqueueStep ==
  ASSUME LifeInv, Enqueue
  PROVE  LifeInv'
<1> DEFINE T == frame[on].curr
<1>1. /\ InThread /\ frame[on].pc = "enqueue" /\ on = k.cur /\ on \in Thread
      /\ Target = T /\ T \in Thread /\ KernelOK(k)
  BY LifeThread, LifeTypes DEF Enqueue, LifePc, Target
<1>2. /\ k.nest > 0 /\ T # Idle /\ k.nest <= NestMax + 1
      /\ \A u \in Thread \ {on} : frame[u].pc \notin LockPc
  BY <1>1, LifeTypes DEF LifeInv, CallsOK, LockPc
<1>3. /\ defunct' = Cons(T, defunct) /\ UNCHANGED <<k, on, sw, dead>>
      /\ SetFrame([pc |-> "leave", curr |-> T])
  BY <1>1 DEF Enqueue, GotoFor
<1>4. /\ Closing = {T}
      /\ defunct \in Seq(Thread) /\ IsInjective(defunct) /\ T \notin ToSet(defunct) \cup Reaping
  <2>1. Closing = {T}
    BY <1>1, Hands DEF LifeInv, InHands
  <2> QED BY <2>1 DEF LifeInv, LifeShape, NoneForgotten
<1>5. frame[k.cur].curr = T
  BY <1>1
<1> HIDE DEF T
<1>6. /\ defunct' \in Seq(Thread) /\ IsInjective(defunct')
      /\ ToSet(defunct') = ToSet(defunct) \cup {T}
  BY <1>1, <1>3, <1>4, ConsNew
<1>7. sw' \in SwitchRec /\ ContextOK' /\ PinnedOK'
  BY <1>1, <1>3, SameSwitch
<1>8. /\ Safe(Pc \cup LifePc, NestMax + 1)' /\ HandlersOK'
      /\ frame'[on].pc = "leave" /\ frame'[on].curr = T
      /\ \A u \in Thread \ {on} : frame'[u] = frame[u]
  BY <1>1, <1>2, <1>3, <1>7, LifeSafe DEF LifePc
<1>9. LifeShape'
  BY <1>3, <1>6 DEF LifeInv, LifeShape
<1>10. CallsOK'
  <2>1. \A u \in Thread \ {on} : frame'[u] = frame[u] /\ frame'[u].pc \notin LockPc
    BY <1>2, <1>8
  <2> QED BY <1>2, <1>3, <1>6, <1>8, <2>1 DEF LifeInv, CallsOK, LockPc
<1>11. NestOK'
  BY <1>3, <1>8 DEF NestOK, LockPc
<1>12. DyingOK'
  BY <1>1, <1>3, <1>5, <1>8 DEF LifeInv, DyingOK, LastSteps
<1>13. Closing' = {} /\ Reaping' = Reaping
  <2>1. frame'[Idle].pc = "reap" <=> frame[Idle].pc = "reap"
    BY <1>1, <1>8, SchedulerAssumption
  <2>2. frame'[Idle].pc = "reap" => frame'[Idle] = frame[Idle]
    BY <1>1, <1>8, SchedulerAssumption
  <2> QED BY <1>1, <1>3, <1>8, <1>10, <2>1, <2>2, Hands, HandsPrimed DEF LifeInv, InHands
<1>14. OffCPU'
  BY <1>3, <1>13 DEF LifeInv, OffCPU, Freed
<1>15. NoneForgotten' /\ (Closing \cap Reaping = {})'
  BY <1>3, <1>4, <1>6, <1>13 DEF LifeInv, NoneForgotten
<1> QED BY <1>8, <1>9, <1>10, <1>11, <1>12, <1>14, <1>15 DEF LifeInv

(* ... and the scheduler is unlocked again; a thread that closed itself     *)
(* goes on to its last rt_schedule.                                         *)
LEMMA LeaveStep ==
  ASSUME LifeInv, Leave
  PROVE  LifeInv'
<1> DEFINE T == frame[on].curr
           n == k.nest - 1
           pc == CASE T = on -> "left"
                   [] T # on /\ k.nest <= 1 -> "exit"
                   [] OTHER -> "run"
           c == on
<1>1. /\ InThread /\ frame[on].pc = "leave" /\ on = k.cur /\ on \in Thread
      /\ Target = T /\ T \in Thread /\ k \in KState /\ k.flag \in BOOLEAN /\ k.nest \in Nat
      /\ NestMax \in Nat
  BY LifeThread, LifeTypes DEF Leave, LifePc, Target, KState
<1>2. /\ k.nest > 0 /\ k.nest <= NestMax + 1 /\ T # Idle /\ T \in ToSet(defunct)
      /\ \A u \in Thread \ {on} : frame[u].pc \notin LockPc
  BY <1>1, LifeTypes DEF LifeInv, CallsOK, LockPc
<1>3. /\ k' = [k EXCEPT !.nest = n, !.flag = k.flag] /\ UNCHANGED <<on, sw, defunct, dead>>
  BY <1>1, <1>2 DEF Leave, KState
<1>4. SetFrame([pc |-> pc, curr |-> on])
  BY <1>1 DEF Leave, Goto, GotoFor
<1>5. pc \in {"left", "exit", "run"} /\ (pc = "left" <=> T = on)
  OBVIOUS
<1>6. frame[k.cur].curr = T
  BY <1>1
<1>7. n \in Nat /\ n <= NestMax /\ n <= NestMax + 1 /\ (k.nest = 1 => n = 0)
  BY <1>1, <1>2
<1> HIDE DEF T, n, pc
<1>8. KernelOK(k') /\ k'.cur = k.cur /\ k'.nest = n /\ k'.stat = k.stat
  BY <1>1, <1>3, <1>7, CriticalState DEF LifeInv
<1>9. sw' \in SwitchRec /\ ContextOK' /\ PinnedOK'
  BY <1>1, <1>3, <1>8, SameSwitch
<1>10. /\ Safe(Pc \cup LifePc, NestMax + 1)' /\ HandlersOK'
       /\ frame'[on].pc = pc /\ frame'[on].curr = on
       /\ \A u \in Thread \ {on} : frame'[u] = frame[u]
  <2>1. pc \in (Pc \cup LifePc) \ {"sched"}
    BY <1>5 DEF Pc, LifePc
  <2> QED BY <1>1, <1>3, <1>4, <1>7, <1>8, <1>9, <2>1, LifeSafe
<1>11. LifeShape'
  BY <1>3, <1>8 DEF LifeInv, LifeShape, Runnable
<1>12. CallsOK'
  <2>1. \A u \in Thread \ {on} : frame'[u] = frame[u] /\ frame'[u].pc \notin LockPc
    BY <1>2, <1>10
  <2>2. frame'[on].pc \notin LockPc \cup {"tick", "reap"}
    BY <1>5, <1>10 DEF LockPc
  <2> QED BY <1>10, <2>1, <2>2 DEF LifeInv, CallsOK, LockPc
<1>13. NestOK'
  BY <1>1, <1>7, <1>8 DEF NestOK
<1>14. DyingOK'
  <2> SUFFICES ASSUME k.stat[k.cur] = "CLOSE" PROVE DyingOK'
    BY <1>8 DEF DyingOK
  <2>1. T = on /\ k.nest = 1
    BY <1>1, <1>6 DEF LifeInv, DyingOK, LastSteps
  <2> QED BY <1>1, <1>5, <1>7, <1>8, <1>10, <2>1 DEF DyingOK, LastSteps
<1>15. Closing' = Closing /\ Reaping' = Reaping /\ Freed' = Freed
  <2>1. \A u \in Thread :
           \/ frame'[u] = frame[u]
           \/ /\ frame[u].pc \notin {"enqueue", "reap"}
              /\ frame'[u].pc \notin {"enqueue", "reap"}
    BY <1>1, <1>5, <1>10
  <2> QED BY <2>1, <1>3, SameCalls DEF Freed
<1>16. OffCPU' /\ NoneForgotten' /\ (Closing \cap Reaping = {})'
  BY <1>3, <1>8, <1>15 DEF LifeInv, OffCPU, NoneForgotten
<1> QED BY <1>10, <1>11, <1>12, <1>13, <1>14, <1>16 DEF LifeInv

(* A closed thread that has left the lock reschedules, whether the flag was *)
(* set or not.                                                              *)
LEMMA LeftStep ==
  ASSUME LifeInv, Left
  PROVE  LifeInv'
<1> DEFINE pc == IF k.flag THEN "clear" ELSE "resched"
<1>1. /\ InThread /\ frame[on].pc = "left" /\ on = k.cur /\ on \in Thread
      /\ KernelOK(k) /\ k.nest <= NestMax + 1
  BY LifeThread, LifeTypes DEF Left, LifePc
<1>2. UNCHANGED <<k, on, sw, defunct, dead>> /\ SetFrame([pc |-> pc, curr |-> on])
  BY DEF Left, Goto
<1>3. pc \in {"clear", "resched"}
  OBVIOUS
<1> HIDE DEF pc
<1>4. sw' \in SwitchRec /\ ContextOK' /\ PinnedOK'
  BY <1>1, <1>2, SameSwitch
<1>5. /\ Safe(Pc \cup LifePc, NestMax + 1)' /\ HandlersOK'
      /\ frame'[on].pc = pc
      /\ \A u \in Thread \ {on} : frame'[u] = frame[u]
  <2>1. pc \in (Pc \cup LifePc) \ {"sched"}
    BY <1>3 DEF Pc, LifePc
  <2> QED BY <1>1, <1>2, <1>4, <2>1, LifeSafe
<1>6. CallsOK'
  <2>1. frame'[on].pc \notin LockPc \cup {"tick", "reap", "left"}
    BY <1>3, <1>5 DEF LockPc
  <2> QED BY <1>2, <1>5, <2>1 DEF LifeInv, CallsOK, LockPc
<1>7. NestOK'
  BY <1>1, <1>2 DEF LifeInv, NestOK, LockPc
<1>8. DyingOK'
  BY <1>1, <1>2, <1>3, <1>5 DEF LifeInv, DyingOK, LastSteps
<1>9. Closing' = Closing /\ Reaping' = Reaping /\ Freed' = Freed
  <2>1. \A u \in Thread :
           \/ frame'[u] = frame[u]
           \/ /\ frame[u].pc \notin {"enqueue", "reap"}
              /\ frame'[u].pc \notin {"enqueue", "reap"}
    BY <1>1, <1>3, <1>5
  <2> QED BY <2>1, <1>2, SameCalls DEF Freed
<1>10. LifeShape' /\ OffCPU' /\ NoneForgotten' /\ (Closing \cap Reaping = {})'
  BY <1>2, <1>9 DEF LifeInv, LifeShape, OffCPU, NoneForgotten
<1> QED BY <1>5, <1>6, <1>7, <1>8, <1>10 DEF LifeInv

-----------------------------------------------------------------------------
(* The steps of the idle thread that frees threads, and the creation. *)

(* Leaving a spin lock serves a pending switch, or changes nothing.         *)
LEMMA UnlockKeeps ==
  ASSUME LifeInv, InThread, NEW k1, KernelOK(k1), k1.cur = k.cur, k1.nest = k.nest,
         Runnable(k1, Idle), Unlock(k1), UNCHANGED on
  PROVE  /\ KernelOK(k') /\ k'.nest = k.nest
         /\ sw' \in SwitchRec /\ ContextOK' /\ PinnedOK'
         /\ SameClosed(k1, k') /\ Runnable(k', Idle)
         /\ k'.cur = k.cur \/ k'.stat[k'.cur] = "RUNNING"
<1>1. CASE k1.nest = 0 /\ k1.flag
  <2> DEFINE k2 == [k1 EXCEPT !.flag = FALSE]
  <2>1. Reschedule(k2, k.cur)
    BY <1>1 DEF Unlock
  <2>2. k2 \in KState
    BY DEF KernelOK, KState
  <2>3. KernelOK(k2) /\ k2.cur = k.cur /\ k2.nest = k.nest /\ k2.stat = k1.stat
    BY <2>2, SameQueue DEF KernelOK, KState
  <2> HIDE DEF k2
  <2>4. /\ KernelOK(k') /\ k'.nest = k.nest
        /\ sw' \in SwitchRec /\ ContextOK' /\ PinnedOK'
        /\ \A t \in Thread : Runnable(k', t) <=> Runnable(k2, t)
        /\ SameClosed(k2, k')
        /\ (k.nest = 0 /\ \E t \in Thread : Runnable(k2, t)) => HighestCurrent(k')
    BY <2>1, <2>3, RescheduleKeeps DEF LifeInv
  <2>5. Runnable(k2, Idle)
    BY <2>3 DEF Runnable
  <2> QED BY <1>1, <2>3, <2>4, <2>5, SchedulerAssumption DEF SameClosed, HighestCurrent
<1>2. CASE ~ (k1.nest = 0 /\ k1.flag)
  <2>1. k' = k1 /\ UNCHANGED sw
    BY <1>2 DEF Unlock
  <2>2. sw' \in SwitchRec /\ ContextOK' /\ PinnedOK'
    BY <2>1, SameSwitch
  <2> QED BY <2>1, <2>2 DEF SameClosed
<1> QED BY <1>1, <1>2

(* The idle thread takes a closed thread, never itself, out of the defunct  *)
(* list ...                                                                 *)
LEMMA ReapStep ==
  ASSUME LifeInv, Reap
  PROVE  LifeInv'
<1> DEFINE T == Head(defunct)
<1>1. /\ InThread /\ frame[on].pc = "run" /\ on = Idle /\ on = k.cur /\ on \in Thread
      /\ KernelOK(k) /\ k.nest <= NestMax + 1 /\ k.nest <= NestMax
      /\ \A t \in Thread : frame[t].pc \notin LockPc
      /\ Closing = {}
  BY OwnThread, LifeTypes DEF Reap
<1>2. /\ defunct' = Tail(defunct) /\ defunct # <<>> /\ Unlock(k)
      /\ SetFrame([pc |-> "reap", curr |-> T]) /\ UNCHANGED <<on, dead>>
  BY DEF Reap, GotoFor
<1>3. Runnable(k, Idle) /\ defunct \in Seq(Thread) /\ IsInjective(defunct)
  BY DEF LifeInv, LifeShape, NoneForgotten
<1> HIDE DEF T
<1>4. /\ T \in ToSet(defunct) /\ T \in Thread
      /\ defunct' \in Seq(Thread) /\ IsInjective(defunct')
      /\ ToSet(defunct') = ToSet(defunct) \ {T}
  <2>1. ToSet(defunct) \subseteq Thread
    BY <1>3, EmptyList
  <2> QED BY <1>2, <1>3, <2>1, TailProperties DEF T
<1>5. T \notin dead /\ k.stat[T] = "CLOSE" /\ T # Idle
  BY <1>3, <1>4 DEF LifeInv, NoneForgotten, Runnable
<1>6. /\ KernelOK(k') /\ k'.nest = k.nest
      /\ sw' \in SwitchRec /\ ContextOK' /\ PinnedOK'
      /\ SameClosed(k, k') /\ Runnable(k', Idle)
      /\ k'.cur = k.cur \/ k'.stat[k'.cur] = "RUNNING"
  BY <1>1, <1>2, <1>3, UnlockKeeps
<1>7. /\ Safe(Pc \cup LifePc, NestMax + 1)' /\ HandlersOK'
      /\ frame'[on].pc = "reap" /\ frame'[on].curr = T
      /\ \A u \in Thread \ {on} : frame'[u] = frame[u]
  BY <1>1, <1>2, <1>4, <1>6, LifeSafe DEF LifePc
<1>8. \A t \in Thread : k'.stat[t] = "CLOSE" <=> k.stat[t] = "CLOSE"
  BY <1>6 DEF SameClosed
<1>9. LifeShape'
  BY <1>2, <1>4, <1>6, <1>8 DEF LifeInv, LifeShape
<1>10. \A t \in Thread : frame'[t].pc \notin LockPc
  BY <1>1, <1>7 DEF LockPc
<1>11. CallsOK'
  BY <1>1, <1>7, <1>10 DEF LifeInv, CallsOK, LockPc
<1>12. NestOK'
  BY <1>1, <1>6, LifeTypes DEF NestOK
<1>13. DyingOK'
  BY <1>1, <1>6 DEF DyingOK, Runnable
<1>14. Closing' = {} /\ Reaping = {} /\ Reaping' = {T}
  BY <1>1, <1>2, <1>7, <1>11, Hands, HandsPrimed DEF LifeInv, InHands
<1>15. OffCPU'
  <2>1. Freed' = Freed \cup {T} /\ \A t \in Freed' : t \in Thread /\ k'.stat[t] = "CLOSE"
    BY <1>2, <1>4, <1>5, <1>8, <1>14, FreedClosed DEF Freed
  <2>2. Idle \notin Freed'
    BY <1>6, <2>1 DEF Runnable
  <2> QED BY <1>1, <1>2, <1>6, <2>1, <2>2 DEF OffCPU
<1>16. NoneForgotten' /\ (Closing \cap Reaping = {})'
  <2>1. {t \in Thread \ dead : k'.stat[t] = "CLOSE"} = {t \in Thread \ dead : k.stat[t] = "CLOSE"}
    BY <1>8
  <2> QED BY <1>1, <1>2, <1>4, <1>14, <2>1 DEF LifeInv, NoneForgotten
<1> QED BY <1>7, <1>9, <1>11, <1>12, <1>13, <1>15, <1>16 DEF LifeInv

(* What a freed thread is initialised with is not in the ready queue.       *)
LEMMA FreshKeeps ==
  ASSUME KernelOK(k), NEW t \in Thread, k.stat[t] = "CLOSE"
  PROVE  LET r == Fresh(t)
         IN  /\ KernelOK(r) /\ r.cur = k.cur /\ r.nest = k.nest /\ r.stat = k.stat
<1> DEFINE r == Fresh(t)
<1>1. k \in KState /\ QueueOK(k) /\ CurrentOK(k)
  BY DEF KernelOK
<1>2. r \in KState
  <2>1. InitTick \in 1 .. InitTick /\ InitPrio[t] \in Prio
    BY KernelAssumption DEF Prio
  <2> QED BY <1>1, <2>1 DEF Fresh, KState
<1>3. /\ r.cur = k.cur /\ r.nest = k.nest /\ r.stat = k.stat
      /\ r.list = k.list /\ r.group = k.group
      /\ r.mask = [k.mask EXCEPT ![t] = {}]
      /\ r.cprio = [k.cprio EXCEPT ![t] = InitPrio[t]]
  BY <1>1 DEF Fresh, KState
<1> HIDE DEF r
<1>4. \A u \in Thread \ {t} : r.mask[u] = k.mask[u] /\ r.cprio[u] = k.cprio[u]
  BY <1>1, <1>3 DEF KState
<1>5. MaskOK(r) /\ GroupOK(r) /\ CurrentOK(r)
  BY <1>1, <1>3, <1>4 DEF QueueOK, MaskOK, GroupOK, CurrentOK
<1>6. ListOK(r)
  <2>1. \A u \in Thread, p \in Prio :
          r.stat[u] = "READY" /\ r.cprio[u] = p <=> k.stat[u] = "READY" /\ k.cprio[u] = p
    BY <1>3, <1>4
  <2> QED BY <1>1, <1>3, <2>1 DEF QueueOK, ListOK
<1> QED BY <1>2, <1>3, <1>5, <1>6 DEF KernelOK, QueueOK, r

(* ... and frees it, when neither a list nor a call knows it any more.      *)
LEMMA FreeThreadStep ==
  ASSUME LifeInv, FreeThread
  PROVE  LifeInv'
<1> DEFINE T == frame[on].curr
           k1 == Fresh(T)
<1>1. /\ InThread /\ frame[on].pc = "reap" /\ on = k.cur /\ on \in Thread
      /\ Target = T /\ T \in Thread /\ KernelOK(k) /\ k.nest <= NestMax + 1
  BY LifeThread, LifeTypes DEF FreeThread, LifePc, Target
<1>2. dead' = dead \cup {T} /\ Unlock(k1) /\ SetFrame([pc |-> "run", curr |-> on])
      /\ UNCHANGED <<on, defunct>>
  BY <1>1 DEF FreeThread, Goto
<1>3. on = Idle /\ Reaping = {T} /\ Closing = {}
  <2>1. on = Idle
    BY <1>1 DEF LifeInv, CallsOK
  <2> QED BY <1>1, <2>1, Hands DEF LifeInv, InHands
<1> HIDE DEF T
<1>4. /\ T \notin ToSet(defunct) \cup Closing \cup dead /\ k.stat[T] = "CLOSE"
      /\ Runnable(k, Idle) /\ T # Idle
  BY <1>3 DEF LifeInv, NoneForgotten, LifeShape, Runnable
<1>5. KernelOK(k1) /\ k1.cur = k.cur /\ k1.nest = k.nest /\ k1.stat = k.stat
  BY <1>1, <1>4, FreshKeeps
<1> HIDE DEF k1
<1>6. /\ KernelOK(k') /\ k'.nest = k.nest
      /\ sw' \in SwitchRec /\ ContextOK' /\ PinnedOK'
      /\ SameClosed(k1, k') /\ Runnable(k', Idle)
      /\ k'.cur = k.cur \/ k'.stat[k'.cur] = "RUNNING"
  BY <1>1, <1>2, <1>4, <1>5, UnlockKeeps DEF Runnable
<1>7. \A t \in Thread : k'.stat[t] = "CLOSE" <=> k.stat[t] = "CLOSE"
  BY <1>5, <1>6 DEF SameClosed
<1>8. /\ Safe(Pc \cup LifePc, NestMax + 1)' /\ HandlersOK'
      /\ frame'[on].pc = "run"
      /\ \A u \in Thread \ {on} : frame'[u] = frame[u]
  BY <1>1, <1>2, <1>6, LifeSafe DEF Pc
<1>9. LifeShape'
  BY <1>1, <1>2, <1>4, <1>6, <1>7 DEF LifeInv, LifeShape
<1>10. \A t \in Thread : frame[t].pc \notin LockPc /\ frame'[t].pc \notin LockPc
  BY <1>1, <1>8 DEF LifeInv, CallsOK, LockPc
<1>11. CallsOK'
  BY <1>1, <1>8, <1>10 DEF LifeInv, CallsOK, LockPc
<1>12. NestOK'
  BY <1>1, <1>6, <1>10 DEF LifeInv, NestOK
<1>13. DyingOK'
  BY <1>1, <1>3, <1>6 DEF DyingOK, Runnable
<1>14. Closing' = {} /\ Reaping' = {} /\ Freed' = Freed
  <2>1. Closing' = {} /\ Reaping' = {}
    BY <1>1, <1>2, <1>3, <1>8, <1>11, HandsPrimed DEF InHands
  <2> QED BY <1>2, <1>3, <2>1 DEF Freed
<1>15. OffCPU'
  <2>1. \A t \in Freed : t \in Thread /\ k'.stat[t] = "CLOSE"
    BY <1>7, FreedClosed
  <2> QED BY <1>2, <1>6, <1>14, <2>1 DEF LifeInv, OffCPU
<1>16. NoneForgotten' /\ (Closing \cap Reaping = {})'
  <2>1. {t \in Thread \ dead' : k'.stat[t] = "CLOSE"}
          = {t \in Thread \ dead : k.stat[t] = "CLOSE"} \ {T}
    BY <1>2, <1>7
  <2> QED BY <1>2, <1>3, <1>4, <1>14, <2>1 DEF LifeInv, NoneForgotten
<1> QED BY <1>8, <1>9, <1>11, <1>12, <1>13, <1>15, <1>16 DEF LifeInv

(* A thread that is created again starts in no list, with a frame of its    *)
(* own.                                                                     *)
LEMMA CreateStep ==
  ASSUME LifeInv, NEW t \in Thread, Create(t)
  PROVE  LifeInv'
<1> DEFINE k0 == Fresh(t)
           k1 == [k0 EXCEPT !.stat[t] = "INIT"]
           f == [pc |-> "run", curr |-> t]
<1>1. /\ InThread /\ frame[on].pc = "run" /\ on = k.cur /\ on \in Thread
      /\ k.stat[on] # "CLOSE" /\ KernelOK(k) /\ k \in KState /\ k.nest <= NestMax
      /\ k.nest <= NestMax + 1 /\ NestMax \in Nat /\ IsrMax \in Nat
      /\ isr = <<>> /\ frame \in [Thread -> LifeFrame]
      /\ \A u \in Thread : frame[u].pc \notin LockPc
      /\ Closing = {}
  BY OwnThread, LifeTypes, SchedulerAssumption DEF Create
<1>2. /\ dead' = dead \ {t} /\ t \in dead /\ Unlock(k1)
      /\ frame' = [frame EXCEPT ![t] = f] /\ UNCHANGED <<on, isr, defunct>>
  BY DEF Create
<1>3. k.stat[t] = "CLOSE" /\ Runnable(k, Idle) /\ t # Idle /\ t # on
  BY <1>1, <1>2 DEF LifeInv, LifeShape, Runnable
<1>4. KernelOK(k0) /\ k0.cur = k.cur /\ k0.nest = k.nest /\ k0.stat = k.stat
  BY <1>1, <1>3, FreshKeeps
<1> HIDE DEF k0
<1>5. /\ k1 \in KState /\ k1.cur = k.cur /\ k1.nest = k.nest
      /\ k1.stat = [k.stat EXCEPT ![t] = "INIT"]
      /\ k1.mask = k0.mask /\ k1.cprio = k0.cprio /\ k1.list = k0.list /\ k1.group = k0.group
  BY <1>4, SetStatType DEF KernelOK, KState, Stat
<1> HIDE DEF k1
<1>6. \A u \in Thread : k1.stat[u] = IF u = t THEN "INIT" ELSE k.stat[u]
  BY <1>1, <1>5 DEF KState
<1>7. KernelOK(k1)
  <2>1. MaskOK(k1) /\ GroupOK(k1)
    BY <1>4, <1>5, <1>6 DEF KernelOK, QueueOK, MaskOK, GroupOK
  <2>2. ListOK(k1)
    <3>1. \A u \in Thread : k1.stat[u] = "READY" <=> k0.stat[u] = "READY"
      BY <1>3, <1>4, <1>6
    <3> QED BY <1>4, <1>5, <3>1 DEF KernelOK, QueueOK, ListOK
  <2>3. CurrentOK(k1)
    BY <1>1, <1>3, <1>4, <1>5, <1>6 DEF KernelOK, CurrentOK
  <2> QED BY <1>5, <2>1, <2>2, <2>3 DEF KernelOK, QueueOK
<1>8. Runnable(k1, Idle)
  BY <1>3, <1>6, SchedulerAssumption DEF Runnable
<1>9. /\ KernelOK(k') /\ k'.nest = k.nest
      /\ sw' \in SwitchRec /\ ContextOK' /\ PinnedOK'
      /\ SameClosed(k1, k') /\ Runnable(k', Idle)
      /\ k'.cur = k.cur \/ k'.stat[k'.cur] = "RUNNING"
  BY <1>1, <1>2, <1>5, <1>7, <1>8, UnlockKeeps
<1>10. \A u \in Thread : k'.stat[u] = "CLOSE" <=> u # t /\ k.stat[u] = "CLOSE"
  BY <1>6, <1>9 DEF SameClosed
<1>11. frame'[t] = f /\ \A u \in Thread \ {t} : frame'[u] = frame[u]
  BY <1>1, <1>2
<1>12. Safe(Pc \cup LifePc, NestMax + 1)'
  <2> DEFINE P == Pc \cup LifePc
  <2>1. Safe(P, NestMax + 1)
    BY DEF LifeInv
  <2>2. f \in FrameOf(P)
    BY DEF FrameOf, Pc
  <2>3. frame' \in [Thread -> FrameOf(P)]
    BY <1>1, <1>2, <2>2 DEF LifeFrame, FrameOf
  <2>4. FramesOK'
    BY <1>1, <1>2, <1>11, <2>1 DEF Safe, FramesOK
  <2>5. on' \in Thread /\ isr' \in Seq(Frame) /\ Len(isr') <= IsrMax /\ k'.nest <= NestMax + 1
    BY <1>1, <1>2, <1>9
  <2> HIDE DEF P
  <2>6. Safe(P, NestMax + 1)'
    BY <1>9, <2>1, <2>3, <2>4, <2>5, SafeParts
  <2> QED BY <2>6 DEF P
<1>13. HandlersOK'
  BY <1>1, <1>2 DEF HandlersOK
<1>14. LifeShape'
  BY <1>2, <1>9, <1>10 DEF LifeInv, LifeShape
<1>15. \A u \in Thread : frame'[u].pc \notin LockPc
  BY <1>1, <1>11 DEF LockPc
<1>16. CallsOK'
  BY <1>11, <1>15 DEF LifeInv, CallsOK, LockPc
<1>17. NestOK'
  BY <1>1, <1>9, LifeTypes DEF NestOK
<1>18. DyingOK'
  BY <1>1, <1>9, <1>10 DEF DyingOK
<1>19. Closing' = {} /\ Reaping' = Reaping
  BY <1>1, <1>2, <1>3, <1>11, <1>15, <1>16, Hands, HandsPrimed, SchedulerAssumption
     DEF LifeInv, InHands, LockPc
<1>20. t \notin Reaping
  BY <1>2 DEF LifeInv, NoneForgotten
<1>21. OffCPU'
  <2>1. Freed' = Freed \ {t}
    BY <1>2, <1>19, <1>20 DEF Freed
  <2>2. \A u \in Freed' : u \in Thread /\ k'.stat[u] = "CLOSE"
    BY <1>10, <2>1, FreedClosed
  <2> QED BY <1>2, <1>9, <2>1, <2>2 DEF LifeInv, OffCPU
<1>22. NoneForgotten' /\ (Closing \cap Reaping = {})'
  <2>1. {u \in Thread \ dead' : k'.stat[u] = "CLOSE"}
          = {u \in Thread \ dead : k.stat[u] = "CLOSE"}
    BY <1>2, <1>10
  <2> QED BY <1>1, <1>2, <1>19, <2>1 DEF LifeInv, NoneForgotten
<1> QED BY <1>12, <1>13, <1>14, <1>16, <1>17, <1>18, <1>21, <1>22 DEF LifeInv

-----------------------------------------------------------------------------
(* At the start nobody has died.                                            *)
LEMMA LifeInitInv == LifeInit => LifeInv
<1> SUFFICES ASSUME LifeInit PROVE LifeInv
  OBVIOUS
<1>1. /\ Inv /\ Served /\ NestMax \in Nat /\ Pc \subseteq Pc \cup LifePc
      /\ k.nest = 0 /\ isr = <<>> /\ frame = [t \in Thread |-> [pc |-> "run", curr |-> t]]
      /\ defunct = <<>> /\ dead = {} /\ on \in Thread /\ k.cur \in Thread
      /\ \A t \in Thread : k.stat[t] # "CLOSE"
  BY InitInv, SchedulerAssumption DEF LifeInit, Init
<1>2. Safe(Pc, NestMax)
  BY <1>1, InvSafe
<1>3. Safe(Pc \cup LifePc, NestMax + 1)
  BY <1>1, <1>2 DEF Safe, Shape, FrameOf
<1>4. \A t \in Thread : frame[t].pc = "run"
  BY <1>1
<1>5. LifeShape
  BY <1>1 DEF LifeShape, Served
<1>6. CallsOK /\ NestOK /\ DyingOK /\ HandlersOK
  BY <1>1, <1>4 DEF CallsOK, NestOK, DyingOK, HandlersOK, LockPc
<1>7. Closing = {} /\ Reaping = {} /\ ToSet(defunct) = {} /\ IsInjective(defunct)
  BY <1>1, <1>4 DEF Closing, Reaping, ToSet, IsInjective
<1>8. NoneForgotten /\ OffCPU /\ Closing \cap Reaping = {}
  BY <1>1, <1>7 DEF NoneForgotten, OffCPU, Freed
<1> QED BY <1>3, <1>5, <1>6, <1>8 DEF LifeInv

(* Every step keeps the invariant.                                          *)
LEMMA LifeStep ==
  ASSUME IsrMax <= 1, LifeInv, [LifeNext]_lifeVars
  PROVE  LifeInv'
<1>1. CASE UNCHANGED lifeVars
  <2>1. Safe(Pc \cup LifePc, NestMax + 1)'
    BY <1>1 DEF lifeVars, LifeInv, Safe, Shape, ReadyQueueOK, ContextOK, FramesOK, PinnedOK
  <2>2. LifeShape' /\ CallsOK' /\ NestOK' /\ DyingOK' /\ HandlersOK'
    BY <1>1 DEF lifeVars, LifeInv, LifeShape, CallsOK, NestOK, DyingOK, HandlersOK
  <2>3. Closing' = Closing /\ Reaping' = Reaping
    BY <1>1, SameCalls DEF lifeVars
  <2>4. OffCPU' /\ NoneForgotten' /\ (Closing \cap Reaping = {})'
    BY <1>1, <2>3 DEF lifeVars, LifeInv, OffCPU, NoneForgotten, Freed
  <2> QED BY <2>1, <2>2, <2>4 DEF LifeInv
<1>2. CASE Exit
  <2>1. Own /\ on # Idle /\ k.nest = 0 /\ Dies(on)
    BY <1>2 DEF Exit
  <2>2. on \in Thread /\ k.stat[on] # "CLOSE"
    BY <2>1, OwnThread
  <2> QED BY <2>1, <2>2, DiesStep
<1>3. ASSUME NEW t \in Thread, Delete(t) PROVE LifeInv'
  BY <1>3, DiesStep DEF Delete
<1>4. CASE \/ KernelNext \/ \E t \in Thread, p \in Prio : Prioritise(t, p)
           /\ UNCHANGED <<defunct, dead>>
  BY <1>4, KernelLife DEF Prioritise
<1> QED
  BY <1>1, <1>2, <1>3, <1>4, CloseStep, EnqueueStep, LeaveStep, LeftStep, ReapStep,
     FreeThreadStep, CreateStep DEF LifeNext

(* A thread that is freed, or about to be, is in nobody's hands.            *)
LEMMA UnusedFreed == LifeInv => NoneUsedFreed
<1> SUFFICES ASSUME LifeInv, NEW t \in InUse, t \in Freed PROVE FALSE
  BY DEF NoneUsedFreed
<1>1. /\ k \in KState /\ on \in Thread /\ k.cur \in Thread /\ frame \in [Thread -> LifeFrame]
      /\ KernelOK(k) /\ k.stat[t] = "CLOSE" /\ t \in Thread
  BY LifeTypes, FreedClosed
<1>2. t # on /\ t # k.cur
  BY DEF LifeInv, OffCPU
<1>3. t \notin ToSet(defunct) \cup Closing
  BY DEF LifeInv, NoneForgotten, Freed
<1>4. CASE t \in {on, k.cur} \cup (IF sw.pend THEN {sw.from, sw.to} ELSE {})
  BY <1>2, <1>4 DEF LifeInv, Safe, ContextOK
<1>5. ASSUME NEW p \in Prio, t \in ToSet(k.list[p]) PROVE FALSE
  BY <1>1, <1>5 DEF KernelOK, QueueOK, ListOK
<1>6. ASSUME NEW i \in DOMAIN isr, Held(isr[i]), t = isr[i].curr PROVE FALSE
  <2>1. isr[i].pc \in {"sched", "tick"}
    BY <1>6 DEF LifeInv, Safe, FramesOK, Held
  <2>2. t = k.cur
    BY <1>6, <2>1 DEF LifeInv, Safe, FramesOK, HandlersOK
  <2> QED BY <1>2, <2>2
<1>7. ASSUME NEW u \in Thread \ Freed, Held(frame[u]), t = frame[u].curr PROVE FALSE
  <2>1. frame[u].pc \in {"sched", "close", "enqueue", "leave", "left"}
    BY <1>7 DEF Held, LifeInv, CallsOK
  <2>2. CASE frame[u].pc \in {"sched", "left"}
    <3>1. frame[u].curr = u
      BY <2>2 DEF LifeInv, Safe, FramesOK, CallsOK
    <3> QED BY <1>7, <3>1
  <2>3. CASE frame[u].pc = "close"
    BY <1>1, <1>7, <2>3 DEF LifeInv, CallsOK
  <2>4. CASE frame[u].pc = "enqueue"
    BY <1>3, <1>7, <2>4 DEF Closing
  <2>5. CASE frame[u].pc = "leave"
    BY <1>3, <1>7, <2>5 DEF LifeInv, CallsOK
  <2> QED BY <2>1, <2>2, <2>3, <2>4, <2>5
<1> QED BY <1>3, <1>4, <1>5, <1>6, <1>7 DEF InUse

(* The invariant holds in every reachable state.                            *)
LEMMA LifeAlways ==
  ASSUME IsrMax <= 1
  PROVE  LifeSpec => []LifeInv
  BY LifeInitInv, LifeStep, PTL DEF LifeSpec

(* The state of the threads' lives has its type.                            *)
THEOREM LifeTyped ==
  ASSUME IsrMax <= 1
  PROVE  LifeSpec => []LifeTypeOK
<1>1. LifeInv => LifeTypeOK
  BY LifeTypes DEF LifeInv, LifeShape, LifeTypeOK
<1> QED BY <1>1, LifeAlways, PTL

(* Threads that die, are freed and come back leave the ready queue in order *)
(* and the current thread running, suspended by itself or dying.            *)
THEOREM QueueSurvivesDeaths ==
  ASSUME IsrMax <= 1
  PROVE  LifeSpec => []QueueSurvives
<1>1. LifeInv => QueueSurvives
  BY LifeTypes DEF KernelOK, QueueSurvives
<1> QED BY <1>1, LifeAlways, PTL

(* No thread that has died is forgotten on its way through the defunct list *)
(* to the idle thread.                                                      *)
THEOREM DeadRemembered ==
  ASSUME IsrMax <= 1
  PROVE  LifeSpec => []NoneForgotten
<1>1. LifeInv => NoneForgotten
  BY DEF LifeInv
<1> QED BY <1>1, LifeAlways, PTL

(* No thread is freed while the CPU, PendSV, a list or a call uses it.      *)
THEOREM FreedUnused ==
  ASSUME IsrMax <= 1
  PROVE  LifeSpec => []NoneUsedFreed
  BY UnusedFreed, LifeAlways, PTL
=============================================================================
