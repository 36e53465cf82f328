---------------------------- MODULE KernelProofs ----------------------------
(***************************************************************************)
(* What the routines of module Kernel preserve, for any threads, any       *)
(* number of priorities and any slice: the type of the state, the ready    *)
(* queue (QueueOK) and the current thread (CurrentOK).                     *)
(***************************************************************************)
EXTENDS Kernel, QueueLemmas

KernelOK(k) == k \in KState /\ QueueOK(k) /\ CurrentOK(k)

(* None of the scheduler's own routines closes a thread or brings one back. *)
SameClosed(k, r) == \A t \in Thread : r.stat[t] = "CLOSE" <=> k.stat[t] = "CLOSE"

(* The ready bit the C code finds first is set and is the least.            *)
LEMMA HighestReadyLeast ==
  ASSUME NEW k \in KState, k.group # {}
  PROVE  /\ HighestReady(k) \in k.group
         /\ HighestReady(k) \in Prio
         /\ \A q \in k.group : HighestReady(k) <= q
<1>1. k.group \in SUBSET Prio
  BY DEF KState
<1>2. k.group \in SUBSET Nat
  BY <1>1, KernelAssumption DEF Prio
<1>3. \E p \in k.group : \A q \in k.group : p <= q
  BY <1>2, LeastPrio
<1> QED BY <1>1, <1>3 DEF HighestReady

(* The head of the first non-empty list is a READY thread of the highest    *)
(* priority any READY thread has.                                           *)
LEMMA HeadOfHighest ==
  ASSUME NEW k \in KState, QueueOK(k), k.group # {}
  PROVE  LET t == Head(k.list[HighestReady(k)])
         IN  t \in Thread /\ k.stat[t] = "READY" /\ k.cprio[t] = HighestReady(k)
<1> DEFINE p == HighestReady(k)
<1>1. p \in Prio /\ p \in k.group
  BY HighestReadyLeast
<1> HIDE DEF p
<1>2. k.list[p] \in Seq(Thread) /\ k.list[p] # <<>>
  BY <1>1 DEF KState, QueueOK, GroupOK
<1>3. Head(k.list[p]) \in ToSet(k.list[p])
  BY <1>2, EmptyList
<1>4. ToSet(k.list[p]) = {t \in Thread : k.stat[t] = "READY" /\ k.cprio[t] = p}
  BY <1>1 DEF QueueOK, ListOK
<1> QED BY <1>3, <1>4 DEF p

(* rt_sched_insert_thread of a thread other than the current one that is    *)
(* not in the queue.                                                        *)
LEMMA InsertKeeps ==
  ASSUME NEW k \in KState, QueueOK(k),
         NEW t \in Thread, t # k.cur, k.stat[t] # "READY", k.mask[t] = {k.cprio[t]}
  PROVE  LET r == InsertThread(k, t)
         IN  /\ r \in KState /\ QueueOK(r)
             /\ r.stat = [k.stat EXCEPT ![t] = "READY"]
             /\ r.cur = k.cur /\ r.nest = k.nest /\ r.cprio = k.cprio
<1> DEFINE r == InsertThread(k, t)
           p == k.cprio[t]
           l == IF k.yield[t] THEN Append(k.list[p], t) ELSE Cons(t, k.list[p])
<1>1. p \in Prio
  BY DEF KState
<1>2. /\ k.list[p] \in Seq(Thread)
      /\ IsInjective(k.list[p])
      /\ ToSet(k.list[p]) = {u \in Thread : k.stat[u] = "READY" /\ k.cprio[u] = p}
  BY <1>1 DEF KState, QueueOK, ListOK
<1>3. /\ l \in Seq(Thread) /\ IsInjective(l)
      /\ ToSet(l) = ToSet(k.list[p]) \cup {t}
  <2>1. t \notin ToSet(k.list[p])
    BY <1>2
  <2> QED BY <1>2, <2>1, AppendNew, ConsNew
<1>4. /\ r.cur = k.cur /\ r.nest = k.nest /\ r.cprio = k.cprio /\ r.mask = k.mask
      /\ r.yield = k.yield /\ r.iprio = k.iprio /\ r.slice = k.slice /\ r.flag = k.flag
      /\ r.stat = [k.stat EXCEPT ![t] = "READY"]
      /\ r.list = [k.list EXCEPT ![p] = l]
      /\ r.group = k.group \cup {p}
  BY DEF InsertThread, KState
<1>5. r \in KState
  <2> HIDE DEF l
  <2> QED BY <1>1, <1>3 DEF InsertThread, KState, Stat, l
<1> HIDE DEF r, l
<1>6. ListOK(r)
  BY <1>1, <1>2, <1>3, <1>4 DEF ListOK, QueueOK, KState
<1>7. GroupOK(r)
  <2>1. l # <<>>
    BY <1>3, EmptyList
  <2> QED BY <1>1, <1>4, <2>1 DEF GroupOK, QueueOK, KState
<1>8. MaskOK(r)
  BY <1>4 DEF MaskOK, QueueOK, KState
<1> QED BY <1>4, <1>5, <1>6, <1>7, <1>8 DEF QueueOK, r

(* rt_sched_remove_thread followed by a status that is not READY.           *)
LEMMA RemoveKeeps ==
  ASSUME NEW k \in KState, QueueOK(k),
         NEW t \in Thread, k.mask[t] = {k.cprio[t]}, NEW s \in Stat, s # "READY"
  PROVE  LET r == [RemoveThread(k, t) EXCEPT !.stat[t] = s]
         IN  /\ r \in KState /\ QueueOK(r)
             /\ r.stat = [k.stat EXCEPT ![t] = s]
             /\ r.cur = k.cur /\ r.nest = k.nest /\ r.cprio = k.cprio /\ r.mask = k.mask
<1> DEFINE l == [p \in Prio |-> RemoveFirst(k.list[p], t)]
           r == [RemoveThread(k, t) EXCEPT !.stat[t] = s]
           c == k.cprio[t]
<1>1. \A p \in Prio :
        /\ l[p] \in Seq(Thread) /\ IsInjective(l[p])
        /\ ToSet(l[p]) = {u \in Thread : k.stat[u] = "READY" /\ k.cprio[u] = p} \ {t}
  BY RemoveFirstProperties DEF KState, QueueOK, ListOK
<1>2. l \in [Prio -> Seq(Thread)]
  BY <1>1
<1> HIDE DEF l
<1>3. RemoveThread(k, t) =
        [k EXCEPT !.list = l, !.group = IF l[c] = <<>> THEN @ \ k.mask[t] ELSE @]
  BY DEF RemoveThread, l
<1>4. /\ r.cur = k.cur /\ r.nest = k.nest /\ r.cprio = k.cprio /\ r.mask = k.mask
      /\ r.stat = [k.stat EXCEPT ![t] = s]
      /\ r.list = l
      /\ r.group = IF l[c] = <<>> THEN k.group \ {c} ELSE k.group
  BY <1>3 DEF KState
<1>5. r \in KState
  BY ZenonT(40), <1>2, <1>3 DEF KState
<1> HIDE DEF r
<1>6. ListOK(r)
  BY <1>1, <1>4 DEF ListOK, KState
<1>7. GroupOK(r)
  <2> SUFFICES ASSUME NEW p \in Prio PROVE p \in r.group <=> l[p] # <<>>
    BY <1>4 DEF GroupOK
  <2>1. l[p] = <<>> <=> ToSet(l[p]) = {}
    BY <1>1, EmptyList
  <2>2. k.list[p] = <<>> <=> ToSet(k.list[p]) = {}
    <3>1. k.list[p] \in Seq(Thread)
      BY DEF KState
    <3> QED BY <3>1, EmptyList
  <2>3. p \in k.group <=> k.list[p] # <<>>
    BY DEF QueueOK, GroupOK
  <2>4. p # c => ToSet(l[p]) = ToSet(k.list[p])
    <3>1. ToSet(k.list[p]) = {u \in Thread : k.stat[u] = "READY" /\ k.cprio[u] = p}
      BY DEF QueueOK, ListOK
    <3>2. p # c => t \notin ToSet(k.list[p])
      BY <3>1
    <3>3. ToSet(l[p]) = ToSet(k.list[p]) \ {t}
      BY <1>1, <3>1
    <3> HIDE DEF c
    <3> QED BY <3>2, <3>3
  <2>5. ToSet(l[p]) \subseteq ToSet(k.list[p])
    BY <1>1 DEF QueueOK, ListOK
  <2>6. CASE p = c
    BY <2>1, <2>2, <2>3, <2>5, <2>6, <1>4
  <2>7. CASE p # c
    BY <2>1, <2>2, <2>3, <2>4, <2>7, <1>4
  <2> QED BY <2>6, <2>7
<1>8. MaskOK(r)
  BY <1>4 DEF MaskOK, QueueOK, KState
<1> QED BY <1>4, <1>5, <1>6, <1>7, <1>8 DEF QueueOK, r

(* The parts of the state the queue does not depend on.                     *)
LEMMA SameQueue ==
  ASSUME NEW k, KernelOK(k), NEW r \in KState,
         r.cur = k.cur, r.stat = k.stat, r.mask = k.mask, r.cprio = k.cprio,
         r.list = k.list, r.group = k.group
  PROVE  KernelOK(r)
  BY DEF KernelOK, QueueOK, MaskOK, ListOK, GroupOK, CurrentOK

(* A status byte that is replaced by a status leaves the state typed.       *)
LEMMA SetStatType ==
  ASSUME NEW k \in KState, NEW t \in Thread, NEW s \in Stat
  PROVE  [k EXCEPT !.stat[t] = s] \in KState
  BY DEF KState

-----------------------------------------------------------------------------
(* The routines the kernel's callers compose. *)

(* The priority of a READY thread has its group bit set.                    *)
LEMMA ReadyInGroup ==
  ASSUME NEW k \in KState, QueueOK(k), NEW t \in Thread, k.stat[t] = "READY"
  PROVE  k.cprio[t] \in k.group
<1> DEFINE p == k.cprio[t]
<1>1. p \in Prio
  BY DEF KState
<1>2. t \in ToSet(k.list[p]) /\ k.list[p] \in Seq(Thread)
  BY <1>1 DEF QueueOK, ListOK, KState
<1>3. k.list[p] # <<>>
  BY <1>2, EmptyList
<1> QED BY <1>1, <1>3 DEF QueueOK, GroupOK

(* The case of rt_schedule that switches threads.                           *)
LEMMA SwitchKeeps ==
  ASSUME NEW k, KernelOK(k), k.group # {}, ~ KeepsCurrent(k, k.cur)
  PROVE  LET to == ToThread(k, k.cur)
             r == SwitchThread(k, k.cur, to)
         IN  /\ to \in Thread /\ to # k.cur
             /\ k.stat[to] = "READY" /\ k.cprio[to] = HighestReady(k)
             /\ KernelOK(r) /\ r.cur = to /\ r.nest = k.nest /\ r.cprio = k.cprio
             /\ \A t \in Thread :
                  r.stat[t] = CASE t = to -> "RUNNING"
                                [] t = k.cur /\ k.stat[t] = "RUNNING" -> "READY"
                                [] OTHER -> k.stat[t]
<1> DEFINE c == k.cur
           to == ToThread(k, c)
           r == SwitchThread(k, c, to)
           k1 == [k EXCEPT !.cur = to]
           k2 == IF k.stat[c] = "RUNNING" THEN InsertThread(k1, c) ELSE k1
           k3 == [k2 EXCEPT !.yield[c] = FALSE]
<1>1. k \in KState /\ QueueOK(k) /\ CurrentOK(k) /\ c \in Thread
  BY DEF KernelOK, KState
<1>2. to = Head(k.list[HighestReady(k)])
  BY DEF ToThread
<1>3. to \in Thread /\ k.stat[to] = "READY" /\ k.cprio[to] = HighestReady(k)
  BY <1>1, <1>2, HeadOfHighest
<1>4. to # c
  BY <1>1, <1>3 DEF CurrentOK
<1> HIDE DEF to
<1>5. /\ k1 \in KState /\ QueueOK(k1)
      /\ k1.cur = to /\ k1.stat = k.stat /\ k1.nest = k.nest
      /\ k1.mask = k.mask /\ k1.cprio = k.cprio
  BY <1>1, <1>3 DEF KState, QueueOK, MaskOK, ListOK, GroupOK
<1>6. \A t \in Thread : k.stat[t] \notin {"INIT", "CLOSE"} => k.mask[t] = {k.cprio[t]}
  BY <1>1 DEF QueueOK, MaskOK
<1>7. /\ k2 \in KState /\ QueueOK(k2) /\ k2.cur = to /\ k2.nest = k.nest
      /\ k2.cprio = k.cprio
      /\ \A t \in Thread :
           k2.stat[t] = IF t = c /\ k.stat[c] = "RUNNING" THEN "READY" ELSE k.stat[t]
  <2>1. CASE k.stat[c] = "RUNNING"
    <3>1. k1.stat[c] # "READY" /\ k1.mask[c] = {k1.cprio[c]} /\ c # k1.cur
      BY <2>1, <1>1, <1>4, <1>5, <1>6
    <3>2. k2 = InsertThread(k1, c)
      BY <2>1
    <3> HIDE DEF k1, k2
    <3>3. /\ k2 \in KState /\ QueueOK(k2) /\ k2.cur = k1.cur /\ k2.nest = k1.nest
          /\ k2.stat = [k1.stat EXCEPT ![c] = "READY"] /\ k2.cprio = k1.cprio
      BY <1>1, <1>5, <3>1, <3>2, InsertKeeps
    <3>4. \A t \in Thread : k2.stat[t] = IF t = c THEN "READY" ELSE k.stat[t]
      <4>1. k.stat \in [Thread -> Stat]
        BY <1>1 DEF KState
      <4> QED BY <1>1, <1>5, <3>3, <4>1
    <3> QED BY <1>1, <2>1, <3>3, <3>4, <1>5
  <2>2. CASE k.stat[c] # "RUNNING"
    BY <2>2, <1>5
  <2> QED BY <2>1, <2>2
<1> HIDE DEF k1, k2
<1>8. /\ k3 \in KState /\ QueueOK(k3) /\ k3.cur = to /\ k3.nest = k.nest
      /\ k3.stat = k2.stat /\ k3.cprio = k.cprio
  BY <1>7 DEF KState, QueueOK, MaskOK, ListOK, GroupOK
<1>9. r = [RemoveThread(k3, to) EXCEPT !.stat[to] = "RUNNING"]
  BY DEF SwitchThread, k1, k2
<1> HIDE DEF k3, r
<1>10. k3.stat[to] = "READY"
  BY <1>3, <1>4, <1>7, <1>8
<1>11. k3.mask[to] = {k3.cprio[to]}
  BY <1>3, <1>8, <1>10 DEF QueueOK, MaskOK
<1>12. /\ r \in KState /\ QueueOK(r) /\ r.cur = to /\ r.nest = k.nest
       /\ r.stat = [k3.stat EXCEPT ![to] = "RUNNING"] /\ r.cprio = k.cprio
  BY <1>3, <1>8, <1>9, <1>11, RemoveKeeps DEF Stat
<1>13. \A t \in Thread :
         r.stat[t] = CASE t = to -> "RUNNING"
                       [] t = c /\ k.stat[t] = "RUNNING" -> "READY"
                       [] OTHER -> k.stat[t]
  <2>1. k3.stat \in [Thread -> Stat]
    BY <1>8 DEF KState
  <2>2. \A t \in Thread : r.stat[t] = IF t = to THEN "RUNNING" ELSE k2.stat[t]
    BY <1>3, <1>8, <1>12, <2>1
  <2> QED BY <1>4, <1>7, <2>2
<1>14. CurrentOK(r)
  <2>1. \A t \in Thread : k.stat[t] = "RUNNING" => t = c
    BY <1>1 DEF CurrentOK
  <2> QED BY <1>3, <1>12, <1>13, <2>1 DEF CurrentOK
<1> QED BY <1>3, <1>4, <1>12, <1>13, <1>14 DEF KernelOK, r, to

(* rt_schedule called with the thread that is current when interrupts are   *)
(* disabled.  It serves the request: unless the scheduler is locked, which  *)
(* leaves the flag set, the current thread is then the highest.             *)
LEMMA ScheduleKeeps ==
  ASSUME NEW k, KernelOK(k)
  PROVE  LET r == Schedule(k, k.cur)
         IN  /\ KernelOK(r)
             /\ r.nest = k.nest
             /\ r.cur = IF Switches(k, k.cur) THEN ToThread(k, k.cur) ELSE k.cur
             /\ \A t \in Thread : Runnable(r, t) <=> Runnable(k, t)
             /\ SameClosed(k, r)
             /\ k.nest # 0 => r.flag = TRUE
             /\ (k.nest = 0 /\ \E t \in Thread : Runnable(k, t)) => HighestCurrent(r)
<1> DEFINE c == k.cur
           to == ToThread(k, c)
<1>1. k \in KState /\ QueueOK(k) /\ CurrentOK(k) /\ c \in Thread
  BY DEF KernelOK, KState
<1>2. CASE k.nest # 0
  <2> DEFINE r == [k EXCEPT !.flag = TRUE]
  <2>1. Schedule(k, c) = r /\ ~ Switches(k, c)
    BY <1>2 DEF Schedule, Switches
  <2>2. r \in KState
    BY <1>1 DEF KState
  <2>3. /\ r.cur = k.cur /\ r.nest = k.nest /\ r.stat = k.stat /\ r.mask = k.mask
        /\ r.cprio = k.cprio /\ r.list = k.list /\ r.group = k.group /\ r.flag = TRUE
    BY <1>1 DEF KState
  <2> HIDE DEF r
  <2>4. KernelOK(r)
    BY <2>2, <2>3, SameQueue
  <2> QED BY <1>2, <2>1, <2>3, <2>4 DEF Runnable, SameClosed
<1>3. CASE k.nest = 0 /\ k.group = {}
  <2>1. Schedule(k, c) = k /\ ~ Switches(k, c)
    BY <1>3 DEF Schedule, Switches
  <2>2. \A t \in Thread : k.stat[t] # "READY"
    BY <1>1, <1>3, ReadyInGroup
  <2>3. \A t \in Thread : Runnable(k, t) => t = c /\ k.stat[c] = "RUNNING"
    BY <1>1, <2>2 DEF Runnable, CurrentOK
  <2>4. k.cprio[c] <= k.cprio[c]
    BY <1>1, KernelAssumption DEF KState, Prio
  <2>5. (\E t \in Thread : Runnable(k, t)) => HighestCurrent(k)
    BY <2>3, <2>4 DEF HighestCurrent
  <2> QED BY <1>3, <2>1, <2>5 DEF SameClosed
<1> DEFINE h == HighestReady(k)
<1>4. \A t \in Thread : k.cprio[t] \in Nat
  BY <1>1, KernelAssumption DEF KState, Prio
<1>5. k.group # {} => h \in Nat /\ \A t \in Thread : k.stat[t] = "READY" => h <= k.cprio[t]
  BY <1>1, HighestReadyLeast, ReadyInGroup, KernelAssumption DEF Prio
<1> HIDE DEF h
<1>6. CASE k.nest = 0 /\ k.group # {} /\ KeepsCurrent(k, c)
  <2> DEFINE r == KeepThread(k, c)
  <2>1. to = c
    BY <1>6 DEF ToThread
  <2>2. Schedule(k, c) = r /\ ~ Switches(k, c)
    BY <1>6, <2>1 DEF Schedule, Switches
  <2>3. k.stat[c] = "RUNNING" /\ k.mask[c] = {k.cprio[c]}
    BY <1>1, <1>6 DEF KeepsCurrent, QueueOK, MaskOK
  <2>4. /\ r \in KState /\ QueueOK(r) /\ r.cur = k.cur /\ r.nest = k.nest
        /\ r.stat = [k.stat EXCEPT ![c] = "RUNNING"] /\ r.cprio = k.cprio
    BY <1>1, <2>3, RemoveKeeps DEF KeepThread, Stat
  <2> HIDE DEF r
  <2>5. r.stat = k.stat
    BY <1>1, <2>3, <2>4 DEF KState
  <2>6. CurrentOK(r)
    BY <1>1, <2>4, <2>5 DEF CurrentOK
  <2>7. HighestCurrent(r)
    <3>1. k.cprio[c] <= h
      BY <1>1, <1>4, <1>5, <1>6 DEF KeepsCurrent, h
    <3>2. \A t \in Thread : Runnable(k, t) => k.cprio[c] <= k.cprio[t]
      BY <1>1, <1>4, <1>5, <1>6, <3>1 DEF Runnable, CurrentOK
    <3> QED BY <2>3, <2>4, <2>5, <3>2 DEF HighestCurrent, Runnable
  <2> QED BY <1>6, <2>2, <2>4, <2>5, <2>6, <2>7 DEF KernelOK, Runnable, SameClosed
<1>7. CASE k.nest = 0 /\ k.group # {} /\ ~ KeepsCurrent(k, c)
  <2> DEFINE r == SwitchThread(k, c, to)
  <2>1. /\ to \in Thread /\ to # c /\ k.stat[to] = "READY" /\ k.cprio[to] = h
        /\ KernelOK(r) /\ r.cur = to /\ r.nest = k.nest /\ r.cprio = k.cprio
        /\ \A t \in Thread :
             r.stat[t] = CASE t = to -> "RUNNING"
                           [] t = c /\ k.stat[t] = "RUNNING" -> "READY"
                           [] OTHER -> k.stat[t]
    BY <1>7, SwitchKeeps DEF h
  <2>2. Schedule(k, c) = r /\ Switches(k, c)
    BY <1>7, <2>1 DEF Schedule, Switches
  <2> HIDE DEF r, to
  <2>3. /\ \A t \in Thread : Runnable(r, t) <=> Runnable(k, t)
        /\ SameClosed(k, r)
    BY <2>1 DEF Runnable, SameClosed
  <2>4. HighestCurrent(r)
    <3>1. k.stat[c] = "RUNNING" => h <= k.cprio[c]
      BY <1>1, <1>4, <1>5, <1>7 DEF KeepsCurrent, h
    <3>2. \A t \in Thread : Runnable(k, t) => h <= k.cprio[t]
      BY <1>1, <1>5, <1>7, <3>1 DEF Runnable, CurrentOK
    <3> QED BY <2>1, <2>3, <3>2 DEF HighestCurrent
  <2> QED BY <1>7, <2>1, <2>2, <2>3, <2>4 DEF to
<1> QED BY <1>2, <1>3, <1>6, <1>7

(* rt_sched_thread_ready                                                    *)
LEMMA ReadyKeeps ==
  ASSUME NEW k, KernelOK(k), NEW t \in Thread
  PROVE  LET r == ReadyThread(k, t)
         IN  /\ KernelOK(r) /\ r.cur = k.cur /\ r.nest = k.nest
             /\ \A u \in Thread : Runnable(k, u) => Runnable(r, u)
             /\ SameClosed(k, r)
<1> DEFINE r == InsertThread(k, t)
<1>1. k \in KState /\ QueueOK(k) /\ CurrentOK(k)
  BY DEF KernelOK
<1>2. CASE k.stat[t] # "SUSPEND"
  BY <1>2 DEF ReadyThread, IsSuspended, SameClosed
<1>3. CASE k.stat[t] = "SUSPEND" /\ t = k.cur
  <2>1. r = [k EXCEPT !.stat[t] = "RUNNING"]
    BY <1>3 DEF InsertThread
  <2>2. r \in KState
    <3>1. "RUNNING" \in Stat
      BY DEF Stat
    <3> QED BY <1>1, <2>1, <3>1, SetStatType
  <2>3. /\ r.cur = k.cur /\ r.nest = k.nest /\ r.mask = k.mask /\ r.cprio = k.cprio
        /\ r.list = k.list /\ r.group = k.group
        /\ r.stat[t] = "RUNNING"
        /\ \A u \in Thread \ {t} : r.stat[u] = k.stat[u]
    BY <1>1, <2>1 DEF KState
  <2> HIDE DEF r
  <2>4. QueueOK(r)
    BY <1>1, <1>3, <2>3 DEF QueueOK, MaskOK, ListOK, GroupOK
  <2>5. CurrentOK(r)
    BY <1>1, <1>3, <2>3 DEF CurrentOK
  <2>6. /\ \A u \in Thread : Runnable(k, u) => Runnable(r, u)
        /\ SameClosed(k, r)
    BY <1>3, <2>3 DEF Runnable, SameClosed
  <2> QED BY <1>3, <2>2, <2>3, <2>4, <2>5, <2>6 DEF KernelOK, ReadyThread, IsSuspended, r
<1>4. CASE k.stat[t] = "SUSPEND" /\ t # k.cur
  <2>1. k.mask[t] = {k.cprio[t]}
    BY <1>1, <1>4 DEF QueueOK, MaskOK
  <2> HIDE DEF r
  <2>2. /\ r \in KState /\ QueueOK(r) /\ r.cur = k.cur /\ r.nest = k.nest
        /\ r.stat = [k.stat EXCEPT ![t] = "READY"]
    BY <1>1, <1>4, <2>1, InsertKeeps DEF r
  <2>3. CurrentOK(r)
    BY <1>1, <1>4, <2>2 DEF CurrentOK, KState
  <2>4. /\ \A u \in Thread : Runnable(k, u) => Runnable(r, u)
        /\ SameClosed(k, r)
    BY <1>1, <1>4, <2>2 DEF Runnable, KState, SameClosed
  <2> QED BY <1>4, <2>2, <2>3, <2>4 DEF KernelOK, ReadyThread, IsSuspended, r
<1> QED BY <1>2, <1>3, <1>4

(* rt_sched_thread_startup                                                  *)
LEMMA StartupKeeps ==
  ASSUME NEW k, KernelOK(k), NEW t \in Thread, k.stat[t] = "INIT"
  PROVE  LET r == StartupThread(k, t)
         IN  /\ KernelOK(r) /\ r.cur = k.cur /\ r.nest = k.nest
             /\ \A u \in Thread : Runnable(k, u) => Runnable(r, u)
             /\ SameClosed(k, r)
<1> DEFINE r == StartupThread(k, t)
<1>1. k \in KState /\ QueueOK(k) /\ CurrentOK(k)
  BY DEF KernelOK
<1>2. r \in KState
  BY ZenonT(40), <1>1 DEF KState, Stat, StartupThread
<1>3. /\ r.cur = k.cur /\ r.nest = k.nest /\ r.cprio = k.cprio
      /\ r.list = k.list /\ r.group = k.group
      /\ r.mask = [k.mask EXCEPT ![t] = {k.cprio[t]}]
      /\ r.stat = [k.stat EXCEPT ![t] = "SUSPEND"]
  BY <1>1 DEF KState, StartupThread
<1> HIDE DEF r
<1>4. MaskOK(r) /\ GroupOK(r)
  BY <1>1, <1>3 DEF QueueOK, MaskOK, GroupOK, KState
<1>5. ListOK(r)
  <2>1. \A u \in Thread : r.stat[u] = "READY" <=> k.stat[u] = "READY"
    BY <1>1, <1>3 DEF KState
  <2> QED BY <1>1, <1>3, <2>1 DEF QueueOK, ListOK
<1>6. CurrentOK(r)
  BY <1>1, <1>3 DEF CurrentOK, KState
<1>7. /\ \A u \in Thread : Runnable(k, u) => Runnable(r, u)
      /\ SameClosed(k, r)
  BY <1>1, <1>3 DEF Runnable, KState, SameClosed
<1> QED BY <1>2, <1>3, <1>4, <1>5, <1>6, <1>7 DEF KernelOK, QueueOK, r

(* rt_thread_suspend_to_list                                                *)
LEMMA SuspendKeeps ==
  ASSUME NEW k, KernelOK(k), NEW t \in Thread
  PROVE  LET r == SuspendThread(k, t)
         IN  /\ KernelOK(r) /\ r.cur = k.cur /\ r.nest = k.nest
             /\ \A u \in Thread \ {t} : Runnable(k, u) => Runnable(r, u)
             /\ SameClosed(k, r)
<1> DEFINE r == [RemoveThread(k, t) EXCEPT !.stat[t] = "SUSPEND"]
<1>1. k \in KState /\ QueueOK(k) /\ CurrentOK(k)
  BY DEF KernelOK
<1>2. CASE ~ CanSuspend(k, t)
  BY <1>2 DEF SuspendThread, SameClosed
<1>3. CASE CanSuspend(k, t)
  <2>1. k.mask[t] = {k.cprio[t]}
    BY <1>1, <1>3 DEF QueueOK, MaskOK, CanSuspend
  <2>2. /\ r \in KState /\ QueueOK(r) /\ r.cur = k.cur /\ r.nest = k.nest
        /\ r.stat = [k.stat EXCEPT ![t] = "SUSPEND"]
    BY <1>1, <2>1, RemoveKeeps DEF Stat
  <2> HIDE DEF r
  <2>3. CurrentOK(r)
    BY SMTT(30), <1>1, <2>2 DEF CurrentOK, KState
  <2>4. /\ \A u \in Thread \ {t} : Runnable(k, u) => Runnable(r, u)
        /\ SameClosed(k, r)
    BY <1>1, <1>3, <2>2 DEF Runnable, KState, SameClosed, CanSuspend
  <2> QED BY <1>3, <2>2, <2>3, <2>4 DEF KernelOK, SuspendThread, r
<1> QED BY <1>2, <1>3

(* rt_sched_thread_yield                                                    *)
LEMMA YieldKeeps ==
  ASSUME NEW k, KernelOK(k), NEW t \in Thread
  PROVE  LET r == YieldThread(k, t)
         IN  /\ KernelOK(r) /\ r.cur = k.cur /\ r.nest = k.nest
             /\ r.stat = k.stat /\ r.cprio = k.cprio /\ r.flag = k.flag
<1>1. YieldThread(k, t) \in KState
  <2>1. InitTick \in 1 .. InitTick
    BY KernelAssumption
  <2>2. [k EXCEPT !.slice[t] = InitTick] \in KState
    BY <2>1 DEF KernelOK, KState
  <2> QED BY <2>2 DEF KState, YieldThread
<1> QED BY <1>1, SameQueue DEF KernelOK, KState, YieldThread

(* rt_sched_tick_increase up to the rescheduling                            *)
LEMMA TickKeeps ==
  ASSUME NEW k, KernelOK(k), NEW t \in Thread
  PROVE  LET r == TickThread(k, t)
         IN  /\ KernelOK(r) /\ r.cur = k.cur /\ r.nest = k.nest
             /\ r.stat = k.stat /\ r.cprio = k.cprio /\ r.flag = k.flag
<1>1. CASE SliceExpires(k, t)
  BY <1>1, YieldKeeps DEF TickThread
<1>2. CASE ~ SliceExpires(k, t)
  <2> DEFINE r == [k EXCEPT !.slice[t] = @ - 1]
  <2>1. k.slice[t] - 1 \in 1 .. InitTick
    BY <1>2, KernelAssumption DEF SliceExpires, KernelOK, KState
  <2>2. r \in KState
    BY <2>1 DEF KernelOK, KState
  <2> QED BY <1>2, <2>2, SameQueue DEF KernelOK, KState, TickThread
<1> QED BY <1>1, <1>2

(* rt_sched_thread_change_priority and rt_sched_thread_reset_priority       *)
LEMMA SetPriorityKeeps ==
  ASSUME NEW k, KernelOK(k), NEW t \in Thread, NEW p \in Prio, k.stat[t] # "READY"
  PROVE  LET r == SetPriority(k, t, p)
         IN  KernelOK(r) /\ r.cur = k.cur /\ r.nest = k.nest /\ r.stat = k.stat
             /\ r.mask[t] = {r.cprio[t]}
<1> DEFINE r == SetPriority(k, t, p)
<1>1. k \in KState /\ QueueOK(k) /\ CurrentOK(k)
  BY DEF KernelOK
<1>2. r \in KState
  BY <1>1 DEF KState, SetPriority
<1>3. /\ r.cur = k.cur /\ r.nest = k.nest /\ r.stat = k.stat
      /\ r.list = k.list /\ r.group = k.group
      /\ r.mask = [k.mask EXCEPT ![t] = {p}]
      /\ r.cprio = [k.cprio EXCEPT ![t] = p]
  BY <1>1 DEF KState, SetPriority
<1> HIDE DEF r
<1>4. MaskOK(r) /\ GroupOK(r) /\ CurrentOK(r)
  BY <1>1, <1>3 DEF QueueOK, MaskOK, GroupOK, CurrentOK, KState
<1>5. ListOK(r)
  <2>1. \A u \in Thread, q \in Prio :
          r.stat[u] = "READY" /\ r.cprio[u] = q <=> k.stat[u] = "READY" /\ k.cprio[u] = q
    BY <1>1, <1>3 DEF KState
  <2> QED BY <1>1, <1>3, <2>1 DEF QueueOK, ListOK
<1>6. r.mask[t] = {r.cprio[t]}
  BY <1>1, <1>3 DEF KState
<1> QED BY <1>2, <1>3, <1>4, <1>5, <1>6 DEF KernelOK, QueueOK, r

(* rt_sched_thread_change_priority moves a READY thread to its new list and *)
(* closes or stops nobody.                                                  *)
LEMMA ChangePriorityKeeps ==
  ASSUME NEW k, KernelOK(k), NEW t \in Thread, NEW p \in Prio
  PROVE  LET r == ChangePriority(k, t, p)
         IN  /\ KernelOK(r) /\ r.cur = k.cur /\ r.nest = k.nest
             /\ SameClosed(k, r)
             /\ \A u \in Thread : Runnable(r, u) <=> Runnable(k, u)
<1>1. k \in KState /\ QueueOK(k) /\ CurrentOK(k)
  BY DEF KernelOK
<1>2. CASE k.stat[t] # "READY"
  BY <1>2, SetPriorityKeeps DEF ChangePriority, SameClosed, Runnable
<1>3. CASE k.stat[t] = "READY"
  <2> DEFINE k1 == [RemoveThread(k, t) EXCEPT !.stat[t] = "INIT"]
             k2 == SetPriority(k1, t, p)
             k3 == [k2 EXCEPT !.yield[t] = FALSE]
             r == InsertThread(k3, t)
  <2>1. k.mask[t] = {k.cprio[t]} /\ t # k.cur
    BY <1>1, <1>3 DEF QueueOK, MaskOK, CurrentOK
  <2>2. /\ k1 \in KState /\ QueueOK(k1) /\ k1.cur = k.cur /\ k1.nest = k.nest
        /\ k1.stat = [k.stat EXCEPT ![t] = "INIT"]
    BY <1>1, <2>1, RemoveKeeps DEF Stat
  <2>3. RemoveThread(k, t).stat = k.stat
    BY <1>1 DEF RemoveThread, KState
  <2>4. k3 = [SetPriority(RemoveThread(k, t), t, p) EXCEPT !.stat[t] = "INIT", !.yield[t] = FALSE]
    BY ZenonT(40), <1>1 DEF SetPriority, RemoveThread, KState
  <2>5. ChangePriority(k, t, p) = r
    BY <1>3, <2>4 DEF ChangePriority
  <2> HIDE DEF k1
  <2>6. CurrentOK(k1)
    BY <1>1, <2>1, <2>2 DEF CurrentOK, KState
  <2>7. KernelOK(k1) /\ k1.stat[t] = "INIT"
    BY <1>1, <2>2, <2>6 DEF KernelOK, KState
  <2>8. /\ KernelOK(k2) /\ k2.cur = k.cur /\ k2.nest = k.nest /\ k2.stat = k1.stat
        /\ k2.mask[t] = {k2.cprio[t]}
    <3>1. k1.stat[t] # "READY"
      BY <2>7
    <3>2. k2 = SetPriority(k1, t, p)
      OBVIOUS
    <3> HIDE DEF k2
    <3>3. KernelOK(k2) /\ k2.cur = k1.cur /\ k2.nest = k1.nest /\ k2.stat = k1.stat
      BY <2>7, <3>1, <3>2, SetPriorityKeeps
    <3>4. k2.mask[t] = {k2.cprio[t]}
      BY <2>7, <3>1, <3>2, SetPriorityKeeps
    <3> QED BY <2>2, <3>3, <3>4
  <2> HIDE DEF k2
  <2>9. k3 \in KState
    BY <2>8 DEF KernelOK, KState
  <2>10. /\ k3.cur = k.cur /\ k3.nest = k.nest /\ k3.stat = k1.stat
         /\ k3.mask = k2.mask /\ k3.cprio = k2.cprio
         /\ k3.list = k2.list /\ k3.group = k2.group
    BY <2>8 DEF KernelOK, KState
  <2>11. KernelOK(k3)
    BY <2>8, <2>9, <2>10, SameQueue
  <2> HIDE DEF k3, r
  <2>12. /\ r \in KState /\ QueueOK(r) /\ r.cur = k3.cur /\ r.nest = k3.nest
         /\ r.stat = [k3.stat EXCEPT ![t] = "READY"]
    BY <2>1, <2>7, <2>8, <2>10, <2>11, InsertKeeps DEF KernelOK, r
  <2>13. CurrentOK(r)
    <3>1. CurrentOK(k3) /\ k3 \in KState
      BY <2>11 DEF KernelOK
    <3>2. \A u \in Thread : r.stat[u] = IF u = t THEN "READY" ELSE k3.stat[u]
      BY <2>12, <3>1 DEF KState
    <3>3. k3.cur \in Thread /\ k3.cur # t
      BY <2>1, <2>10, <3>1 DEF KState
    <3> QED BY <2>12, <3>1, <3>2, <3>3 DEF CurrentOK
  <2>14. \A u \in Thread : r.stat[u] = k.stat[u]
    BY <1>1, <1>3, <2>2, <2>10, <2>12 DEF KState
  <2> QED BY <2>5, <2>10, <2>12, <2>13, <2>14 DEF KernelOK, SameClosed, Runnable
<1> QED BY <1>2, <1>3

(* rt_sched_thread_reset_priority does the same and sets the initial        *)
(* priority.                                                                *)
LEMMA ResetPriorityKeeps ==
  ASSUME NEW k, KernelOK(k), NEW t \in Thread, NEW p \in Prio
  PROVE  LET r == ResetPriority(k, t, p)
         IN  /\ KernelOK(r) /\ r.cur = k.cur /\ r.nest = k.nest
             /\ SameClosed(k, r)
             /\ \A u \in Thread : Runnable(r, u) <=> Runnable(k, u)
<1> DEFINE c == ChangePriority(k, t, p)
<1>1. /\ KernelOK(c) /\ c.cur = k.cur /\ c.nest = k.nest
      /\ SameClosed(k, c)
      /\ \A u \in Thread : Runnable(c, u) <=> Runnable(k, u)
  BY ChangePriorityKeeps
<1> HIDE DEF c
<1>2. [c EXCEPT !.iprio[t] = p] \in KState
  BY <1>1 DEF KernelOK, KState
<1> QED BY <1>1, <1>2, SameQueue DEF KernelOK, KState, ResetPriority, SameClosed, Runnable, c

-----------------------------------------------------------------------------
(* What the routines leave alone. *)

(* rt_sched_thread_ready wakes one suspended thread.                        *)
LEMMA ReadyFrame ==
  ASSUME NEW k \in KState, NEW t \in Thread
  PROVE  LET r == ReadyThread(k, t)
         IN  /\ r.cprio = k.cprio /\ r.iprio = k.iprio /\ r.flag = k.flag
             /\ \A u \in Thread \ {t} : r.stat[u] = k.stat[u]
             /\ r.stat[t] = IF ~ IsSuspended(k, t) THEN k.stat[t]
                            ELSE IF t = k.cur THEN "RUNNING" ELSE "READY"
  BY DEF ReadyThread, InsertThread, IsSuspended, KState

(* rt_thread_suspend stops one runnable thread.                             *)
LEMMA SuspendFrame ==
  ASSUME NEW k \in KState, NEW t \in Thread
  PROVE  LET r == SuspendThread(k, t)
         IN  /\ r.cprio = k.cprio /\ r.iprio = k.iprio
             /\ \A u \in Thread \ {t} : r.stat[u] = k.stat[u]
             /\ Runnable(k, t) => r.stat[t] = "SUSPEND"
  BY DEF SuspendThread, CanSuspend, RemoveThread, Runnable, KState

(* rt_schedule suspends and wakes nobody and leaves the priorities.         *)
LEMMA ScheduleFrame ==
  ASSUME NEW k, KernelOK(k)
  PROVE  LET r == Schedule(k, k.cur)
         IN  /\ r.cprio = k.cprio /\ r.iprio = k.iprio
             /\ \A t \in Thread : IsSuspended(r, t) <=> IsSuspended(k, t)
<1> DEFINE c == k.cur
           to == ToThread(k, c)
           r == Schedule(k, c)
<1>1. k \in KState /\ c \in Thread
  BY DEF KernelOK, KState
<1>2. CASE k.nest # 0
  BY <1>1, <1>2 DEF Schedule, KState, IsSuspended
<1>3. CASE k.nest = 0 /\ k.group = {}
  BY <1>1, <1>3 DEF Schedule, IsSuspended
<1>4. CASE k.nest = 0 /\ k.group # {} /\ to = c
  <2>1. r = KeepThread(k, c)
    BY <1>4 DEF Schedule
  <2>2. k.stat[c] # "SUSPEND"
    <3>1. KeepsCurrent(k, c)
      BY <1>1, <1>4, SwitchKeeps
    <3> QED BY <3>1 DEF KeepsCurrent
  <2> QED BY <1>1, <2>1, <2>2 DEF KeepThread, RemoveThread, KState, IsSuspended
<1>5. CASE k.nest = 0 /\ k.group # {} /\ to # c
  <2>1. r = SwitchThread(k, c, to)
    BY <1>5 DEF Schedule
  <2>2. ~ KeepsCurrent(k, c)
    BY <1>5 DEF ToThread
  <2>3. /\ to \in Thread /\ k.stat[to] = "READY"
        /\ \A t \in Thread :
             r.stat[t] = CASE t = to -> "RUNNING"
                           [] t = c /\ k.stat[t] = "RUNNING" -> "READY"
                           [] OTHER -> k.stat[t]
    BY <1>5, <2>1, <2>2, SwitchKeeps
  <2>4. r.cprio = k.cprio /\ r.iprio = k.iprio
    BY <1>1, <2>1, <2>3 DEF SwitchThread, InsertThread, RemoveThread, KState
  <2>5. ASSUME NEW t \in Thread PROVE IsSuspended(r, t) <=> IsSuspended(k, t)
    <3>1. CASE t = to
      BY <2>3, <3>1 DEF IsSuspended
    <3>2. CASE t # to /\ t = c /\ k.stat[t] = "RUNNING"
      BY <2>3, <3>2 DEF IsSuspended
    <3>3. CASE t # to /\ ~ (t = c /\ k.stat[t] = "RUNNING")
      BY <2>3, <3>3 DEF IsSuspended
    <3> QED BY <3>1, <3>2, <3>3
  <2> QED BY <2>4, <2>5
<1> QED BY <1>2, <1>3, <1>4, <1>5

(* rt_sched_thread_change_priority changes the priority of one thread and   *)
(* nobody's status.                                                         *)
LEMMA ChangePriorityFrame ==
  ASSUME NEW k \in KState, NEW t \in Thread, NEW p \in Prio, MaskOK(k), ListOK(k),
         CurrentOK(k)
  PROVE  LET r == ChangePriority(k, t, p)
         IN  /\ r.iprio = k.iprio /\ r.stat = k.stat
             /\ r.cprio = [k.cprio EXCEPT ![t] = p]
<1>1. CASE k.stat[t] # "READY"
  BY <1>1 DEF ChangePriority, SetPriority, KState
<1>2. CASE k.stat[t] = "READY"
  <2> DEFINE k1 == SetPriority(RemoveThread(k, t), t, p)
             k2 == [k1 EXCEPT !.stat[t] = "INIT", !.yield[t] = FALSE]
             r == InsertThread(k2, t)
  <2>1. t # k.cur
    BY <1>2 DEF CurrentOK
  <2>2. /\ k1.stat = k.stat /\ k1.iprio = k.iprio /\ k1.cur = k.cur
        /\ k1.cprio = [k.cprio EXCEPT ![t] = p]
    BY DEF SetPriority, RemoveThread, KState
  <2>3. /\ k2.stat = [k.stat EXCEPT ![t] = "INIT"] /\ k2.cur = k.cur
        /\ k2.iprio = k.iprio /\ k2.cprio = k1.cprio
    BY <2>2 DEF SetPriority, RemoveThread, KState
  <2>4. ChangePriority(k, t, p) = r
    BY <1>2 DEF ChangePriority
  <2>5. /\ r.stat = [k2.stat EXCEPT ![t] = "READY"]
        /\ r.iprio = k2.iprio /\ r.cprio = k2.cprio
    BY <2>1, <2>3 DEF InsertThread, SetPriority, RemoveThread, KState
  <2>6. [[k.stat EXCEPT ![t] = "INIT"] EXCEPT ![t] = "READY"] = k.stat
    BY <1>2 DEF KState
  <2> QED BY <2>2, <2>3, <2>4, <2>5, <2>6
<1> QED BY <1>1, <1>2
=============================================================================
