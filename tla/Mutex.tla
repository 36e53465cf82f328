-------------------------------- MODULE Mutex --------------------------------
(***************************************************************************)
(* The mutex of ipc.c: recursive locks handed over by priority, with       *)
(* priority inheritance along chains of waiting owners, priority ceilings, *)
(* time-outs, and the deletion of mutexes and of threads that use them.    *)
(*                                                                         *)
(* The mutex calls run in a thread with preemption disabled                *)
(* (rt_spin_lock); the interrupt handlers that can fall in between are the *)
(* thread timers, whose effect commutes with the call except where a       *)
(* thread has started its own timer and not yet left the CPU, which is a   *)
(* step boundary.  The context switch takes place at once.                 *)
(***************************************************************************)
EXTENDS Kernel, FiniteSets

CONSTANTS
  Mutex,     \* the mutexes
  Idle,      \* the idle thread, which uses no mutex
  None,      \* no thread or no mutex
  Rank,      \* the order in which the program takes mutexes; ties are unordered
  HoldMax,   \* RT_MUTEX_HOLD_MAX
  DepthMax,  \* bound: mutexes one thread holds at once
  Waits,     \* the kinds of time-out in use: "forever", "finite"
  Mortal,    \* the threads that may exit or be deleted
  Ops,       \* the optional calls in use: "sleep", "resume", "ceiling", "detach"
  Ceilings   \* the ceilings in use

ASSUME MutexAssumption ==
  /\ IsFiniteSet(Thread) /\ IsFiniteSet(Mutex)
  /\ Idle \in Thread /\ Mortal \subseteq Thread \ {Idle}
  /\ \A t \in Thread \ {Idle} : InitPrio[t] < InitPrio[Idle]
  /\ None \notin Thread \cup Mutex
  /\ PrioMax < 255
  /\ Rank \in [Mutex -> Nat]
  /\ HoldMax \in Nat \ {0} /\ DepthMax \in Nat
  /\ Waits \subseteq {"forever", "finite"}
  /\ Ops \subseteq {"sleep", "resume", "ceiling", "detach"}
  /\ Ceilings \subseteq Prio

VARIABLES
  s,      \* the scheduler and the mutexes, as one record (below)
  pc,     \* where each thread stands in rt_mutex_take
  arg,    \* the mutex of that call
  err,    \* thread->error of the last wait for a mutex
  armed,  \* the thread timer runs
  live    \* the mutexes not yet detached or deleted

vars == <<s, pc, arg, err, armed, live>>

(* No waiter, or no ceiling. *)
NoPrio == 255

(* The kernel objects:                                                      *)
(*   k        the scheduler (module Kernel)                                 *)
(*   owner, hold, ceil   the mutex fields of these names                    *)
(*   prio     mutex->priority: the priority of the first waiter, or 0xff    *)
(*   queue    mutex->parent.suspend_thread                                  *)
(*   taken    thread->taken_object_list, latest first                       *)
(*   pending  thread->pending_object                                        *)
State ==
  [k       : KState,
   owner   : [Mutex -> Thread \cup {None}],
   hold    : [Mutex -> 0 .. HoldMax],
   prio    : [Mutex -> Prio \cup {NoPrio}],
   ceil    : [Mutex -> Prio \cup {NoPrio}],
   queue   : [Mutex -> Seq(Thread)],
   taken   : [Thread -> Seq(Mutex)],
   pending : [Thread -> Mutex \cup {None}]]

(*   run    in its own code, or asleep there                                *)
(*   block  in rt_mutex_take, suspended, rt_schedule still to come          *)
(*   wait   in rt_mutex_take, off the CPU                                   *)
Pc == {"run", "block", "wait"}

TypeOK ==
  /\ s \in State
  /\ pc \in [Thread -> Pc]
  /\ arg \in [Thread -> Mutex \cup {None}]
  /\ err \in [Thread -> {"EOK", "ETIMEOUT", "ERROR"}]
  /\ armed \in [Thread -> BOOLEAN]
  /\ live \subseteq Mutex

(* All threads are started; one of the highest priority runs.               *)
Top == CHOOSE t \in Thread : \A u \in Thread : InitPrio[t] <= InitPrio[u]
ReadyAt(p) == SetToSeq({t \in Thread \ {Top} : InitPrio[t] = p})

Init ==
  /\ s = [k       |-> [cur   |-> Top,
                       stat  |-> [t \in Thread |-> IF t = Top THEN "RUNNING" ELSE "READY"],
                       yield |-> [t \in Thread |-> FALSE],
                       iprio |-> InitPrio,
                       cprio |-> InitPrio,
                       mask  |-> [t \in Thread |-> {InitPrio[t]}],
                       slice |-> [t \in Thread |-> InitTick],
                       list  |-> [p \in Prio |-> ReadyAt(p)],
                       group |-> {p \in Prio : ReadyAt(p) # <<>>},
                       nest  |-> 0,
                       flag  |-> FALSE],
          owner   |-> [m \in Mutex |-> None],
          hold    |-> [m \in Mutex |-> 0],
          prio    |-> [m \in Mutex |-> NoPrio],
          ceil    |-> [m \in Mutex |-> NoPrio],
          queue   |-> [m \in Mutex |-> <<>>],
          taken   |-> [t \in Thread |-> <<>>],
          pending |-> [t \in Thread |-> None]]
  /\ pc = [t \in Thread |-> "run"]
  /\ arg = [t \in Thread |-> None]
  /\ err = [t \in Thread |-> "EOK"]
  /\ armed = [t \in Thread |-> FALSE]
  /\ live = Mutex

-----------------------------------------------------------------------------
(* Priorities. *)

Lower(p, q) == IF p < q THEN p ELSE q

(* rt_susp_list_enqueue with RT_IPC_FLAG_PRIO: before the first waiter of a *)
(* strictly lower priority.                                                 *)
Enqueue(z, m, t) ==
  LET q     == z.queue[m]
      ahead == {i \in DOMAIN q : \A j \in 1 .. i : z.k.cprio[q[j]] <= z.k.cprio[t]}
  IN  [z EXCEPT !.queue[m] = InsertAt(q, Cardinality(ahead) + 1, t)]

Dequeue(z, t) == [z EXCEPT !.queue = [m \in Mutex |-> RemoveFirst(@[m], t)]]

(* _mutex_update_priority *)
UpdateMutex(z, m) ==
  [z EXCEPT !.prio[m] =
     IF z.queue[m] = <<>> THEN NoPrio ELSE z.k.cprio[Head(z.queue[m])]]

(* _thread_get_mutex_priority: the highest of the initial priority and, for *)
(* each mutex taken, its first waiter's priority and its ceiling.           *)
MutexPriority(z, t) ==
  LET held == ToSet(z.taken[t])
      all  == {z.k.iprio[t]} \cup {Lower(z.prio[m], z.ceil[m]) : m \in held}
  IN  CHOOSE p \in all : \A q \in all : p <= q

SetThread(z, t, p) == [z EXCEPT !.k = ChangePriority(@, t, p)]

(* Mutants: only the first owner inherits; or a waiter's new priority does  *)
(* not move it in the list.                                                 *)
Propagate_OneLevel(l) == [l EXCEPT !.changed = FALSE]
Propagate_NoResort(l) ==
  IF l.changed /\ IsSuspended(l.z.k, l.t) /\ l.z.pending[l.t] # None
  THEN LET o == l.z.owner[l.z.pending[l.t]]
           z1 == UpdateMutex(l.z, l.z.pending[l.t])
           p == MutexPriority(z1, o)
       IN  [z |-> SetThread(z1, o, p), t |-> o, changed |-> p # z1.k.cprio[o]]
  ELSE [l EXCEPT !.changed = FALSE]

(* One turn of the loop in _thread_update_priority: the priority of l.t has *)
(* changed; if it waits on a mutex, move it in that mutex's list and adjust *)
(* the owner, which is then the thread whose priority has changed.          *)
Propagate(l) ==
  IF l.changed /\ IsSuspended(l.z.k, l.t) /\ l.z.pending[l.t] # None
  THEN LET m  == l.z.pending[l.t]
           o  == l.z.owner[m]
           z1 == UpdateMutex(Enqueue(Dequeue(l.z, l.t), m, l.t), m)
           p  == MutexPriority(z1, o)
       IN  IF p # z1.k.cprio[o]
           THEN [z |-> SetThread(z1, o, p), t |-> o, changed |-> TRUE]
           ELSE [z |-> z1, t |-> o, changed |-> FALSE]
  ELSE [l EXCEPT !.changed = FALSE]

(* _thread_update_priority: a chain of waiting owners passes each mutex at  *)
(* most once.                                                               *)
UpdatePriority(z, t, p) ==
  LET turn[n \in 0 .. Cardinality(Mutex)] ==
        IF n = 0
        THEN [z |-> SetThread(z, t, p), t |-> t, changed |-> TRUE]
        ELSE Propagate(turn[n - 1])
  IN  turn[Cardinality(Mutex)].z

(* Give t the priority its mutexes call for, and pass the change on.        *)
Refresh(z, t) ==
  LET p == MutexPriority(z, t)
  IN  IF p # z.k.cprio[t] THEN UpdatePriority(z, t, p) ELSE z

(* Mutant: the boost of a ceiling is not undone.                            *)
Restores_NoCeiling(z, t, m) == z.k.cprio[t] = z.prio[m]

(* _check_and_update_prio: the change is not passed on.                     *)
Restores(z, t, m) == z.ceil[m] # NoPrio \/ z.k.cprio[t] = z.prio[m]
Restore(z, t, m) == IF Restores(z, t, m) THEN SetThread(z, t, MutexPriority(z, t)) ELSE z

(* Mutant: the owner falls back to its initial priority.                    *)
LeaveWaiters_Resets(z, t, m) ==
  LET o == z.owner[m]
  IN  IF o # None /\ z.k.cprio[o] = z.k.cprio[t]
      THEN UpdatePriority(UpdateMutex(z, m), o, z.k.iprio[o])
      ELSE UpdateMutex(z, m)

(* What a thread that has left the waiters of m without getting it does (in *)
(* _rt_mutex_take, or rt_mutex_drop_thread on its behalf): the owner's      *)
(* priority is looked at only if it equals the thread's.                    *)
LeaveWaiters(z, t, m) ==
  LET z1 == UpdateMutex(z, m)
      o  == z.owner[m]
  IN  IF o # None /\ z.k.cprio[o] = z.k.cprio[t] THEN Refresh(z1, o) ELSE z1

(* rt_sched_thread_ready of a thread in some wait list. *)
Ready(z, t) == [Dequeue(z, t) EXCEPT !.k = ReadyThread(@, t)]

Resched(z) == [z EXCEPT !.k = Schedule(@, @.cur)]

-----------------------------------------------------------------------------
(* rt_mutex_take *)

self == s.k.cur
Calls == self # Idle /\ pc[self] = "run"

(* Mutant: the hold count is not limited.                                   *)
TakeAgain_NoLimit(m) ==
  /\ Calls /\ s.owner[m] = self /\ m \in live
  /\ s' = [s EXCEPT !.hold[m] = @ + 1]
  /\ UNCHANGED <<pc, arg, err, armed, live>>

(* A mutex already owned is counted; at HoldMax the call fails.             *)
TakeAgain(m) ==
  /\ Calls /\ s.owner[m] = self /\ m \in live
  /\ s.hold[m] < HoldMax
  /\ s' = [s EXCEPT !.hold[m] = @ + 1]
  /\ UNCHANGED <<pc, arg, err, armed, live>>

(* The program takes mutexes in the order of Rank.                          *)
InOrder(m) ==
  /\ m \in live
  /\ Len(s.taken[self]) < DepthMax
  /\ \A l \in ToSet(s.taken[self]) : Rank[l] <= Rank[m]

TakeFree(m) ==
  /\ Calls /\ s.owner[m] = None /\ InOrder(m)
  /\ LET z1 == [s EXCEPT !.owner[m] = self, !.prio[m] = NoPrio, !.hold[m] = 1]
         z2 == IF s.ceil[m] < s.k.cprio[self] THEN UpdatePriority(z1, self, s.ceil[m]) ELSE z1
     IN  s' = [z2 EXCEPT !.taken[self] = Cons(m, @)]
  /\ UNCHANGED <<pc, arg, err, armed, live>>

(* Mutant: no inheritance.                                                  *)
Inherit_None(z, t, m) == z

(* The owner inherits a priority higher than that of any earlier waiter.    *)
Inherit(z, t, m) ==
  IF z.k.cprio[t] < z.prio[m]
  THEN LET z1 == [z EXCEPT !.prio[m] = z.k.cprio[t]]
       IN  IF z.k.cprio[t] < z.k.cprio[z.owner[m]]
           THEN UpdatePriority(z1, z.owner[m], z.k.cprio[t])
           ELSE z1
  ELSE z

(* The mutex has another owner: suspend, boost the owner, start the timer,  *)
(* with preemption disabled.  With no time to wait the call just fails.     *)
TakeBusy(m, wait) ==
  /\ Calls /\ s.owner[m] \notin {None, self} /\ InOrder(m)
  /\ LET z1 == [Enqueue(s, m, self) EXCEPT !.k = SuspendThread(@, self),
                                           !.pending[self] = m]
         z2 == Inherit(z1, self, m)
     IN  s' = [z2 EXCEPT !.k.nest = 1]
  /\ pc' = [pc EXCEPT ![self] = "block"]
  /\ arg' = [arg EXCEPT ![self] = m]
  /\ err' = [err EXCEPT ![self] = "EOK"]
  /\ armed' = [armed EXCEPT ![self] = (wait = "finite")]
  /\ UNCHANGED live

(* rt_spin_unlock, which serves a pending switch, and rt_schedule.          *)
TakeSchedule ==
  /\ pc[self] = "block"
  /\ s' = Resched([s EXCEPT !.k.nest = 0, !.k.flag = FALSE])
  /\ pc' = [pc EXCEPT ![self] = "wait"]
  /\ UNCHANGED <<arg, err, armed, live>>

(* Back on the CPU: the mutex has been handed over, or the wait has failed. *)
TakeReturn ==
  /\ pc[self] = "wait"
  /\ LET m == arg[self]
     IN  s' = IF s.owner[m] = self
              THEN s
              ELSE [LeaveWaiters(s, self, m) EXCEPT !.pending[self] = None]
  /\ pc' = [pc EXCEPT ![self] = "run"]
  /\ arg' = [arg EXCEPT ![self] = None]
  /\ UNCHANGED <<err, armed, live>>

-----------------------------------------------------------------------------
(* rt_mutex_release *)

(* Mutant: the hold count is not set for the new owner.                     *)
HandOver_NoHold(z, m) ==
  IF z.queue[m] = <<>>
  THEN [z EXCEPT !.owner[m] = None, !.prio[m] = NoPrio]
  ELSE LET n == Head(z.queue[m])
       IN  [UpdateMutex(Ready(z, n), m) EXCEPT !.owner[m] = n, !.taken[n] = Cons(m, @),
                                               !.pending[n] = None]

(* Hand m to its first waiter, or leave it free.                            *)
HandOver(z, m) ==
  IF z.queue[m] = <<>>
  THEN [z EXCEPT !.owner[m] = None, !.prio[m] = NoPrio]
  ELSE LET n  == Head(z.queue[m])
           z1 == UpdateMutex(Ready(z, n), m)
       IN  [z1 EXCEPT !.owner[m] = n, !.hold[m] = 1,
                      !.taken[n] = Cons(m, @), !.pending[n] = None]

(* The last release of m by its owner t, up to the rescheduling.            *)
ReleaseLast(z, t, m) ==
  LET z1 == [z EXCEPT !.hold[m] = 0, !.taken[t] = RemoveFirst(@, m)]
  IN  HandOver(Restore(z1, t, m), m)

Next1(m) == IF s.queue[m] = <<>> THEN {} ELSE {Head(s.queue[m])}

(* Mutants: no rescheduling; the new owner's timer still runs.              *)
Release_NoSchedule(m) ==
  /\ Calls /\ s.owner[m] = self /\ m \in live
  /\ s' = IF s.hold[m] > 1 THEN [s EXCEPT !.hold[m] = @ - 1] ELSE ReleaseLast(s, self, m)
  /\ armed' = [t \in Thread |-> armed[t] /\ (s.hold[m] > 1 \/ t \notin Next1(m))]
  /\ UNCHANGED <<pc, arg, err, live>>
Release_KeepsTimer(m) ==
  /\ Calls /\ s.owner[m] = self /\ m \in live
  /\ s' = IF s.hold[m] > 1 THEN [s EXCEPT !.hold[m] = @ - 1] ELSE Resched(ReleaseLast(s, self, m))
  /\ UNCHANGED <<pc, arg, err, armed, live>>

Release(m) ==
  /\ Calls /\ s.owner[m] = self /\ m \in live
  /\ IF s.hold[m] > 1
     THEN s' = [s EXCEPT !.hold[m] = @ - 1] /\ UNCHANGED armed
     ELSE /\ LET z == ReleaseLast(s, self, m)
             IN  s' = IF s.queue[m] # <<>> \/ Restores(s, self, m) THEN Resched(z) ELSE z
          /\ armed' = [t \in Thread |-> armed[t] /\ t \notin Next1(m)]
  /\ UNCHANGED <<pc, arg, err, live>>

-----------------------------------------------------------------------------
(* Other calls on mutexes and threads. *)

(* rt_mutex_setprioceiling *)
SetCeiling(m, p) ==
  /\ "ceiling" \in Ops /\ Calls /\ m \in live
  /\ LET z == [s EXCEPT !.ceil[m] = p]
     IN  s' = IF s.owner[m] = None THEN z ELSE Refresh(z, s.owner[m])
  /\ UNCHANGED <<pc, arg, err, armed, live>>

(* Mutant: the waiters are not woken.                                       *)
Detach_NoWake(m) ==
  /\ "detach" \in Ops /\ Calls /\ m \in live
  /\ s' = IF s.owner[m] = None THEN s ELSE [s EXCEPT !.taken[s.owner[m]] = RemoveFirst(@, m)]
  /\ live' = live \ {m}
  /\ UNCHANGED <<pc, arg, err, armed>>

(* rt_susp_list_resume_all: the waiters of m, the first one first.          *)
ReadyAll(z, m) ==
  LET q == z.queue[m]
      woken[n \in 0 .. Len(q)] == IF n = 0 THEN z ELSE Ready(woken[n - 1], q[n])
  IN  woken[Len(q)]

(* rt_mutex_detach and rt_mutex_delete: wake all waiters with an error,     *)
(* take the mutex from its owner's list, restore the owner's priority, and  *)
(* reschedule if that was necessary.  The other fields keep their values.   *)
Detach(m) ==
  /\ "detach" \in Ops /\ Calls /\ m \in live
  /\ LET z1 == ReadyAll(s, m)
         o  == s.owner[m]
         z2 == IF o = None THEN z1 ELSE [z1 EXCEPT !.taken[o] = RemoveFirst(@, m)]
     IN  s' = IF o # None /\ Restores(z2, o, m) THEN Resched(Restore(z2, o, m)) ELSE z2
  /\ LET woken == ToSet(s.queue[m])
     IN  /\ err' = [t \in Thread |-> IF t \in woken THEN "ERROR" ELSE err[t]]
         /\ armed' = [t \in Thread |-> armed[t] /\ t \notin woken]
  /\ live' = live \ {m}
  /\ UNCHANGED <<pc, arg>>

(* rt_thread_close: take the thread out of the list it is in.               *)
Close(z, t) == [Dequeue(z, t) EXCEPT !.k = [RemoveThread(@, t) EXCEPT !.stat[t] = "CLOSE"]]

(* rt_thread_delete or rt_thread_detach of another thread.  Its mutexes are *)
(* released in the name of the caller, who does not own them, so only their *)
(* hold count is changed.                                                   *)
Delete(t) ==
  /\ Calls /\ t \in Mortal \ {self} /\ s.k.stat[t] # "CLOSE"
  /\ LET m  == s.pending[t]
         z1 == Close(s, t)
         z2 == IF m = None THEN z1 ELSE [LeaveWaiters(z1, t, m) EXCEPT !.pending[t] = None]
     IN  s' = [z2 EXCEPT !.hold = [l \in Mutex |-> IF l \in ToSet(s.taken[t]) THEN 1 ELSE @[l]]]
  /\ armed' = [armed EXCEPT ![t] = FALSE]
  /\ UNCHANGED <<pc, arg, err, live>>

(* _thread_detach_from_mutex: the mutexes of t are handed over, the latest  *)
(* first.                                                                   *)
ReleaseAll(z, t) ==
  LET q == z.taken[t]
      given[n \in 0 .. Len(q)] == IF n = 0 THEN z ELSE ReleaseLast(given[n - 1], t, q[n])
  IN  given[Len(q)]

(* _thread_exit *)
Exit ==
  /\ Calls /\ self \in Mortal
  /\ s' = Resched(ReleaseAll(Close(s, self), self))
  /\ armed' = [t \in Thread |-> armed[t] /\ \A m \in ToSet(s.taken[self]) : t \notin Next1(m)]
  /\ UNCHANGED <<pc, arg, err, live>>

(* rt_thread_mdelay *)
Sleep ==
  /\ "sleep" \in Ops /\ Calls
  /\ s' = Resched([s EXCEPT !.k = SuspendThread(@, self)])
  /\ armed' = [armed EXCEPT ![self] = TRUE]
  /\ UNCHANGED <<pc, arg, err, live>>

(* rt_thread_resume of a suspended thread, whatever it waits for.           *)
Resume(t) ==
  /\ "resume" \in Ops /\ Calls /\ IsSuspended(s.k, t)
  /\ s' = Resched(Ready(s, t))
  /\ armed' = [armed EXCEPT ![t] = FALSE]
  /\ UNCHANGED <<pc, arg, err, live>>

(* _thread_timeout, in the tick interrupt.  The error number of a sleep is  *)
(* cleared when the sleep returns.                                          *)
Timeout(t) ==
  /\ armed[t]
  /\ s' = Resched([Dequeue(s, t) EXCEPT !.k = InsertThread(@, t)])
  /\ err' = IF pc[t] = "run" THEN err ELSE [err EXCEPT ![t] = "ETIMEOUT"]
  /\ armed' = [armed EXCEPT ![t] = FALSE]
  /\ UNCHANGED <<pc, arg, live>>

-----------------------------------------------------------------------------
Next ==
  \/ \E m \in Mutex : \/ TakeAgain(m) \/ TakeFree(m) \/ Release(m) \/ Detach(m)
                      \/ \E w \in Waits : TakeBusy(m, w)
                      \/ \E p \in Ceilings : SetCeiling(m, p)
  \/ TakeSchedule \/ TakeReturn \/ Exit \/ Sleep
  \/ \E t \in Thread : Delete(t) \/ Resume(t) \/ Timeout(t)

Spec == Init /\ [][Next]_vars

(* Calls finish, timers fire, and a mutex whose owner runs again and again  *)
(* is released in the end: the program's part of the bargain.               *)
Fairness ==
  /\ WF_vars(TakeSchedule \/ TakeReturn)
  /\ \A t \in Thread \ {Idle} : WF_vars(Timeout(t))
  /\ \A m \in Mutex : SF_vars(Release(m))

FairSpec == Spec /\ Fairness

-----------------------------------------------------------------------------
(* Properties. *)

Alive(t) == s.k.stat[t] # "CLOSE"
Waiters(m) == ToSet(s.queue[m])
InTake(t) == Alive(t) /\ pc[t] # "run"

(* The three records of who owns a mutex agree: the owner, the hold count   *)
(* and the lists of taken mutexes; no thread leaves or dies leaving them    *)
(* apart.                                                                   *)
OwnerOK ==
  \A m \in live :
    /\ s.owner[m] = None <=> s.hold[m] = 0
    /\ \A t \in Thread : m \in ToSet(s.taken[t]) <=> s.owner[m] = t

(* A thread asleep in rt_mutex_take is among the waiters of its mutex, once,*)
(* and that mutex has an owner who can wake it; no other thread is.         *)
WaitOK ==
  /\ \A t \in Thread, m \in Mutex :
       t \in Waiters(m) <=> InTake(t) /\ IsSuspended(s.k, t) /\ arg[t] = m
  /\ \A m \in Mutex :
       /\ IsInjective(s.queue[m])
       /\ s.queue[m] # <<>> => m \in live /\ s.owner[m] # None
       /\ \A t \in Waiters(m) : s.pending[t] = m

(* The assertions of thread.c:163 and ipc.c:1459: a running thread timer is *)
(* that of a suspended thread, and a wait that ended with an error did not  *)
(* also get the mutex.                                                      *)
AssertsOK ==
  \A t \in Thread :
    /\ armed[t] => IsSuspended(s.k, t)
    /\ InTake(t) /\ s.owner[arg[t]] = t => err[t] = "EOK" /\ s.pending[t] = None

(* Priority inheritance: an owner never has a lower priority than a thread  *)
(* that waits for one of its mutexes, directly or through other owners, as  *)
(* long as no mutex has been detached: _mutex_before_delete_detach lowers   *)
(* an owner that waits itself without moving it in the list it waits in,    *)
(* which the hand-over then takes for the order of priorities.              *)
NoInversion ==
  live = Mutex => \A m \in live : \A w \in Waiters(m) : s.k.cprio[s.owner[m]] <= s.k.cprio[w]

(* Boosts end where they should: once every thread whose wait failed has    *)
(* returned from rt_mutex_take, the waiters of a mutex stand in the order   *)
(* of their priorities, the mutex has recorded that of the first, and no    *)
(* thread has a higher priority than its initial one and its mutexes call   *)
(* for.                                                                     *)
Sorted(m) ==
  \A i, j \in DOMAIN s.queue[m] : i < j => s.k.cprio[s.queue[m][i]] <= s.k.cprio[s.queue[m][j]]

Settled == \A t \in Thread : InTake(t) => IsSuspended(s.k, t) \/ s.owner[arg[t]] = t

NoExcess ==
  Settled =>
    /\ \A m \in live : Sorted(m) /\ s.prio[m] = UpdateMutex(s, m).prio[m]
    /\ \A t \in Thread : Alive(t) => s.k.cprio[t] >= MutexPriority(s, t)

(* The thread in its own code is a runnable one of the highest priority:    *)
(* takes, releases, sleeps, resumptions, time-outs and exits reschedule     *)
(* where they must.  Only the calls that set a ceiling, detach a mutex or   *)
(* delete a thread, which change priorities and wake threads without        *)
(* rescheduling, and, once a ceiling was set or a mutex detached, the end   *)
(* of a wait, when the owner gets a boost it lacked, may leave a more       *)
(* urgent thread waiting for the CPU.                                       *)
HighestRuns == s.k.nest = 0 => HighestCurrent(s.k)

Unboosted == live # Mutex \/ \E m \in Mutex : s.ceil[m] # NoPrio

Unscheduled ==
  \/ \E m \in Mutex : Detach(m) \/ \E p \in Ceilings : SetCeiling(m, p)
  \/ \E t \in Thread : Delete(t)
  \/ TakeReturn /\ Unboosted

HighestKept == [][HighestRuns => HighestRuns' \/ Unscheduled]_vars

(* No unbounded priority inversion: a thread of the highest priority gets   *)
(* the mutex it waits for, though threads of middle priority may compute    *)
(* for ever and the owner itself waits for other owners.                    *)
TopServed == InTake(Top) ~> ~ InTake(Top)

(* A mutex passed on goes to a waiter of the highest priority, whatever     *)
(* inheritance did to the priorities while they waited, as long as no mutex *)
(* has been detached (see NoInversion).                                     *)
HandedToHighest ==
  [][live = Mutex =>
       \A m \in Mutex : LET n == s'.owner[m]
                        IN  n \notin {None, s.owner[m]} /\ s.owner[m] # None =>
                              n \in Waiters(m) /\ \A w \in Waiters(m) : s.k.cprio[n] <= s.k.cprio[w]]_vars
=============================================================================
