----------------------------- MODULE MutexProofs -----------------------------
(***************************************************************************)
(* The mutex for any number of threads, mutexes and priorities: the        *)
(* records of ownership agree, sleepers stand in the list of an owned      *)
(* mutex, timers run for suspended threads only, and, with mutexes taken   *)
(* in a strict order, no owner is less urgent than a thread that waits     *)
(* for it, a mutex goes to one of the most urgent of its waiters, and the  *)
(* most urgent thread keeps the CPU.                                       *)
(***************************************************************************)
EXTENDS Mutex, KernelProofs

(* The lists of waiters: a thread is in the list of the mutex it waits for  *)
(* while it is suspended there, once, and someone owns that mutex.          *)
QueuesOK(z) ==
  /\ z \in State /\ KernelOK(z.k)
  /\ \A m \in Mutex :
       /\ IsInjective(z.queue[m])
       /\ z.queue[m] # <<>> => z.owner[m] # None
       /\ \A t \in Thread :
            t \in ToSet(z.queue[m]) <=> IsSuspended(z.k, t) /\ z.pending[t] = m

(* r is z with other priorities, and perhaps another order of the waiters.  *)
Adjusted(z, r) ==
  /\ QueuesOK(r)
  /\ r.k.cur = z.k.cur /\ r.k.nest = z.k.nest /\ r.k.stat = z.k.stat
  /\ r.k.iprio = z.k.iprio
  /\ r.owner = z.owner /\ r.hold = z.hold /\ r.ceil = z.ceil
  /\ r.taken = z.taken /\ r.pending = z.pending
  /\ \A m \in Mutex : ToSet(r.queue[m]) = ToSet(z.queue[m])

(* The fields of a state have their types.                                  *)
LEMMA StateFields ==
  ASSUME NEW z \in State
  PROVE  /\ z.k \in KState
         /\ z.owner \in [Mutex -> Thread \cup {None}]
         /\ z.hold \in [Mutex -> 0 .. HoldMax]
         /\ z.prio \in [Mutex -> Prio \cup {NoPrio}]
         /\ z.ceil \in [Mutex -> Prio \cup {NoPrio}]
         /\ z.queue \in [Mutex -> Seq(Thread)]
         /\ z.taken \in [Thread -> Seq(Mutex)]
         /\ z.pending \in [Thread -> Mutex \cup {None}]
         /\ None \notin Thread /\ None \notin Mutex
         /\ z.k.cprio \in [Thread -> Prio] /\ z.k.iprio \in [Thread -> Prio]
         /\ z.k.cur \in Thread /\ z.k.stat \in [Thread -> Stat]
  BY MutexAssumption DEF State, KState

(* The priorities are numbers below the mark for none.                      *)
LEMMA PrioNat == Prio \subseteq Nat /\ NoPrio \in Nat /\ \A p \in Prio : p < NoPrio
  BY KernelAssumption, MutexAssumption DEF Prio, NoPrio

-----------------------------------------------------------------------------
(* The lists. *)

(* rt_list_remove takes the thread from the list it is in.                  *)
LEMMA DequeueKeeps ==
  ASSUME NEW z \in State, \A m \in Mutex : IsInjective(z.queue[m]), NEW t \in Thread
  PROVE  LET r == Dequeue(z, t)
         IN  /\ r = [z EXCEPT !.queue = r.queue] /\ r \in State
             /\ \A m \in Mutex : /\ IsInjective(r.queue[m])
                                 /\ ToSet(r.queue[m]) = ToSet(z.queue[m]) \ {t}
                                 /\ r.queue[m] = RemoveFirst(z.queue[m], t)
<1> DEFINE q == [m \in Mutex |-> RemoveFirst(z.queue[m], t)]
<1>1. \A m \in Mutex : /\ q[m] \in Seq(Thread) /\ IsInjective(q[m])
                       /\ ToSet(q[m]) = ToSet(z.queue[m]) \ {t}
  BY RemoveFirstProperties, StateFields
<1>2. q \in [Mutex -> Seq(Thread)]
  BY <1>1
<1>3. Dequeue(z, t) = [z EXCEPT !.queue = q]
  BY DEF Dequeue
<1>4. \A m \in Mutex : q[m] = RemoveFirst(z.queue[m], t)
  OBVIOUS
<1> HIDE DEF q
<1>5. [z EXCEPT !.queue = q] \in State /\ [z EXCEPT !.queue = q].queue = q
  BY <1>2 DEF State
<1> QED BY <1>1, <1>3, <1>4, <1>5

(* The waiters rt_susp_list_enqueue passes.                                 *)
Ahead(z, m, t) ==
  LET q == z.queue[m]
  IN  {i \in DOMAIN q : \A j \in 1 .. i : z.k.cprio[q[j]] <= z.k.cprio[t]}

(* rt_susp_list_enqueue puts the thread at a place of the list, or at its   *)
(* end.                                                                     *)
LEMMA EnqueuePlace ==
  ASSUME NEW z \in State, NEW m \in Mutex, NEW t \in Thread
  PROVE  /\ Cardinality(Ahead(z, m, t)) + 1 \in 1 .. Len(z.queue[m]) + 1
         /\ Enqueue(z, m, t) =
              [z EXCEPT !.queue[m] = InsertAt(z.queue[m], Cardinality(Ahead(z, m, t)) + 1, t)]
<1> DEFINE n == Len(z.queue[m])
           A == Ahead(z, m, t)
<1>1. n \in Nat /\ A \in SUBSET (1 .. n)
  BY StateFields DEF Ahead
<1> HIDE DEF n, A
<1>2. IsFiniteSet(1 .. n) /\ Cardinality(1 .. n) = n
  BY <1>1, FS_Interval
<1>3. Cardinality(A) \in Nat /\ Cardinality(A) <= n
  BY <1>1, <1>2, FS_Subset, FS_CardinalityType
<1>4. Cardinality(A) + 1 \in 1 .. n + 1
  BY <1>1, <1>3
<1> QED BY <1>4 DEF n, A, Enqueue, Ahead

(* The thread is afterwards in the list.                                    *)
LEMMA EnqueueKeeps ==
  ASSUME NEW z \in State, \A m \in Mutex : IsInjective(z.queue[m]),
         NEW m \in Mutex, NEW t \in Thread, t \notin ToSet(z.queue[m])
  PROVE  LET r == Enqueue(z, m, t)
         IN  /\ r = [z EXCEPT !.queue = r.queue] /\ r \in State
             /\ \A l \in Mutex : /\ IsInjective(r.queue[l])
                                 /\ l # m => r.queue[l] = z.queue[l]
             /\ ToSet(r.queue[m]) = ToSet(z.queue[m]) \cup {t}
<1> DEFINE q == z.queue[m]
           n == Cardinality(Ahead(z, m, t)) + 1
           r == Enqueue(z, m, t)
           i == InsertAt(q, n, t)
<1>1. q \in Seq(Thread) /\ IsInjective(q) /\ t \notin ToSet(q)
  BY StateFields
<1>2. n \in 1 .. Len(q) + 1 /\ r = [z EXCEPT !.queue[m] = i]
  BY EnqueuePlace
<1> HIDE DEF n, q, r
<1>3. i \in Seq(Thread) /\ ToSet(i) = ToSet(q) \cup {t}
  BY <1>1, <1>2, InsertAtProperties
<1>4. IsInjective(i)
  BY <1>1, <1>2, InsertAtInjective
<1> HIDE DEF i
<1>5. /\ r \in State /\ r.queue = [z.queue EXCEPT ![m] = i] /\ r = [z EXCEPT !.queue = r.queue]
  BY <1>2, <1>3 DEF State
<1>6. r.queue[m] = i /\ \A l \in Mutex : l # m => r.queue[l] = z.queue[l]
  BY <1>5, StateFields
<1> QED BY <1>3, <1>4, <1>5, <1>6 DEF q, r

(* _mutex_update_priority changes one field.                                *)
LEMMA UpdateMutexAdjusts ==
  ASSUME NEW z, QueuesOK(z), NEW m \in Mutex
  PROVE  LET r == UpdateMutex(z, m)
         IN  /\ Adjusted(z, r) /\ r.k = z.k /\ r.queue = z.queue
             /\ \A l \in Mutex : l # m => r.prio[l] = z.prio[l]
             /\ r.prio[m] = IF z.queue[m] = <<>> THEN NoPrio ELSE z.k.cprio[Head(z.queue[m])]
<1> DEFINE p == IF z.queue[m] = <<>> THEN NoPrio ELSE z.k.cprio[Head(z.queue[m])]
           r == UpdateMutex(z, m)
<1>1. z \in State
  BY DEF QueuesOK
<1>2. p \in Prio \cup {NoPrio}
  <2>1. z.queue[m] # <<>> => Head(z.queue[m]) \in Thread
    BY <1>1, StateFields, EmptyList
  <2> QED BY <1>1, <2>1, StateFields
<1>3. r = [z EXCEPT !.prio[m] = p]
  BY DEF UpdateMutex
<1> HIDE DEF p
<1>4. r \in State
  <2>1. [z.prio EXCEPT ![m] = p] \in [Mutex -> Prio \cup {NoPrio}]
    BY <1>1, <1>2, StateFields
  <2>2. r = [z EXCEPT !.prio = [z.prio EXCEPT ![m] = p]]
    BY <1>3
  <2> HIDE DEF r
  <2> QED BY <1>1, <2>1, <2>2 DEF State
<1>5. /\ r.k = z.k /\ r.queue = z.queue /\ r.owner = z.owner /\ r.hold = z.hold
      /\ r.ceil = z.ceil /\ r.taken = z.taken /\ r.pending = z.pending
      /\ r.prio = [z.prio EXCEPT ![m] = p]
  BY <1>1, <1>3 DEF State
<1> HIDE DEF r
<1>6. QueuesOK(r)
  BY <1>4, <1>5 DEF QueuesOK
<1>7. r.prio[m] = p /\ \A l \in Mutex : l # m => r.prio[l] = z.prio[l]
  BY <1>1, <1>5, StateFields
<1> QED BY <1>5, <1>6, <1>7 DEF Adjusted, r, p

(* rt_sched_thread_change_priority moves a READY thread, but no waiter.     *)
LEMMA SetThreadAdjusts ==
  ASSUME NEW z, QueuesOK(z), NEW t \in Thread, NEW p \in Prio
  PROVE  LET r == SetThread(z, t, p)
         IN  /\ Adjusted(z, r) /\ r.queue = z.queue /\ r.prio = z.prio
             /\ r.k.cprio = [z.k.cprio EXCEPT ![t] = p]
<1> DEFINE c == ChangePriority(z.k, t, p)
           r == SetThread(z, t, p)
<1>1. z \in State /\ KernelOK(z.k) /\ z.k \in KState
  BY StateFields DEF QueuesOK
<1>2. /\ KernelOK(c) /\ c \in KState /\ c.cur = z.k.cur /\ c.nest = z.k.nest
  BY <1>1, ChangePriorityKeeps DEF KernelOK
<1>3. /\ c.iprio = z.k.iprio /\ c.stat = z.k.stat
      /\ c.cprio = [z.k.cprio EXCEPT ![t] = p]
  BY <1>1, ChangePriorityFrame DEF KernelOK, QueueOK
<1>4. r = [z EXCEPT !.k = c]
  BY DEF SetThread
<1> HIDE DEF c
<1>5. r \in State
  BY <1>1, <1>2, <1>4 DEF State
<1>6. /\ r.k = c /\ r.queue = z.queue /\ r.owner = z.owner /\ r.hold = z.hold
      /\ r.ceil = z.ceil /\ r.taken = z.taken /\ r.pending = z.pending
      /\ r.prio = z.prio
  BY <1>1, <1>4 DEF State
<1> HIDE DEF r
<1>7. QueuesOK(r)
  BY <1>2, <1>3, <1>5, <1>6 DEF QueuesOK, IsSuspended
<1> QED BY <1>2, <1>3, <1>6, <1>7 DEF Adjusted, r

(* Moving a waiter in the list it is in.                                    *)
LEMMA ResortAdjusts ==
  ASSUME NEW z, QueuesOK(z), NEW m \in Mutex, NEW t \in Thread, t \in ToSet(z.queue[m])
  PROVE  LET r == Enqueue(Dequeue(z, t), m, t)
         IN  /\ Adjusted(z, r) /\ r.k = z.k /\ r.prio = z.prio
             /\ \A l \in Mutex : l # m => r.queue[l] = z.queue[l]
<1> DEFINE d == Dequeue(z, t)
           r == Enqueue(d, m, t)
<1>1. /\ z \in State /\ KernelOK(z.k)
      /\ \A l \in Mutex : IsInjective(z.queue[l])
  BY DEF QueuesOK
<1>2. /\ d = [z EXCEPT !.queue = d.queue] /\ d \in State
      /\ \A l \in Mutex : /\ IsInjective(d.queue[l])
                          /\ ToSet(d.queue[l]) = ToSet(z.queue[l]) \ {t}
                          /\ d.queue[l] = RemoveFirst(z.queue[l], t)
  BY <1>1, DequeueKeeps
<1> HIDE DEF d
<1>3. /\ r = [d EXCEPT !.queue = r.queue] /\ r \in State
      /\ \A l \in Mutex : IsInjective(r.queue[l]) /\ (l # m => r.queue[l] = d.queue[l])
      /\ ToSet(r.queue[m]) = ToSet(d.queue[m]) \cup {t}
  <2>1. d \in State /\ (\A l \in Mutex : IsInjective(d.queue[l])) /\ t \notin ToSet(d.queue[m])
    BY <1>2
  <2> QED BY <2>1, EnqueueKeeps
<1> HIDE DEF r
<1>4. ASSUME NEW l \in Mutex, l # m PROVE d.queue[l] = z.queue[l]
  <2>1. t \notin ToSet(z.queue[l])
    BY <1>4 DEF QueuesOK
  <2>2. z.queue[l] \in Seq(Thread)
    BY <1>1, StateFields
  <2> QED BY <1>2, <2>1, <2>2, RemoveAbsent
<1>5. \A l \in Mutex : ToSet(r.queue[l]) = ToSet(z.queue[l])
  BY <1>2, <1>3, <1>4
<1>6. /\ r.k = z.k /\ r.owner = z.owner /\ r.hold = z.hold /\ r.prio = z.prio
      /\ r.ceil = z.ceil /\ r.taken = z.taken /\ r.pending = z.pending
  <2>1. /\ d.k = z.k /\ d.owner = z.owner /\ d.hold = z.hold /\ d.prio = z.prio
        /\ d.ceil = z.ceil /\ d.taken = z.taken /\ d.pending = z.pending
    BY <1>1, <1>2 DEF State
  <2>2. /\ r.k = d.k /\ r.owner = d.owner /\ r.hold = d.hold /\ r.prio = d.prio
        /\ r.ceil = d.ceil /\ r.taken = d.taken /\ r.pending = d.pending
    BY <1>2, <1>3 DEF State
  <2> QED BY <2>1, <2>2
<1>7. QueuesOK(r)
  <2>1. ASSUME NEW l \in Mutex PROVE r.queue[l] = <<>> <=> z.queue[l] = <<>>
    BY <1>1, <1>3, <1>5, StateFields, EmptyList
  <2> QED BY <1>1, <1>3, <1>5, <1>6, <2>1 DEF QueuesOK
<1> QED BY <1>3, <1>4, <1>5, <1>6, <1>7 DEF Adjusted, r, d

(* _thread_get_mutex_priority: the most urgent of the priorities that count *)
(* exists.                                                                  *)
LEMMA MutexPriorityLeast ==
  ASSUME NEW z \in State, NEW t \in Thread
  PROVE  /\ MutexPriority(z, t) \in Prio
         /\ MutexPriority(z, t) <= z.k.iprio[t]
         /\ \A m \in ToSet(z.taken[t]) : MutexPriority(z, t) <= z.prio[m]
         /\ \A p \in Prio :
              /\ p <= z.k.iprio[t]
              /\ \A m \in ToSet(z.taken[t]) : p <= z.prio[m] /\ p <= z.ceil[m]
              => p <= MutexPriority(z, t)
<1> DEFINE held == ToSet(z.taken[t])
           i == z.k.iprio[t]
           all == {i} \cup {Lower(z.prio[m], z.ceil[m]) : m \in held}
           least == CHOOSE p \in all : \A q \in all : p <= q
<1>1. i \in Prio /\ held \subseteq Mutex
  BY StateFields, EmptyList
<1>2. ASSUME NEW m \in held
      PROVE  /\ Lower(z.prio[m], z.ceil[m]) \in {z.prio[m], z.ceil[m]}
             /\ Lower(z.prio[m], z.ceil[m]) \in Nat /\ z.prio[m] \in Nat
             /\ Lower(z.prio[m], z.ceil[m]) <= z.prio[m]
             /\ Lower(z.prio[m], z.ceil[m]) \in all
  <2>1. z.prio[m] \in Prio \cup {NoPrio} /\ z.ceil[m] \in Prio \cup {NoPrio}
    BY <1>1, StateFields
  <2>2. z.prio[m] \in Nat /\ z.ceil[m] \in Nat
    BY <2>1, PrioNat
  <2> QED BY <2>2 DEF Lower
<1>3. all \in SUBSET Nat /\ all # {}
  BY <1>1, <1>2, PrioNat
<1> HIDE DEF all
<1>4. least \in all /\ \A q \in all : least <= q
  BY <1>3, LeastPrio
<1>5. MutexPriority(z, t) = least
  BY DEF MutexPriority, all
<1> HIDE DEF least
<1>6. least \in Nat /\ i \in all /\ least <= i
  <2>1. i \in all
    BY DEF all
  <2> QED BY <1>3, <1>4, <2>1
<1>7. least \in Prio
  BY <1>1, <1>6, KernelAssumption DEF Prio
<1>8. ASSUME NEW m \in held PROVE least <= z.prio[m]
  BY <1>2, <1>4, <1>6
<1>9. ASSUME NEW p \in Prio, p <= i, \A m \in held : p <= z.prio[m] /\ p <= z.ceil[m]
      PROVE  p <= least
  <2>1. CASE least = i
    BY <1>9, <2>1
  <2>2. CASE \E m \in held : least = Lower(z.prio[m], z.ceil[m])
    BY <1>2, <1>9, <2>2
  <2> QED BY <1>4, <2>1, <2>2 DEF all
<1> QED BY <1>5, <1>6, <1>7, <1>8, <1>9

-----------------------------------------------------------------------------
(* Changing priorities. *)

(* Leaving the priorities alone is an adjustment.                           *)
LEMMA AdjustedSelf == ASSUME NEW z, QueuesOK(z) PROVE Adjusted(z, z)
  BY DEF Adjusted

(* Two adjustments in a row are one.                                        *)
LEMMA AdjustedTwice ==
  ASSUME NEW x, NEW y, NEW z, Adjusted(x, y), Adjusted(y, z)
  PROVE  Adjusted(x, z)
  BY DEF Adjusted

(* The state of the loop in _thread_update_priority.                        *)
Turn == [z : State, t : Thread, changed : BOOLEAN]

(* A thread that waits for a mutex waits for one that has an owner.         *)
LEMMA OwnerOfPending ==
  ASSUME NEW z, QueuesOK(z), NEW t \in Thread, IsSuspended(z.k, t), z.pending[t] # None
  PROVE  /\ z.pending[t] \in Mutex /\ t \in ToSet(z.queue[z.pending[t]])
         /\ z.owner[z.pending[t]] \in Thread
<1> DEFINE m == z.pending[t]
<1>1. z \in State /\ m \in Mutex
  BY StateFields DEF QueuesOK
<1>2. t \in ToSet(z.queue[m])
  BY <1>1 DEF QueuesOK
<1>3. z.queue[m] # <<>>
  BY <1>1, <1>2, StateFields, EmptyList
<1>4. z.owner[m] \in Thread
  BY <1>1, <1>3, StateFields DEF QueuesOK
<1> QED BY <1>1, <1>2, <1>4

(* One turn of that loop.                                                   *)
LEMMA PropagateAdjusts ==
  ASSUME NEW l \in Turn, QueuesOK(l.z)
  PROVE  Propagate(l) \in Turn /\ Adjusted(l.z, Propagate(l).z)
<1> DEFINE m  == l.z.pending[l.t]
           o  == l.z.owner[m]
           z0 == Enqueue(Dequeue(l.z, l.t), m, l.t)
           z1 == UpdateMutex(z0, m)
           p  == MutexPriority(z1, o)
           z2 == SetThread(z1, o, p)
<1>1. CASE l.changed /\ IsSuspended(l.z.k, l.t) /\ l.z.pending[l.t] # None
  <2>1. l.t \in Thread /\ m \in Mutex /\ l.t \in ToSet(l.z.queue[m]) /\ o \in Thread
    BY <1>1, OwnerOfPending DEF Turn
  <2> HIDE DEF m, o
  <2>2. Adjusted(l.z, z0)
    BY <2>1, ResortAdjusts
  <2> HIDE DEF z0
  <2>3. Adjusted(l.z, z1)
    BY <2>1, <2>2, UpdateMutexAdjusts, AdjustedTwice DEF Adjusted
  <2> HIDE DEF z1
  <2>4. z1 \in State /\ QueuesOK(z1)
    BY <2>3 DEF Adjusted, QueuesOK
  <2>5. p \in Prio
    BY <2>1, <2>4, MutexPriorityLeast
  <2> HIDE DEF p
  <2>6. Adjusted(l.z, z2) /\ z2 \in State
    <3>1. Adjusted(z1, z2)
      BY <2>1, <2>4, <2>5, SetThreadAdjusts
    <3> QED BY <2>3, <3>1, AdjustedTwice DEF Adjusted, QueuesOK
  <2> HIDE DEF z2
  <2>7. Propagate(l) = IF p # z1.k.cprio[o]
                       THEN [z |-> z2, t |-> o, changed |-> TRUE]
                       ELSE [z |-> z1, t |-> o, changed |-> FALSE]
    BY <1>1 DEF Propagate, m, o, z0, z1, p, z2
  <2> QED BY <2>1, <2>3, <2>4, <2>6, <2>7 DEF Turn
<1>2. CASE ~ (l.changed /\ IsSuspended(l.z.k, l.t) /\ l.z.pending[l.t] # None)
  <2>1. Propagate(l) = [l EXCEPT !.changed = FALSE]
    BY <1>2 DEF Propagate
  <2> QED BY <2>1, AdjustedSelf DEF Turn
<1> QED BY <1>1, <1>2

(* The loop itself: its turns one after the other, each of which leaves the *)
(* lists in order.                                                          *)
LEMMA UpdatePriorityTurns ==
  ASSUME NEW z, QueuesOK(z), NEW t \in Thread, NEW p \in Prio
  PROVE  \E f :
           /\ f[0] = [z |-> SetThread(z, t, p), t |-> t, changed |-> TRUE]
           /\ \A n \in 1 .. Cardinality(Mutex) : f[n] = Propagate(f[n - 1])
           /\ \A n \in 0 .. Cardinality(Mutex) :
                f[n] \in Turn /\ QueuesOK(f[n].z) /\ Adjusted(z, f[n].z)
           /\ UpdatePriority(z, t, p) = f[Cardinality(Mutex)].z
<1> DEFINE N == Cardinality(Mutex)
           a == [z |-> SetThread(z, t, p), t |-> t, changed |-> TRUE]
           Good == {l \in Turn : QueuesOK(l.z) /\ Adjusted(z, l.z)}
           g == [n \in 1 .. N |-> [l \in Good |-> Propagate(l)]]
           IsRun(f) == f = [n \in 0 .. N |-> IF n = 0 THEN a ELSE Propagate(f[n - 1])]
           turn == CHOOSE f : IsRun(f)
<1>1. N \in Nat
  BY MutexAssumption, FS_CardinalityType
<1>2. a \in Good
  <2>2. Adjusted(z, SetThread(z, t, p))
    BY SetThreadAdjusts
  <2>1. Adjusted(z, SetThread(z, t, p)) /\ QueuesOK(SetThread(z, t, p))
    BY <2>2 DEF Adjusted
  <2> QED BY <2>1 DEF Turn, QueuesOK
<1>3. \A l \in Good : Propagate(l) \in Good
  <2> SUFFICES ASSUME NEW l \in Turn, QueuesOK(l.z), Adjusted(z, l.z)
               PROVE  Propagate(l) \in Good
    OBVIOUS
  <2>1. Propagate(l) \in Turn /\ Adjusted(l.z, Propagate(l).z)
    BY PropagateAdjusts
  <2>2. Adjusted(z, Propagate(l).z) /\ QueuesOK(Propagate(l).z)
    BY <2>1, AdjustedTwice DEF Adjusted
  <2> QED BY <2>1, <2>2
<1>4. UpdatePriority(z, t, p) = turn[N].z
  BY DEF UpdatePriority
<1> HIDE DEF N, a, Good
<1>5. \E f : IsRun(f)
  <2>2. \A n \in 1 .. N : \A l \in Good : g[n][l] = Propagate(l)
    OBVIOUS
  <2> HIDE DEF g
  <2>9. LoopRuns(N, a, g)
    BY <1>1, LoopExists
  <2>1. PICK f : /\ f = [n \in 0 .. N |-> f[n]]
                 /\ f[0] = a /\ \A n \in 1 .. N : f[n] = g[n][f[n - 1]]
    BY <2>9 DEF LoopRuns
  <2>3. f[0] = a /\ \A n \in 1 .. N : f[n] = g[n][f[n - 1]]
    BY <2>1
  <2> DEFINE P == [n \in 0 .. N |-> Good]
  <2>4. \A n \in 0 .. N : f[n] \in P[n]
    <3>1. f[0] \in P[0] /\ \A n \in 1 .. N : f[n - 1] \in P[n - 1] => f[n] \in P[n]
      BY <1>1, <1>2, <1>3, <2>2, <2>3
    <3> HIDE DEF P
    <3> QED BY <1>1, <3>1, LoopKeeps
  <2>5. \A n \in 1 .. N : f[n] = Propagate(f[n - 1])
    BY <1>1, <2>2, <2>3, <2>4
  <2> DEFINE h == [n \in 0 .. N |-> IF n = 0 THEN a ELSE Propagate(f[n - 1])]
  <2>6. f = [n \in 0 .. N |-> f[n]] /\ h = [n \in 0 .. N |-> h[n]]
    BY <2>1
  <2>7. \A n \in 0 .. N : h[n] = f[n]
    BY <2>3, <2>5
  <2> HIDE DEF h
  <2>8. f = h
    BY <2>6, <2>7
  <2> QED BY <2>8 DEF h
<1>6. turn = [n \in 0 .. N |-> IF n = 0 THEN a ELSE Propagate(turn[n - 1])]
  BY <1>5
<1> HIDE DEF turn
<1>7. turn[0] = a /\ \A n \in 1 .. N : turn[n] = Propagate(turn[n - 1])
  BY <1>1, <1>6
<1>8. \A n \in 0 .. N : turn[n] \in Good
  <2> DEFINE P == [n \in 0 .. N |-> Good]
  <2>1. turn[0] \in P[0] /\ \A n \in 1 .. N : turn[n - 1] \in P[n - 1] => turn[n] \in P[n]
    BY <1>1, <1>2, <1>3, <1>7
  <2> HIDE DEF P
  <2>2. \A n \in 0 .. N : turn[n] \in P[n]
    BY <1>1, <2>1, LoopKeeps
  <2> QED BY <2>2 DEF P
<1> QED BY <1>1, <1>4, <1>7, <1>8 DEF N, a, Good

(* _thread_update_priority, and the calls of it.                            *)
LEMMA UpdatePriorityAdjusts ==
  ASSUME NEW z, QueuesOK(z), NEW t \in Thread, NEW p \in Prio
  PROVE  Adjusted(z, UpdatePriority(z, t, p))
<1>1. Cardinality(Mutex) \in 0 .. Cardinality(Mutex)
  BY MutexAssumption, FS_CardinalityType
<1> QED BY <1>1, UpdatePriorityTurns

(* Giving a thread the priority its mutexes call for.                       *)
LEMMA RefreshAdjusts ==
  ASSUME NEW z, QueuesOK(z), NEW t \in Thread
  PROVE  Adjusted(z, Refresh(z, t))
<1>1. MutexPriority(z, t) \in Prio
  BY MutexPriorityLeast DEF QueuesOK
<1> QED BY <1>1, UpdatePriorityAdjusts, AdjustedSelf DEF Refresh

(* _check_and_update_prio                                                   *)
LEMMA RestoreAdjusts ==
  ASSUME NEW z, QueuesOK(z), NEW t \in Thread, NEW m \in Mutex
  PROVE  Adjusted(z, Restore(z, t, m)) /\ Restore(z, t, m).queue = z.queue
<1>1. MutexPriority(z, t) \in Prio
  BY MutexPriorityLeast DEF QueuesOK
<1> QED BY <1>1, SetThreadAdjusts, AdjustedSelf DEF Restore

(* The end of a wait that failed.                                           *)
LEMMA LeaveWaitersAdjusts ==
  ASSUME NEW z, QueuesOK(z), NEW t \in Thread, NEW m \in Mutex
  PROVE  Adjusted(z, LeaveWaiters(z, t, m))
<1> DEFINE z1 == UpdateMutex(z, m)
           o == z.owner[m]
<1>1. Adjusted(z, z1) /\ QueuesOK(z1)
  BY UpdateMutexAdjusts DEF Adjusted
<1>2. o # None => o \in Thread
  BY StateFields DEF QueuesOK
<1> HIDE DEF z1
<1>3. o # None => Adjusted(z, Refresh(z1, o))
  BY <1>1, <1>2, RefreshAdjusts, AdjustedTwice
<1> QED BY <1>1, <1>3 DEF LeaveWaiters, z1

(* The boost of the owner by a new waiter.                                  *)
LEMMA InheritAdjusts ==
  ASSUME NEW z, QueuesOK(z), NEW t \in Thread, NEW m \in Mutex, z.owner[m] # None
  PROVE  Adjusted(z, Inherit(z, t, m))
<1> DEFINE p == z.k.cprio[t]
           z1 == [z EXCEPT !.prio[m] = p]
           o == z.owner[m]
<1>1. z \in State /\ p \in Prio /\ o \in Thread
  BY StateFields DEF QueuesOK
<1>2. z1 \in State
  <2>1. [z.prio EXCEPT ![m] = p] \in [Mutex -> Prio \cup {NoPrio}]
    BY <1>1, StateFields
  <2> HIDE DEF p
  <2>2. z1 = [z EXCEPT !.prio = [z.prio EXCEPT ![m] = p]]
    OBVIOUS
  <2> HIDE DEF z1
  <2> QED BY <1>1, <2>1, <2>2 DEF State
<1>3. /\ z1.k = z.k /\ z1.queue = z.queue /\ z1.owner = z.owner /\ z1.hold = z.hold
      /\ z1.ceil = z.ceil /\ z1.taken = z.taken /\ z1.pending = z.pending
  BY <1>1 DEF State
<1>4. Inherit(z, t, m) \in {z, z1, UpdatePriority(z1, o, p)}
  BY <1>3 DEF Inherit
<1> HIDE DEF z1
<1>5. QueuesOK(z1) /\ Adjusted(z, z1)
  BY <1>2, <1>3 DEF QueuesOK, Adjusted
<1>6. Adjusted(z, UpdatePriority(z1, o, p))
  BY <1>1, <1>5, UpdatePriorityAdjusts, AdjustedTwice
<1> QED BY <1>4, <1>5, <1>6, AdjustedSelf

-----------------------------------------------------------------------------
(* Waking, rescheduling and handing over. *)

(* The three records of who owns a mutex, l being the mutexes there are.    *)
Owned(z, l) ==
  /\ \A m \in l : z.owner[m] = None <=> z.hold[m] = 0
  /\ \A m \in Mutex, t \in Thread : m \in ToSet(z.taken[t]) <=> m \in l /\ z.owner[m] = t
  /\ \A t \in Thread : IsInjective(z.taken[t])
  /\ \A m \in Mutex : z.queue[m] # <<>> => m \in l

(* What pending_object says of a thread that stands at p in rt_mutex_take   *)
(* of the mutex a, with the error number e: it is set while the thread      *)
(* waits, and until the call returns with an error; who owns the mutex has  *)
(* got it without one.                                                      *)
Calling(z, p, a, e) ==
  \A t \in Thread :
    /\ z.pending[t] # None => z.k.stat[t] # "CLOSE" /\ p[t] # "run" /\ a[t] = z.pending[t]
    /\ IsSuspended(z.k, t) /\ p[t] # "run" => z.pending[t] = a[t] /\ e[t] = "EOK"
    /\ z.k.stat[t] # "CLOSE" /\ p[t] # "run" /\ z.owner[a[t]] = t =>
         e[t] = "EOK" /\ z.pending[t] = None

(* Priorities do not matter to either.                                      *)
LEMMA AdjustedRecords ==
  ASSUME NEW z, NEW r, Adjusted(z, r), QueuesOK(z),
         NEW l, Owned(z, l), NEW p, NEW a, NEW e, Calling(z, p, a, e)
  PROVE  Owned(r, l) /\ Calling(r, p, a, e)
<1>1. \A m \in Mutex : r.queue[m] = <<>> <=> z.queue[m] = <<>>
  <2>1. z \in State /\ r \in State
    BY DEF Adjusted, QueuesOK
  <2> QED BY <2>1, StateFields, EmptyList DEF Adjusted
<1> QED BY <1>1 DEF Adjusted, Owned, Calling, IsSuspended

(* A waiter has an owner to wait for, who is somebody else.                 *)
LEMMA WaiterNotOwner ==
  ASSUME NEW z, QueuesOK(z), NEW p, NEW a, NEW e, Calling(z, p, a, e),
         NEW m \in Mutex, NEW t \in Thread, t \in ToSet(z.queue[m])
  PROVE  /\ IsSuspended(z.k, t) /\ z.pending[t] = m /\ z.owner[m] # t
         /\ z.k.stat[t] # "CLOSE" /\ p[t] # "run" /\ a[t] = m /\ e[t] = "EOK"
<1>1. IsSuspended(z.k, t) /\ z.pending[t] = m /\ m # None
  BY MutexAssumption DEF QueuesOK
<1>2. z.k.stat[t] # "CLOSE" /\ p[t] # "run" /\ a[t] = m
  BY <1>1 DEF Calling
<1>3. e[t] = "EOK" /\ z.owner[m] # t
  BY <1>1, <1>2 DEF Calling
<1> QED BY <1>1, <1>2, <1>3

(* Every thread has been started.                                           *)
Started(k) == \A t \in Thread : k.stat[t] # "INIT"

(* r is z with t woken and out of the list it waited in.                    *)
Wakes(z, r, t) ==
  /\ QueuesOK(r)
  /\ r.k.cur = z.k.cur /\ r.k.nest = z.k.nest
  /\ r.k.cprio = z.k.cprio /\ r.k.iprio = z.k.iprio
  /\ \A u \in Thread : Runnable(z.k, u) => Runnable(r.k, u)
  /\ SameClosed(z.k, r.k) /\ (Started(z.k) => Started(r.k))
  /\ \A u \in Thread : IsSuspended(r.k, u) <=> IsSuspended(z.k, u) /\ u # t
  /\ r.owner = z.owner /\ r.hold = z.hold /\ r.prio = z.prio /\ r.ceil = z.ceil
  /\ r.taken = z.taken /\ r.pending = z.pending
  /\ \A m \in Mutex : /\ r.queue[m] = RemoveFirst(z.queue[m], t)
                      /\ ToSet(r.queue[m]) = ToSet(z.queue[m]) \ {t}
                      /\ t \notin ToSet(z.queue[m]) => r.queue[m] = z.queue[m]

(* rt_sched_thread_ready of a thread in a wait list, or in none.            *)
LEMMA WakeKeeps ==
  ASSUME NEW z, QueuesOK(z), NEW t \in Thread
  PROVE  Wakes(z, Ready(z, t), t)
<1> DEFINE d == Dequeue(z, t)
           k1 == ReadyThread(z.k, t)
           r == Ready(z, t)
<1>1. /\ z \in State /\ KernelOK(z.k) /\ z.k \in KState
      /\ \A l \in Mutex : IsInjective(z.queue[l])
  BY DEF QueuesOK, KernelOK
<1>2. /\ d = [z EXCEPT !.queue = d.queue] /\ d \in State
      /\ \A l \in Mutex : /\ IsInjective(d.queue[l])
                          /\ ToSet(d.queue[l]) = ToSet(z.queue[l]) \ {t}
                          /\ d.queue[l] = RemoveFirst(z.queue[l], t)
  BY <1>1, DequeueKeeps
<1>3. /\ KernelOK(k1) /\ k1 \in KState /\ k1.cur = z.k.cur /\ k1.nest = z.k.nest
      /\ \A u \in Thread : Runnable(z.k, u) => Runnable(k1, u)
      /\ SameClosed(z.k, k1)
  BY <1>1, ReadyKeeps DEF KernelOK
<1>4. /\ k1.cprio = z.k.cprio /\ k1.iprio = z.k.iprio
      /\ \A u \in Thread \ {t} : k1.stat[u] = z.k.stat[u]
      /\ k1.stat[t] = IF ~ IsSuspended(z.k, t) THEN z.k.stat[t]
                      ELSE IF t = z.k.cur THEN "RUNNING" ELSE "READY"
  BY <1>1, ReadyFrame
<1>5. r = [d EXCEPT !.k = k1]
  <2>1. d.k = z.k
    BY <1>1, <1>2 DEF State
  <2> QED BY <2>1 DEF Ready
<1> HIDE DEF d, k1, r
<1>6. r \in State
  BY <1>2, <1>3, <1>5 DEF State
<1>7. /\ r.k = k1 /\ r.owner = z.owner /\ r.hold = z.hold /\ r.prio = z.prio
      /\ r.ceil = z.ceil /\ r.taken = z.taken /\ r.pending = z.pending /\ r.queue = d.queue
  BY <1>1, <1>2, <1>5 DEF State
<1>8. \A u \in Thread : IsSuspended(k1, u) <=> IsSuspended(z.k, u) /\ u # t
  BY <1>4 DEF IsSuspended
<1>11. Started(z.k) => Started(k1)
  BY <1>4 DEF Started
<1>9. ASSUME NEW l \in Mutex, t \notin ToSet(z.queue[l]) PROVE d.queue[l] = z.queue[l]
  BY <1>1, <1>2, <1>9, StateFields, RemoveAbsent
<1>10. QueuesOK(r)
  <2>1. ASSUME NEW l \in Mutex, d.queue[l] # <<>> PROVE z.queue[l] # <<>>
    <3>1. d.queue[l] \in Seq(Thread) /\ z.queue[l] \in Seq(Thread)
      BY <1>1, <1>2, StateFields
    <3>2. ToSet(d.queue[l]) # {}
      BY <2>1, <3>1, EmptyList
    <3>3. ToSet(z.queue[l]) # {}
      BY <1>2, <3>2
    <3> QED BY <3>1, <3>3, EmptyList
  <2>2. ASSUME NEW l \in Mutex, NEW u \in Thread
        PROVE  u \in ToSet(d.queue[l]) <=> IsSuspended(k1, u) /\ z.pending[u] = l
    BY <1>2, <1>8 DEF QueuesOK
  <2> QED BY <1>2, <1>3, <1>6, <1>7, <2>1, <2>2 DEF QueuesOK
<1> QED BY <1>2, <1>3, <1>4, <1>7, <1>8, <1>9, <1>10, <1>11 DEF r, Wakes

(* rt_schedule leaves the mutexes alone.                                    *)
LEMMA ReschedKeeps ==
  ASSUME NEW z, QueuesOK(z)
  PROVE  LET r == Resched(z)
         IN  /\ QueuesOK(r) /\ r = [z EXCEPT !.k = r.k]
             /\ r.k.nest = z.k.nest /\ r.k.cprio = z.k.cprio /\ r.k.iprio = z.k.iprio
             /\ \A u \in Thread : Runnable(r.k, u) <=> Runnable(z.k, u)
             /\ \A u \in Thread : IsSuspended(r.k, u) <=> IsSuspended(z.k, u)
             /\ SameClosed(z.k, r.k) /\ (Started(z.k) => Started(r.k))
             /\ z.k.nest # 0 => r.k.cur = z.k.cur /\ r.k.stat = z.k.stat
             /\ (z.k.nest = 0 /\ \E u \in Thread : Runnable(z.k, u)) => HighestCurrent(r.k)
<1> DEFINE k1 == Schedule(z.k, z.k.cur)
           r == Resched(z)
<1>1. z \in State /\ KernelOK(z.k) /\ z.k \in KState
  BY DEF QueuesOK, KernelOK
<1>2. /\ KernelOK(k1) /\ k1 \in KState /\ k1.nest = z.k.nest
      /\ \A u \in Thread : Runnable(k1, u) <=> Runnable(z.k, u)
      /\ SameClosed(z.k, k1)
      /\ (z.k.nest = 0 /\ \E u \in Thread : Runnable(z.k, u)) => HighestCurrent(k1)
  BY <1>1, ScheduleKeeps DEF KernelOK
<1>3. /\ k1.cprio = z.k.cprio /\ k1.iprio = z.k.iprio
      /\ \A u \in Thread : IsSuspended(k1, u) <=> IsSuspended(z.k, u)
  BY <1>1, ScheduleFrame
<1>4. z.k.nest # 0 => k1.cur = z.k.cur /\ k1.stat = z.k.stat
  BY <1>1 DEF Schedule, KState
<1>9. Started(z.k) => Started(k1)
  <2>1. z.k.stat \in [Thread -> Stat] /\ k1.stat \in [Thread -> Stat]
    BY <1>1, <1>2 DEF KState
  <2> HIDE DEF k1
  <2> QED BY <1>2, <1>3, <2>1 DEF Started, Stat, Runnable, IsSuspended, SameClosed
<1>5. r = [z EXCEPT !.k = k1]
  BY DEF Resched
<1> HIDE DEF k1, r
<1>6. r \in State
  BY <1>1, <1>2, <1>5 DEF State
<1>7. /\ r.k = k1 /\ r.owner = z.owner /\ r.pending = z.pending /\ r.queue = z.queue
      /\ r = [z EXCEPT !.k = r.k]
  BY <1>1, <1>5 DEF State
<1>8. QueuesOK(r)
  BY <1>2, <1>3, <1>6, <1>7 DEF QueuesOK
<1> QED BY <1>2, <1>3, <1>4, <1>7, <1>8, <1>9 DEF r

(* The two results of a hand-over: m is free, or belongs to n.              *)
LeftFree(z, r, m) ==
  /\ QueuesOK(r)
  /\ r.k = z.k /\ r.queue = z.queue /\ r.ceil = z.ceil
  /\ r.prio[m] = NoPrio /\ \A l \in Mutex : l # m => r.prio[l] = z.prio[l]
  /\ r.owner = [z.owner EXCEPT ![m] = None]
  /\ r.hold = z.hold /\ r.taken = z.taken /\ r.pending = z.pending
Handed(z, r, m, n) ==
  /\ QueuesOK(r)
  /\ r.k.cur = z.k.cur /\ r.k.nest = z.k.nest
  /\ r.k.cprio = z.k.cprio /\ r.k.iprio = z.k.iprio /\ r.ceil = z.ceil
  /\ \A u \in Thread : Runnable(z.k, u) => Runnable(r.k, u)
  /\ SameClosed(z.k, r.k) /\ (Started(z.k) => Started(r.k))
  /\ \A l \in Mutex : l # m => r.queue[l] = z.queue[l] /\ r.prio[l] = z.prio[l]
  /\ n \in Thread /\ n \in ToSet(z.queue[m])
  /\ \A u \in Thread : IsSuspended(r.k, u) <=> IsSuspended(z.k, u) /\ u # n
  /\ r.queue[m] = RemoveFirst(z.queue[m], n)
  /\ ToSet(r.queue[m]) = ToSet(z.queue[m]) \ {n}
  /\ r.prio[m] = IF r.queue[m] = <<>> THEN NoPrio ELSE z.k.cprio[Head(r.queue[m])]
  /\ r.owner = [z.owner EXCEPT ![m] = n]
  /\ r.hold = [z.hold EXCEPT ![m] = 1]
  /\ r.taken = [z.taken EXCEPT ![n] = Cons(m, @)]
  /\ r.pending = [z.pending EXCEPT ![n] = None]

(* A mutex nobody waits for is left free.                                   *)
LEMMA HandOverNobody ==
  ASSUME NEW z, QueuesOK(z), NEW m \in Mutex, z.queue[m] = <<>>
  PROVE  LeftFree(z, HandOver(z, m), m)
<1> DEFINE r == HandOver(z, m)
<1>1. z \in State /\ KernelOK(z.k) /\ z.queue[m] \in Seq(Thread)
  BY StateFields DEF QueuesOK
<1>2. r = [z EXCEPT !.owner[m] = None, !.prio[m] = NoPrio]
  BY DEF HandOver
<1> HIDE DEF r
<1>3. /\ r.k = z.k /\ r.queue = z.queue /\ r.owner = [z.owner EXCEPT ![m] = None]
      /\ r.prio = [z.prio EXCEPT ![m] = NoPrio] /\ r.ceil = z.ceil
      /\ r.hold = z.hold /\ r.taken = z.taken /\ r.pending = z.pending
  BY <1>1, <1>2 DEF State
<1>4. r \in State
  <2>1. [z.owner EXCEPT ![m] = None] \in [Mutex -> Thread \cup {None}]
    BY <1>1, StateFields
  <2>2. [z.prio EXCEPT ![m] = NoPrio] \in [Mutex -> Prio \cup {NoPrio}]
    BY <1>1, StateFields
  <2>3. r = [z EXCEPT !.owner = [z.owner EXCEPT ![m] = None],
                      !.prio = [z.prio EXCEPT ![m] = NoPrio]]
    BY <1>2
  <2> QED BY <1>1, <2>1, <2>2, <2>3 DEF State
<1>5. \A l \in Mutex : r.queue[l] # <<>> => r.owner[l] = z.owner[l]
  BY <1>1, <1>3, StateFields
<1>6. QueuesOK(r)
  BY <1>3, <1>4, <1>5 DEF QueuesOK
<1>7. r.prio[m] = NoPrio /\ \A l \in Mutex : l # m => r.prio[l] = z.prio[l]
  BY <1>1, <1>3, StateFields
<1> QED BY <1>3, <1>6, <1>7 DEF r, LeftFree

(* The first waiter gets the mutex, and is woken.                           *)
LEMMA HandOverFirst ==
  ASSUME NEW z, QueuesOK(z), NEW m \in Mutex, z.queue[m] # <<>>,
         NEW n, n = Head(z.queue[m])
  PROVE  Handed(z, HandOver(z, m), m, n)
<1> DEFINE r == HandOver(z, m)
<1>1. z \in State /\ KernelOK(z.k) /\ z.queue[m] \in Seq(Thread)
  BY StateFields DEF QueuesOK
<1> DEFINE y == Ready(z, n)
           x == UpdateMutex(y, m)
<1>2. n \in Thread /\ n \in ToSet(z.queue[m])
  BY <1>1, EmptyList
<1>3. Wakes(z, y, n)
  BY <1>2, WakeKeeps
<1> HIDE DEF y
<1>4. /\ QueuesOK(x) /\ x \in State /\ x.k = y.k /\ x.queue = y.queue
      /\ x.owner = y.owner /\ x.hold = y.hold /\ x.ceil = y.ceil
      /\ x.taken = y.taken /\ x.pending = y.pending
      /\ \A l \in Mutex : l # m => x.prio[l] = y.prio[l]
      /\ x.prio[m] = IF y.queue[m] = <<>> THEN NoPrio ELSE y.k.cprio[Head(y.queue[m])]
  BY <1>3, UpdateMutexAdjusts DEF Wakes, Adjusted, QueuesOK
<1>5. r = [x EXCEPT !.owner[m] = n, !.hold[m] = 1, !.taken[n] = Cons(m, @),
                    !.pending[n] = None]
  BY DEF HandOver, x, y
<1> HIDE DEF x, r
<1>6. /\ r.k = x.k /\ r.queue = x.queue /\ r.prio = x.prio /\ r.ceil = x.ceil
      /\ r.owner = [x.owner EXCEPT ![m] = n] /\ r.hold = [x.hold EXCEPT ![m] = 1]
      /\ r.taken = [x.taken EXCEPT ![n] = Cons(m, @)]
      /\ r.pending = [x.pending EXCEPT ![n] = None]
  BY <1>4, <1>5 DEF State
<1>7. r \in State
  <2>1. /\ [x.owner EXCEPT ![m] = n] \in [Mutex -> Thread \cup {None}]
        /\ [x.pending EXCEPT ![n] = None] \in [Thread -> Mutex \cup {None}]
    BY <1>2, <1>4, StateFields
  <2>2. [x.hold EXCEPT ![m] = 1] \in [Mutex -> 0 .. HoldMax]
    BY <1>4, StateFields, MutexAssumption
  <2>3. [x.taken EXCEPT ![n] = Cons(m, @)] \in [Thread -> Seq(Mutex)]
    <3>1. x.taken \in [Thread -> Seq(Mutex)]
      BY <1>4, StateFields
    <3>2. Cons(m, x.taken[n]) \in Seq(Mutex)
      BY <1>2, <3>1 DEF Cons
    <3> QED BY <3>1, <3>2
  <2>4. r = [x EXCEPT !.owner = [x.owner EXCEPT ![m] = n],
                      !.hold = [x.hold EXCEPT ![m] = 1],
                      !.taken = [x.taken EXCEPT ![n] = Cons(m, @)],
                      !.pending = [x.pending EXCEPT ![n] = None]]
    BY <1>5
  <2> QED BY <1>4, <2>1, <2>2, <2>3, <2>4 DEF State
<1>8. QueuesOK(r)
  <2>1. ASSUME NEW l \in Mutex, r.queue[l] # <<>> PROVE r.owner[l] # None
    <3>1. x.owner[l] # None
      BY <1>4, <1>6, <2>1 DEF QueuesOK
    <3>2. n # None /\ x.owner \in [Mutex -> Thread \cup {None}]
      BY <1>2, <1>4, StateFields
    <3> QED BY <1>6, <3>1, <3>2
  <2>2. ASSUME NEW l \in Mutex, NEW u \in Thread
        PROVE  u \in ToSet(r.queue[l]) <=> IsSuspended(r.k, u) /\ r.pending[u] = l
    <3>1. u \in ToSet(r.queue[l]) <=> IsSuspended(r.k, u) /\ x.pending[u] = l
      BY <1>4, <1>6 DEF QueuesOK
    <3>2. u # n => r.pending[u] = x.pending[u]
      BY <1>4, <1>6, StateFields
    <3>3. u = n => ~ IsSuspended(r.k, u)
      BY <1>2, <1>3, <1>4, <1>6 DEF Wakes
    <3> QED BY <3>1, <3>2, <3>3
  <2>3. KernelOK(r.k) /\ \A l \in Mutex : IsInjective(r.queue[l])
    BY <1>4, <1>6 DEF QueuesOK
  <2> QED BY <1>7, <2>1, <2>2, <2>3 DEF QueuesOK
<1>9. \A l \in Mutex : l # m => n \notin ToSet(z.queue[l])
  BY <1>2 DEF QueuesOK
<1>10. \A l \in Mutex : l # m => r.queue[l] = z.queue[l] /\ r.prio[l] = z.prio[l]
  BY <1>3, <1>4, <1>6, <1>9 DEF Wakes
<1>11. r.prio[m] = IF r.queue[m] = <<>> THEN NoPrio ELSE z.k.cprio[Head(r.queue[m])]
  BY <1>3, <1>4, <1>6 DEF Wakes
<1> QED BY <1>2, <1>3, <1>4, <1>6, <1>8, <1>10, <1>11 DEF r, Wakes, Handed

(* The last release begins: the count and the owner's list.                 *)
Unheld(z, t, m) == [z EXCEPT !.hold[m] = 0, !.taken[t] = RemoveFirst(@, m)]

(* The wait lists are left alone.                                           *)
LEMMA UnheldKeeps ==
  ASSUME NEW z, QueuesOK(z), NEW m \in Mutex, NEW t \in Thread, IsInjective(z.taken[t])
  PROVE  LET r == Unheld(z, t, m)
         IN  /\ QueuesOK(r)
             /\ r.k = z.k /\ r.queue = z.queue /\ r.owner = z.owner /\ r.prio = z.prio
             /\ r.ceil = z.ceil /\ r.pending = z.pending
             /\ r.hold = [z.hold EXCEPT ![m] = 0]
             /\ r.taken = [z.taken EXCEPT ![t] = RemoveFirst(z.taken[t], m)]
<1> DEFINE f == RemoveFirst(z.taken[t], m)
           r == Unheld(z, t, m)
<1>1. z \in State /\ f \in Seq(Mutex)
  <2>1. z \in State /\ z.taken[t] \in Seq(Mutex)
    BY StateFields DEF QueuesOK
  <2> QED BY <2>1, RemoveFirstProperties
<1>2. r = [z EXCEPT !.hold = [z.hold EXCEPT ![m] = 0], !.taken = [z.taken EXCEPT ![t] = f]]
  BY DEF Unheld
<1> HIDE DEF f, r
<1>3. /\ r.k = z.k /\ r.queue = z.queue /\ r.owner = z.owner /\ r.prio = z.prio
      /\ r.ceil = z.ceil /\ r.pending = z.pending
      /\ r.hold = [z.hold EXCEPT ![m] = 0] /\ r.taken = [z.taken EXCEPT ![t] = f]
  BY <1>1, <1>2 DEF State
<1>4. r \in State
  <2>1. [z.hold EXCEPT ![m] = 0] \in [Mutex -> 0 .. HoldMax]
    BY <1>1, StateFields, MutexAssumption
  <2>2. [z.taken EXCEPT ![t] = f] \in [Thread -> Seq(Mutex)]
    BY <1>1, StateFields
  <2> QED BY <1>1, <1>2, <2>1, <2>2 DEF State
<1>5. QueuesOK(r)
  BY <1>3, <1>4 DEF QueuesOK
<1> QED BY <1>3, <1>5 DEF f, r

(* The thread a release of m wakes.                                         *)
First(z, m) == IF z.queue[m] = <<>> THEN {} ELSE {Head(z.queue[m])}

(* The last release of a mutex by its owner.                                *)
LEMMA ReleaseKeeps ==
  ASSUME NEW z, QueuesOK(z), NEW m \in Mutex, NEW t \in Thread, z.owner[m] = t,
         NEW l, m \in l, Owned(z, l), NEW p, NEW a, NEW e, Calling(z, p, a, e)
  PROVE  LET r == ReleaseLast(z, t, m)
         IN  /\ QueuesOK(r) /\ Owned(r, l) /\ Calling(r, p, a, e)
             /\ r.k.cur = z.k.cur /\ r.k.nest = z.k.nest /\ r.k.iprio = z.k.iprio
             /\ r.ceil = z.ceil
             /\ \A u \in Thread : Runnable(z.k, u) => Runnable(r.k, u)
             /\ SameClosed(z.k, r.k) /\ (Started(z.k) => Started(r.k))
             /\ \A u \in Thread : IsSuspended(r.k, u) <=> IsSuspended(z.k, u) /\ u \notin First(z, m)
             /\ \A j \in Mutex : j # m => r.queue[j] = z.queue[j]
             /\ ToSet(r.taken[t]) = ToSet(z.taken[t]) \ {m}
<1> DEFINE f == RemoveFirst(z.taken[t], m)
           z1 == Unheld(z, t, m)
           z2 == Restore(z1, t, m)
           r == HandOver(z2, m)
           n == Head(z2.queue[m])
<1>1. z \in State /\ z.taken[t] \in Seq(Mutex) /\ IsInjective(z.taken[t])
      /\ m \in ToSet(z.taken[t])
  BY StateFields DEF QueuesOK, Owned
<1>2. f \in Seq(Mutex) /\ IsInjective(f) /\ ToSet(f) = ToSet(z.taken[t]) \ {m}
  BY <1>1, RemoveFirstProperties
<1>3. r = ReleaseLast(z, t, m)
  BY DEF ReleaseLast, Unheld
<1> HIDE DEF f
<1>4. /\ QueuesOK(z1)
      /\ z1.k = z.k /\ z1.queue = z.queue /\ z1.owner = z.owner /\ z1.prio = z.prio
      /\ z1.ceil = z.ceil /\ z1.pending = z.pending
      /\ z1.hold = [z.hold EXCEPT ![m] = 0] /\ z1.taken = [z.taken EXCEPT ![t] = f]
  <2>1. f = RemoveFirst(z.taken[t], m)
    BY DEF f
  <2>2. m \in Mutex /\ t \in Thread /\ QueuesOK(z) /\ IsInjective(z.taken[t])
    BY <1>1
  <2> HIDE DEF f
  <2>3. /\ QueuesOK(z1)
        /\ z1.k = z.k /\ z1.queue = z.queue /\ z1.owner = z.owner /\ z1.prio = z.prio
        /\ z1.ceil = z.ceil /\ z1.pending = z.pending
        /\ z1.hold = [z.hold EXCEPT ![m] = 0]
        /\ z1.taken = [z.taken EXCEPT ![t] = RemoveFirst(z.taken[t], m)]
    BY <2>2, UnheldKeeps
  <2> HIDE DEF z1
  <2> QED BY <2>1, <2>3
<1> HIDE DEF z1
<1>6. QueuesOK(z1)
  BY <1>4
<1>7. Adjusted(z1, z2) /\ z2.queue = z.queue
  BY <1>4, <1>6, RestoreAdjusts
<1> HIDE DEF z2
<1>8. /\ QueuesOK(z2) /\ z2 \in State /\ z2.k.stat = z.k.stat
      /\ z2.k.cur = z.k.cur /\ z2.k.nest = z.k.nest /\ z2.k.iprio = z.k.iprio
      /\ z2.owner = z.owner /\ z2.ceil = z.ceil /\ z2.pending = z.pending
      /\ z2.hold = z1.hold /\ z2.taken = z1.taken
  BY <1>4, <1>7 DEF Adjusted, QueuesOK
<1>9. CASE z.queue[m] = <<>>
  <2>1. /\ QueuesOK(r) /\ r.k = z2.k /\ r.queue = z.queue /\ r.ceil = z.ceil
        /\ r.owner = [z.owner EXCEPT ![m] = None]
        /\ r.hold = z1.hold /\ r.taken = z1.taken /\ r.pending = z.pending
    <3>1. z2.queue[m] = <<>> /\ QueuesOK(z2)
      BY <1>7, <1>8, <1>9
    <3>2. LeftFree(z2, r, m)
      BY <3>1, HandOverNobody
    <3> HIDE DEF r
    <3> QED BY <1>7, <1>8, <3>2 DEF LeftFree
  <2> HIDE DEF r
  <2>6. First(z, m) = {}
    BY <1>9 DEF First
  <2>2. r \in State
    BY <2>1 DEF QueuesOK
  <2>3. Owned(r, l)
    <3>1. \A j \in l : r.owner[j] = None <=> r.hold[j] = 0
      BY <1>1, <1>4, <2>1, StateFields DEF Owned
    <3>2. ASSUME NEW j \in Mutex, NEW u \in Thread
          PROVE  j \in ToSet(r.taken[u]) <=> j \in l /\ r.owner[j] = u
      <4>1. j \in ToSet(z.taken[u]) <=> j \in l /\ z.owner[j] = u
        BY DEF Owned
      <4>2. CASE u = t
        BY <1>1, <1>2, <1>4, <2>1, <4>1, <4>2, StateFields
      <4>3. CASE u # t
        BY <1>1, <1>4, <2>1, <4>1, <4>3, StateFields
      <4> QED BY <4>2, <4>3
    <3>3. \A u \in Thread : IsInjective(r.taken[u])
      BY <1>1, <1>2, <1>4, <2>1, StateFields DEF Owned
    <3> QED BY <2>1, <3>1, <3>2, <3>3 DEF Owned
  <2>4. Calling(r, p, a, e)
    <3>1. \A u \in Thread : \A j : r.owner[j] = u => z.owner[j] = u
      BY <1>1, <2>1, StateFields
    <3> QED BY <1>8, <2>1, <3>1 DEF Calling, IsSuspended
  <2>5. ToSet(r.taken[t]) = ToSet(z.taken[t]) \ {m}
    BY <1>1, <1>2, <1>4, <2>1, StateFields
  <2> QED BY <1>3, <1>8, <2>1, <2>3, <2>4, <2>5, <2>6
             DEF r, Runnable, IsSuspended, SameClosed, Started
<1>10. CASE z.queue[m] # <<>>
  <2>1. /\ QueuesOK(r) /\ r.k.cur = z2.k.cur /\ r.k.nest = z2.k.nest /\ r.k.iprio = z2.k.iprio
        /\ r.ceil = z2.ceil
        /\ \A u \in Thread : Runnable(z2.k, u) => Runnable(r.k, u)
        /\ SameClosed(z2.k, r.k) /\ (Started(z2.k) => Started(r.k))
        /\ \A j \in Mutex : j # m => r.queue[j] = z2.queue[j]
        /\ n \in Thread /\ n \in ToSet(z2.queue[m])
        /\ \A u \in Thread : IsSuspended(r.k, u) <=> IsSuspended(z2.k, u) /\ u # n
        /\ r.owner = [z2.owner EXCEPT ![m] = n] /\ r.hold = [z2.hold EXCEPT ![m] = 1]
        /\ r.taken = [z2.taken EXCEPT ![n] = Cons(m, @)]
        /\ r.pending = [z2.pending EXCEPT ![n] = None]
    <3>1. z2.queue[m] # <<>> /\ QueuesOK(z2)
      BY <1>7, <1>8, <1>10
    <3>2. n = Head(z2.queue[m])
      OBVIOUS
    <3> HIDE DEF n
    <3>3. Handed(z2, r, m, n)
      BY <3>1, <3>2, HandOverFirst
    <3> HIDE DEF r
    <3> QED BY <3>3 DEF Handed
  <2> HIDE DEF r, n
  <2>2. n # t /\ n # None /\ e[n] = "EOK" /\ p[n] # "run" /\ a[n] = m
    BY <1>1, <1>7, <2>1, WaiterNotOwner, StateFields
  <2>3. /\ r.owner = [z.owner EXCEPT ![m] = n] /\ r.hold = [z.hold EXCEPT ![m] = 1]
        /\ \A u \in Thread : r.taken[u] = CASE u = n -> Cons(m, z.taken[n])
                                           [] u = t -> f
                                           [] OTHER -> z.taken[u]
    <3>1. r.hold = [z.hold EXCEPT ![m] = 1]
      BY <1>1, <1>4, <1>8, <2>1, StateFields
    <3>2. r.taken = [[z.taken EXCEPT ![t] = f] EXCEPT ![n] = Cons(m, @)]
      BY <1>4, <1>8, <2>1
    <3>3. z.taken \in [Thread -> Seq(Mutex)]
      BY <1>1, StateFields
    <3> QED BY <1>8, <2>1, <2>2, <3>1, <3>2, <3>3
  <2>4. z.taken[n] \in Seq(Mutex) /\ IsInjective(z.taken[n]) /\ m \notin ToSet(z.taken[n])
    BY <1>1, <2>1, <2>2, StateFields DEF Owned
  <2>5. IsInjective(Cons(m, z.taken[n])) /\ ToSet(Cons(m, z.taken[n])) = ToSet(z.taken[n]) \cup {m}
    BY <2>4, ConsNew
  <2>6. Owned(r, l)
    <3>1. \A j \in l : r.owner[j] = None <=> r.hold[j] = 0
      BY <1>1, <2>2, <2>3, StateFields DEF Owned
    <3>2. ASSUME NEW j \in Mutex, NEW u \in Thread
          PROVE  j \in ToSet(r.taken[u]) <=> j \in l /\ r.owner[j] = u
      <4>1. j \in ToSet(z.taken[u]) <=> j \in l /\ z.owner[j] = u
        BY DEF Owned
      <4>2. r.owner[j] = IF j = m THEN n ELSE z.owner[j]
        BY <1>1, <2>3, StateFields
      <4>3. CASE u = n
        BY <2>2, <2>3, <2>5, <4>1, <4>2, <4>3
      <4>4. CASE u = t
        BY <1>2, <2>2, <2>3, <4>1, <4>2, <4>4
      <4>5. CASE u # n /\ u # t
        BY <2>3, <4>1, <4>2, <4>5
      <4> QED BY <4>3, <4>4, <4>5
    <3>3. ASSUME NEW u \in Thread PROVE IsInjective(r.taken[u])
      BY <1>2, <2>3, <2>5 DEF Owned
    <3>4. \A j \in Mutex : r.queue[j] # <<>> => j \in l
      BY <1>7, <2>1 DEF Owned
    <3> QED BY <3>1, <3>2, <3>3, <3>4 DEF Owned
  <2>7. Calling(r, p, a, e)
    <3> SUFFICES ASSUME NEW u \in Thread
                 PROVE  /\ r.pending[u] # None => r.k.stat[u] # "CLOSE" /\ p[u] # "run"
                                                    /\ a[u] = r.pending[u]
                        /\ IsSuspended(r.k, u) /\ p[u] # "run" => r.pending[u] = a[u] /\ e[u] = "EOK"
                        /\ r.k.stat[u] # "CLOSE" /\ p[u] # "run" /\ r.owner[a[u]] = u =>
                             e[u] = "EOK" /\ r.pending[u] = None
      BY DEF Calling
    <3>1. r.pending[u] = IF u = n THEN None ELSE z.pending[u]
      BY <1>1, <1>8, <2>1, StateFields
    <3>2. r.k.stat[u] = "CLOSE" <=> z.k.stat[u] = "CLOSE"
      BY <1>8, <2>1 DEF SameClosed
    <3>3. IsSuspended(r.k, u) <=> IsSuspended(z.k, u) /\ u # n
      BY <1>8, <2>1 DEF IsSuspended
    <3>4. u # n /\ r.owner[a[u]] = u => z.owner[a[u]] = u
      BY <1>1, <2>3, StateFields
    <3>5. CASE u = n
      BY <2>2, <3>1, <3>3, <3>5
    <3>6. CASE u # n
      BY <3>1, <3>2, <3>3, <3>4, <3>6 DEF Calling
    <3> QED BY <3>5, <3>6
  <2>8. ToSet(r.taken[t]) = ToSet(z.taken[t]) \ {m}
    BY <1>2, <2>2, <2>3
  <2>9. First(z, m) = {n}
    BY <1>7, <1>10 DEF n, First
  <2>10. \A u \in Thread : IsSuspended(r.k, u) <=> IsSuspended(z.k, u) /\ u \notin First(z, m)
    BY <1>8, <2>1, <2>9 DEF IsSuspended
  <2>11. \A u \in Thread : Runnable(z.k, u) => Runnable(r.k, u)
    BY <1>8, <2>1 DEF Runnable
  <2>12. SameClosed(z.k, r.k) /\ (Started(z.k) => Started(r.k))
    BY <1>8, <2>1 DEF SameClosed, Started
  <2>13. \A j \in Mutex : j # m => r.queue[j] = z.queue[j]
    BY <1>7, <2>1
  <2> QED BY <1>3, <1>8, <2>1, <2>6, <2>7, <2>8, <2>10, <2>11, <2>12, <2>13 DEF r
<1> QED BY <1>9, <1>10

(* A thread that is closed has left all lists.                              *)
TakenOut(z, r, t) ==
  /\ QueuesOK(r)
  /\ r.k.stat = [z.k.stat EXCEPT ![t] = "CLOSE"]
  /\ r.k.cur = z.k.cur /\ r.k.nest = z.k.nest
  /\ r.k.cprio = z.k.cprio /\ r.k.iprio = z.k.iprio
  /\ r.owner = z.owner /\ r.hold = z.hold /\ r.prio = z.prio /\ r.ceil = z.ceil
  /\ r.taken = z.taken /\ r.pending = z.pending
  /\ \A m \in Mutex : /\ r.queue[m] = RemoveFirst(z.queue[m], t)
                      /\ ToSet(r.queue[m]) = ToSet(z.queue[m]) \ {t}
                      /\ t \notin ToSet(z.queue[m]) => r.queue[m] = z.queue[m]

(* rt_thread_close of a thread that was started.                            *)
LEMMA CloseKeeps ==
  ASSUME NEW z, QueuesOK(z), NEW t \in Thread, z.k.stat[t] \notin {"INIT", "CLOSE"}
  PROVE  TakenOut(z, Close(z, t), t)
<1> DEFINE d == Dequeue(z, t)
           k1 == [RemoveThread(z.k, t) EXCEPT !.stat[t] = "CLOSE"]
           r == Close(z, t)
<1>1. /\ z \in State /\ KernelOK(z.k) /\ z.k \in KState /\ QueueOK(z.k) /\ CurrentOK(z.k)
      /\ \A l \in Mutex : IsInjective(z.queue[l])
  BY DEF QueuesOK, KernelOK
<1>2. /\ d = [z EXCEPT !.queue = d.queue] /\ d \in State
      /\ \A l \in Mutex : /\ IsInjective(d.queue[l])
                          /\ ToSet(d.queue[l]) = ToSet(z.queue[l]) \ {t}
                          /\ d.queue[l] = RemoveFirst(z.queue[l], t)
  BY <1>1, DequeueKeeps
<1>3. z.k.mask[t] = {z.k.cprio[t]} /\ "CLOSE" \in Stat
  BY <1>1 DEF QueueOK, MaskOK, Stat
<1>4. /\ k1 \in KState /\ QueueOK(k1) /\ k1.stat = [z.k.stat EXCEPT ![t] = "CLOSE"]
      /\ k1.cur = z.k.cur /\ k1.nest = z.k.nest /\ k1.cprio = z.k.cprio
  BY <1>1, <1>3, RemoveKeeps
<1>5. k1.iprio = z.k.iprio
  BY <1>1 DEF RemoveThread, KState
<1>6. z.k.stat \in [Thread -> Stat] /\ z.k.cur \in Thread
  BY <1>1 DEF KState
<1> HIDE DEF k1
<1>7. KernelOK(k1)
  BY <1>1, <1>4, <1>6 DEF KernelOK, CurrentOK
<1>8. r = [d EXCEPT !.k = k1]
  <2>1. d.k = z.k
    BY <1>1, <1>2 DEF State
  <2> QED BY <2>1 DEF Close, k1
<1> HIDE DEF d, r
<1>9. r \in State
  BY <1>2, <1>4, <1>8 DEF State
<1>10. /\ r.k = k1 /\ r.owner = z.owner /\ r.hold = z.hold /\ r.prio = z.prio
       /\ r.ceil = z.ceil /\ r.taken = z.taken /\ r.pending = z.pending /\ r.queue = d.queue
  BY <1>1, <1>2, <1>8 DEF State
<1>11. \A u \in Thread : IsSuspended(k1, u) <=> IsSuspended(z.k, u) /\ u # t
  BY <1>4, <1>6 DEF IsSuspended
<1>12. ASSUME NEW l \in Mutex, t \notin ToSet(z.queue[l]) PROVE d.queue[l] = z.queue[l]
  BY <1>1, <1>2, <1>12, StateFields, RemoveAbsent
<1>13. QueuesOK(r)
  <2>1. ASSUME NEW l \in Mutex, d.queue[l] # <<>> PROVE z.queue[l] # <<>>
    <3>1. d.queue[l] \in Seq(Thread) /\ z.queue[l] \in Seq(Thread)
      BY <1>1, <1>2, StateFields
    <3>2. ToSet(d.queue[l]) # {}
      BY <2>1, <3>1, EmptyList
    <3>3. ToSet(z.queue[l]) # {}
      BY <1>2, <3>2
    <3> QED BY <3>1, <3>3, EmptyList
  <2>2. ASSUME NEW l \in Mutex, NEW u \in Thread
        PROVE  u \in ToSet(d.queue[l]) <=> IsSuspended(k1, u) /\ z.pending[u] = l
    BY <1>2, <1>11 DEF QueuesOK
  <2> QED BY <1>2, <1>7, <1>9, <1>10, <2>1, <2>2 DEF QueuesOK
<1> QED BY <1>2, <1>4, <1>5, <1>10, <1>12, <1>13 DEF r, TakenOut

(* A wake of all waiters: the threads of W are out of their lists.          *)
Woken(z, r, W) ==
  /\ QueuesOK(r)
  /\ r.k.cur = z.k.cur /\ r.k.nest = z.k.nest
  /\ r.k.cprio = z.k.cprio /\ r.k.iprio = z.k.iprio
  /\ \A u \in Thread : Runnable(z.k, u) => Runnable(r.k, u)
  /\ SameClosed(z.k, r.k) /\ (Started(z.k) => Started(r.k))
  /\ \A u \in Thread : IsSuspended(r.k, u) <=> IsSuspended(z.k, u) /\ u \notin W
  /\ r.owner = z.owner /\ r.hold = z.hold /\ r.prio = z.prio /\ r.ceil = z.ceil
  /\ r.taken = z.taken /\ r.pending = z.pending
  /\ \A m \in Mutex : ToSet(z.queue[m]) \cap W = {} => r.queue[m] = z.queue[m]

(* The loop of rt_susp_list_resume_all wakes the waiters and nobody else.   *)
LEMMA ReadyAllKeeps ==
  ASSUME NEW z, QueuesOK(z), NEW m \in Mutex
  PROVE  Woken(z, ReadyAll(z, m), ToSet(z.queue[m])) /\ ReadyAll(z, m).queue[m] = <<>>
<1> DEFINE q == z.queue[m]
           N == Len(q)
           W(n) == {q[i] : i \in 1 .. n}
           Good == [n \in 0 .. N |-> {x \in State : Woken(z, x, W(n))}]
           g == [n \in 1 .. N |-> [x \in State |-> Ready(x, q[n])]]
           IsRun(f) == f = [n \in 0 .. N |-> IF n = 0 THEN z ELSE Ready(f[n - 1], q[n])]
           turn == CHOOSE f : IsRun(f)
<1>1. z \in State /\ q \in Seq(Thread) /\ N \in Nat /\ \A n \in 1 .. N : q[n] \in Thread
  BY StateFields DEF QueuesOK
<1>2. ReadyAll(z, m) = turn[N] /\ W(N) = ToSet(q)
  BY <1>1 DEF ReadyAll, ToSet
<1> HIDE DEF q, N
<1>3. z \in Good[0]
  <2>1. Woken(z, z, {})
    BY DEF Woken, SameClosed
  <2>2. W(0) = {}
    BY <1>1
  <2>3. Woken(z, z, W(0))
    <3> HIDE DEF W
    <3> QED BY <2>1, <2>2, Zenon
  <2> HIDE DEF W
  <2>4. 0 \in 0 .. N
    BY <1>1
  <2> QED BY <1>1, <2>3, <2>4
<1>4. ASSUME NEW n \in 1 .. N, NEW x \in Good[n - 1] PROVE Ready(x, q[n]) \in Good[n]
  <2> DEFINE y == Ready(x, q[n])
  <2>1. q[n] \in Thread /\ n - 1 \in 0 .. N /\ n \in 0 .. N
    BY <1>1
  <2>2. Woken(z, x, W(n - 1)) /\ QueuesOK(x)
    BY <2>1 DEF Woken
  <2>3. W(n) = W(n - 1) \cup {q[n]}
    BY <1>1
  <2> HIDE DEF W
  <2>4. Woken(x, y, {q[n]})
    <3>1. Wakes(x, y, q[n])
      BY <2>1, <2>2, WakeKeeps
    <3> HIDE DEF y
    <3> QED BY <3>1 DEF Wakes, Woken
  <2> HIDE DEF y
  <2>5. Woken(z, y, W(n)) /\ y \in State
    BY <2>2, <2>3, <2>4 DEF Woken, SameClosed, QueuesOK
  <2> QED BY <2>1, <2>5 DEF y
<1>5. \A n \in 0 .. N : Good[n] \subseteq State
  OBVIOUS
<1>6. Good[N] = {x \in State : Woken(z, x, W(N))}
  BY <1>1
<1> HIDE DEF Good, W
<1>7. \E f : IsRun(f)
  <2>1. \A n \in 1 .. N : \A x \in State : g[n][x] = Ready(x, q[n])
    OBVIOUS
  <2> HIDE DEF g
  <2>2. LoopRuns(N, z, g)
    BY <1>1, LoopExists
  <2>3. PICK f : /\ f = [n \in 0 .. N |-> f[n]]
                 /\ f[0] = z /\ \A n \in 1 .. N : f[n] = g[n][f[n - 1]]
    BY <2>2 DEF LoopRuns
  <2>4. \A n \in 1 .. N : n - 1 \in 0 .. N
    BY <1>1
  <2>5. \A n \in 0 .. N : f[n] \in Good[n]
    <3>1. f[0] \in Good[0] /\ \A n \in 1 .. N : f[n - 1] \in Good[n - 1] => f[n] \in Good[n]
      BY <1>3, <1>4, <1>5, <2>1, <2>3, <2>4
    <3> QED BY <1>1, <3>1, LoopKeeps
  <2>6. \A n \in 1 .. N : f[n] = Ready(f[n - 1], q[n])
    BY <1>5, <2>1, <2>3, <2>4, <2>5
  <2> DEFINE h == [n \in 0 .. N |-> IF n = 0 THEN z ELSE Ready(f[n - 1], q[n])]
  <2>7. f = [n \in 0 .. N |-> f[n]] /\ h = [n \in 0 .. N |-> h[n]]
    BY <2>3
  <2>8. \A n \in 0 .. N : h[n] = f[n]
    BY <2>3, <2>6
  <2> HIDE DEF h
  <2>9. f = h
    BY <2>7, <2>8
  <2> QED BY <2>9 DEF h
<1>8. turn = [n \in 0 .. N |-> IF n = 0 THEN z ELSE Ready(turn[n - 1], q[n])]
  BY <1>7
<1> HIDE DEF turn
<1>9. turn[0] = z /\ \A n \in 1 .. N : turn[n] = Ready(turn[n - 1], q[n])
  BY <1>1, <1>8
<1>10. turn[N] \in Good[N]
  <2>1. turn[0] \in Good[0]
        /\ \A n \in 1 .. N : turn[n - 1] \in Good[n - 1] => turn[n] \in Good[n]
    BY <1>3, <1>4, <1>9
  <2>2. \A n \in 0 .. N : turn[n] \in Good[n]
    BY <1>1, <2>1, LoopKeeps
  <2> QED BY <1>1, <2>2
<1>11. Woken(z, turn[N], ToSet(q))
  BY <1>2, <1>6, <1>10
<1>12. turn[N].queue[m] = <<>>
  <2>1. turn[N] \in State /\ QueuesOK(turn[N])
    BY <1>11 DEF Woken, QueuesOK
  <2>2. \A u \in Thread : u \notin ToSet(turn[N].queue[m])
    BY <1>11, <2>1 DEF Woken, QueuesOK, q
  <2> QED BY <2>1, <2>2, StateFields, EmptyList
<1> QED BY <1>2, <1>11, <1>12 DEF q

(* The mutexes of D have been released one after the other.                 *)
Given(z, r, D) ==
  /\ r.k.cur = z.k.cur /\ r.k.nest = z.k.nest /\ r.k.iprio = z.k.iprio /\ r.ceil = z.ceil
  /\ \A u \in Thread : Runnable(z.k, u) => Runnable(r.k, u)
  /\ SameClosed(z.k, r.k) /\ (Started(z.k) => Started(r.k))
  /\ \A u \in Thread :
       IsSuspended(r.k, u) <=> IsSuspended(z.k, u) /\ \A m \in D : u \notin First(z, m)
  /\ \A m \in Mutex \ D : r.queue[m] = z.queue[m]

(* The turns of the loop of _thread_detach_from_mutex.                      *)
ReleaseTurns(z, t, l, p, a, e) ==
  LET q == z.taken[t]
  IN  \E f :
        /\ f[0] = z
        /\ \A n \in 1 .. Len(q) : f[n] = ReleaseLast(f[n - 1], t, q[n])
        /\ \A n \in 0 .. Len(q) :
             /\ QueuesOK(f[n]) /\ Owned(f[n], l) /\ Calling(f[n], p, a, e)
             /\ Given(z, f[n], {q[i] : i \in 1 .. n})
             /\ ToSet(f[n].taken[t]) = {q[i] : i \in n + 1 .. Len(q)}
        /\ ReleaseAll(z, t) = f[Len(q)]

(* They give away every mutex of t, one by one.                             *)
LEMMA ReleaseAllTurns ==
  ASSUME NEW z, QueuesOK(z), NEW t \in Thread,
         NEW l, Owned(z, l), NEW p, NEW a, NEW e, Calling(z, p, a, e)
  PROVE  ReleaseTurns(z, t, l, p, a, e)
<1> DEFINE q == z.taken[t]
           N == Len(q)
           D(n) == {q[i] : i \in 1 .. n}
           R(n) == {q[i] : i \in n + 1 .. N}
           Keeps(x, n) == /\ QueuesOK(x) /\ Owned(x, l) /\ Calling(x, p, a, e)
                          /\ Given(z, x, D(n)) /\ ToSet(x.taken[t]) = R(n)
           Good == [n \in 0 .. N |-> {x \in State : Keeps(x, n)}]
           g == [n \in 1 .. N |-> [x \in State |-> ReleaseLast(x, t, q[n])]]
           IsRun(f) == f = [n \in 0 .. N |-> IF n = 0 THEN z ELSE ReleaseLast(f[n - 1], t, q[n])]
           turn == CHOOSE f : IsRun(f)
<1>1. /\ z \in State /\ q \in Seq(Mutex) /\ N \in Nat /\ IsInjective(q)
      /\ \A n \in 1 .. N : q[n] \in Mutex
  BY StateFields DEF QueuesOK, Owned
<1>2. ReleaseAll(z, t) = turn[N] /\ R(0) = ToSet(q)
  BY <1>1 DEF ReleaseAll, ToSet
<1>13. \A i, j \in 1 .. N : q[i] = q[j] => i = j
  BY <1>1 DEF IsInjective
<1> HIDE DEF N
<1>3. z \in Good[0]
  <2>1. D(0) = {}
    BY <1>1
  <2> HIDE DEF D
  <2>2. Given(z, z, D(0))
    BY <2>1 DEF Given, SameClosed
  <2>3. Keeps(z, 0)
    BY <1>2, <2>2
  <2> QED BY <1>1, <2>3
<1> HIDE DEF q
<1>4. ASSUME NEW n \in 1 .. N, NEW x \in Good[n - 1] PROVE ReleaseLast(x, t, q[n]) \in Good[n]
  <2> DEFINE y == ReleaseLast(x, t, q[n])
             m == q[n]
  <2>1. m \in Mutex /\ n - 1 \in 0 .. N /\ n \in 0 .. N
    BY <1>1
  <2>2. Keeps(x, n - 1)
    BY <2>1
  <2>3. D(n) = D(n - 1) \cup {m}
    BY <1>1
  <2>4. m \in R(n - 1) /\ R(n) = R(n - 1) \ {m} /\ m \notin D(n - 1)
    <3>1. \A i \in 1 .. N : i \in n .. N <=> i = n \/ i \in n + 1 .. N
      BY <1>1
    <3>2. n - 1 + 1 = n /\ n \in n .. N /\ \A i \in 1 .. n - 1 : i \in 1 .. N /\ i # n
      BY <1>1
    <3>3. n .. N \subseteq 1 .. N /\ n + 1 .. N \subseteq 1 .. N /\ n \notin n + 1 .. N
      BY <1>1
    <3> QED BY <1>13, <3>1, <3>2, <3>3
  <2> HIDE DEF D, R, m
  <2>5. x.owner[m] = t /\ m \in l
    BY <2>1, <2>2, <2>4 DEF Owned
  <2>6. /\ QueuesOK(y) /\ Owned(y, l) /\ Calling(y, p, a, e)
        /\ y.k.cur = x.k.cur /\ y.k.nest = x.k.nest /\ y.k.iprio = x.k.iprio
        /\ y.ceil = x.ceil
        /\ \A u \in Thread : Runnable(x.k, u) => Runnable(y.k, u)
        /\ SameClosed(x.k, y.k) /\ (Started(x.k) => Started(y.k))
        /\ \A u \in Thread : IsSuspended(y.k, u) <=> IsSuspended(x.k, u) /\ u \notin First(x, m)
        /\ \A j \in Mutex : j # m => y.queue[j] = x.queue[j]
        /\ ToSet(y.taken[t]) = ToSet(x.taken[t]) \ {m}
    <3>1. QueuesOK(x) /\ Owned(x, l) /\ Calling(x, p, a, e)
      BY <2>2
    <3> HIDE DEF Keeps
    <3>2. y = ReleaseLast(x, t, m)
      BY DEF m
    <3> HIDE DEF y
    <3> QED BY <2>1, <2>5, <3>1, <3>2, ReleaseKeeps
  <2> HIDE DEF y
  <2>7. First(x, m) = First(z, m)
    BY <2>1, <2>2, <2>4 DEF Given, First
  <2>8. Given(z, y, D(n))
    BY <2>1, <2>2, <2>3, <2>6, <2>7 DEF Given, SameClosed
  <2>9. y \in State
    BY <2>6 DEF QueuesOK
  <2>10. Keeps(y, n)
    BY <2>2, <2>4, <2>6, <2>8
  <2> QED BY <2>1, <2>9, <2>10 DEF y
<1>5. \A n \in 0 .. N : Good[n] \subseteq State
  OBVIOUS
<1>6. \A n \in 0 .. N : \A x \in Good[n] : Keeps(x, n)
  OBVIOUS
<1> HIDE DEF Good
<1>7. \E f : IsRun(f)
  <2>1. \A n \in 1 .. N : \A x \in State : g[n][x] = ReleaseLast(x, t, q[n])
    OBVIOUS
  <2> HIDE DEF g
  <2>2. LoopRuns(N, z, g)
    BY <1>1, LoopExists
  <2>3. PICK f : /\ f = [n \in 0 .. N |-> f[n]]
                 /\ f[0] = z /\ \A n \in 1 .. N : f[n] = g[n][f[n - 1]]
    BY <2>2 DEF LoopRuns
  <2>4. \A n \in 1 .. N : n - 1 \in 0 .. N
    BY <1>1
  <2>5. \A n \in 0 .. N : f[n] \in Good[n]
    <3>1. f[0] \in Good[0] /\ \A n \in 1 .. N : f[n - 1] \in Good[n - 1] => f[n] \in Good[n]
      BY <1>3, <1>4, <1>5, <2>1, <2>3, <2>4
    <3> QED BY <1>1, <3>1, LoopKeeps
  <2>6. \A n \in 1 .. N : f[n] = ReleaseLast(f[n - 1], t, q[n])
    BY <1>5, <2>1, <2>3, <2>4, <2>5
  <2> DEFINE h == [n \in 0 .. N |-> IF n = 0 THEN z ELSE ReleaseLast(f[n - 1], t, q[n])]
  <2>7. f = [n \in 0 .. N |-> f[n]] /\ h = [n \in 0 .. N |-> h[n]]
    BY <2>3
  <2>8. \A n \in 0 .. N : h[n] = f[n]
    BY <2>3, <2>6
  <2> HIDE DEF h
  <2>9. f = h
    BY <2>7, <2>8
  <2> QED BY <2>9 DEF h
<1>8. turn = [n \in 0 .. N |-> IF n = 0 THEN z ELSE ReleaseLast(turn[n - 1], t, q[n])]
  BY <1>7
<1> HIDE DEF turn
<1>9. turn[0] = z /\ \A n \in 1 .. N : turn[n] = ReleaseLast(turn[n - 1], t, q[n])
  BY <1>1, <1>8
<1>10. \A n \in 0 .. N : turn[n] \in Good[n]
  <2>1. turn[0] \in Good[0]
        /\ \A n \in 1 .. N : turn[n - 1] \in Good[n - 1] => turn[n] \in Good[n]
    BY <1>3, <1>4, <1>9
  <2> QED BY <1>1, <2>1, LoopKeeps
<1>11. \A n \in 0 .. N : Keeps(turn[n], n)
  BY <1>6, <1>10
<1> QED BY <1>2, <1>9, <1>11 DEF q, N, ReleaseTurns

-----------------------------------------------------------------------------
(* The invariant. *)

(* Preemption is disabled exactly while the thread on the CPU is about to   *)
(* block in rt_mutex_take, no other thread stands there, and the idle       *)
(* thread can always run.                                                   *)
Sched(z, p) ==
  /\ z.k.nest = IF p[z.k.cur] = "block" THEN 1 ELSE 0
  /\ \A t \in Thread : p[t] = "block" => t = z.k.cur
  /\ Runnable(z.k, Idle) /\ p[Idle] = "run"

(* What holds of a state z, the places p in rt_mutex_take, its arguments a, *)
(* the error numbers e, the timers b and the mutexes l there are, at any    *)
(* moment: between two steps the thread on the CPU is also one that runs.   *)
Consistent(z, p, a, e, b, l) ==
  /\ QueuesOK(z) /\ Owned(z, l) /\ Calling(z, p, a, e)
  /\ p \in [Thread -> Pc] /\ a \in [Thread -> Mutex \cup {None}]
  /\ e \in [Thread -> {"EOK", "ETIMEOUT", "ERROR"}]
  /\ b \in [Thread -> BOOLEAN] /\ l \subseteq Mutex
  /\ Sched(z, p) /\ Started(z.k)
  /\ \A t \in Thread : (b[t] => IsSuspended(z.k, t)) /\ (p[t] # "run" => a[t] \in Mutex)

Runs(z, p) == p[z.k.cur] # "block" => Runnable(z.k, z.k.cur)

Settles(z, p, a, e, b, l) == Consistent(z, p, a, e, b, l) /\ Runs(z, p)

MutexInv == Settles(s, pc, arg, err, armed, live)

(* What a call may rely on.                                                 *)
LEMMA Facts ==
  ASSUME MutexInv
  PROVE  /\ s \in State /\ QueuesOK(s) /\ Owned(s, live) /\ Calling(s, pc, arg, err)
         /\ pc \in [Thread -> Pc] /\ arg \in [Thread -> Mutex \cup {None}]
         /\ err \in [Thread -> {"EOK", "ETIMEOUT", "ERROR"}]
         /\ armed \in [Thread -> BOOLEAN] /\ live \subseteq Mutex
         /\ Sched(s, pc) /\ Started(s.k)
         /\ \A t \in Thread : armed[t] => IsSuspended(s.k, t)
         /\ \A t \in Thread : pc[t] # "run" => arg[t] \in Mutex
         /\ self \in Thread /\ self # None
         /\ pc[self] # "block" => /\ s.k.stat[self] = "RUNNING" /\ s.k.nest = 0
                                  /\ \A t \in Thread : pc[t] # "block"
<1>1. s \in State /\ self \in Thread /\ self # None
  BY StateFields DEF MutexInv, Settles, Consistent, QueuesOK, self
<1>2. pc[self] # "block" => s.k.stat[self] = "RUNNING" /\ s.k.nest = 0
  BY DEF MutexInv, Settles, Consistent, Runs, Sched, QueuesOK, KernelOK, CurrentOK, Runnable, self
<1>3. pc[self] # "block" => \A t \in Thread : pc[t] # "block"
  BY DEF MutexInv, Settles, Consistent, Sched, self
<1> QED BY <1>1, <1>2, <1>3 DEF MutexInv, Settles, Consistent

(* Priorities do not matter to the invariant.                               *)
LEMMA AdjustedKeeps ==
  ASSUME NEW z, NEW r, Adjusted(z, r),
         NEW p, NEW a, NEW e, NEW b, NEW l, Consistent(z, p, a, e, b, l)
  PROVE  /\ Consistent(r, p, a, e, b, l)
         /\ Runs(z, p) => Runs(r, p)
<1>1. QueuesOK(r) /\ r.k.stat = z.k.stat /\ r.k.cur = z.k.cur /\ r.k.nest = z.k.nest
  BY DEF Adjusted
<1>2. Owned(r, l) /\ Calling(r, p, a, e)
  BY AdjustedRecords DEF Consistent
<1> QED BY <1>1, <1>2 DEF Consistent, Sched, Started, Runs, Runnable, IsSuspended

(* Rescheduling restores what it may lack.                                  *)
LEMMA ReschedSettles ==
  ASSUME NEW z, NEW p, NEW a, NEW e, NEW b, NEW l, Consistent(z, p, a, e, b, l)
  PROVE  Settles(Resched(z), p, a, e, b, l)
<1> DEFINE r == Resched(z)
<1>1. z \in State /\ QueuesOK(z)
  BY DEF Consistent, QueuesOK
<1>2. /\ QueuesOK(r) /\ r = [z EXCEPT !.k = r.k] /\ r.k.nest = z.k.nest
      /\ \A u \in Thread : Runnable(r.k, u) <=> Runnable(z.k, u)
      /\ \A u \in Thread : IsSuspended(r.k, u) <=> IsSuspended(z.k, u)
      /\ SameClosed(z.k, r.k) /\ (Started(z.k) => Started(r.k))
      /\ z.k.nest # 0 => r.k.cur = z.k.cur /\ r.k.stat = z.k.stat
      /\ (z.k.nest = 0 /\ \E u \in Thread : Runnable(z.k, u)) => HighestCurrent(r.k)
  BY <1>1, ReschedKeeps
<1> HIDE DEF r
<1>3. /\ r.owner = z.owner /\ r.hold = z.hold /\ r.taken = z.taken
      /\ r.pending = z.pending /\ r.queue = z.queue
  BY <1>1, <1>2 DEF State
<1>4. r.k.cur \in Thread /\ Idle \in Thread
  BY <1>2, StateFields, MutexAssumption DEF QueuesOK
<1>5. Owned(r, l) /\ Calling(r, p, a, e)
  BY <1>2, <1>3 DEF Consistent, Owned, Calling, SameClosed
<1>6. Sched(r, p) /\ Runs(r, p)
  <2>1. CASE z.k.nest = 0
    <3>1. \A t \in Thread : p[t] # "block"
      BY <2>1 DEF Consistent, Sched
    <3>2. HighestCurrent(r.k)
      BY <1>2, <1>4, <2>1 DEF Consistent, Sched
    <3> QED BY <1>2, <1>4, <2>1, <3>1, <3>2
            DEF Consistent, Sched, Runs, HighestCurrent, Runnable
  <2>2. CASE z.k.nest # 0
    BY <1>2, <1>4, <2>2 DEF Consistent, Sched, Runs
  <2> QED BY <2>1, <2>2
<1> QED BY <1>2, <1>5, <1>6 DEF Settles, Consistent, r

(* The invariant allows what the runs check.                                *)
LEMMA MutexInvChecks == MutexInv => TypeOK /\ OwnerOK /\ WaitOK /\ AssertsOK
<1> SUFFICES ASSUME MutexInv PROVE TypeOK /\ OwnerOK /\ WaitOK /\ AssertsOK
  OBVIOUS
<1>1. TypeOK
  BY Facts DEF TypeOK
<1>2. OwnerOK
  BY Facts DEF OwnerOK, Owned
<1>3. WaitOK
  <2>1. ASSUME NEW t \in Thread, NEW m \in Mutex
        PROVE  t \in Waiters(m) <=> InTake(t) /\ IsSuspended(s.k, t) /\ arg[t] = m
    <3>1. t \in Waiters(m) <=> IsSuspended(s.k, t) /\ s.pending[t] = m
      BY Facts DEF QueuesOK, Waiters
    <3>2. m # None
      BY MutexAssumption
    <3>3. s.pending[t] # None => s.k.stat[t] # "CLOSE" /\ pc[t] # "run" /\ arg[t] = s.pending[t]
      BY Facts DEF Calling
    <3>4. IsSuspended(s.k, t) /\ pc[t] # "run" => s.pending[t] = arg[t]
      BY Facts DEF Calling
    <3> QED BY <3>1, <3>2, <3>3, <3>4 DEF InTake, Alive
  <2>2. ASSUME NEW m \in Mutex
        PROVE  /\ IsInjective(s.queue[m])
               /\ s.queue[m] # <<>> => m \in live /\ s.owner[m] # None
               /\ \A t \in Waiters(m) : s.pending[t] = m
    <3>1. Waiters(m) \subseteq Thread
      BY Facts, StateFields, EmptyList DEF Waiters
    <3> QED BY <3>1, Facts DEF QueuesOK, Owned, Waiters
  <2> QED BY <2>1, <2>2 DEF WaitOK
<1>4. AssertsOK
  BY Facts DEF AssertsOK, Calling, InTake, Alive
<1> QED BY <1>1, <1>2, <1>3, <1>4

-----------------------------------------------------------------------------
(* The steps. *)

(* A further take of a mutex already owned.                                 *)
LEMMA TakeAgainStep ==
  ASSUME MutexInv, NEW m \in Mutex, TakeAgain(m)
  PROVE  MutexInv'
<1> DEFINE r == [s EXCEPT !.hold[m] = @ + 1]
<1>1. /\ Calls /\ s.owner[m] = self /\ m \in live /\ s.hold[m] < HoldMax
      /\ s' = r /\ pc' = pc /\ arg' = arg /\ err' = err /\ armed' = armed /\ live' = live
  BY DEF TakeAgain
<1>2. /\ r.k = s.k /\ r.queue = s.queue /\ r.owner = s.owner /\ r.pending = s.pending
      /\ r.taken = s.taken /\ r.hold = [s.hold EXCEPT ![m] = @ + 1]
  BY Facts DEF State
<1>3. s.hold \in [Mutex -> 0 .. HoldMax] /\ HoldMax \in Nat
  BY Facts, StateFields, MutexAssumption
<1>4. r \in State
  <2>1. [s.hold EXCEPT ![m] = @ + 1] \in [Mutex -> 0 .. HoldMax]
    BY <1>1, <1>3
  <2>2. r = [s EXCEPT !.hold = [s.hold EXCEPT ![m] = @ + 1]]
    OBVIOUS
  <2> HIDE DEF r
  <2> QED BY <2>1, <2>2, Facts DEF State
<1> HIDE DEF r
<1>5. QueuesOK(r) /\ Calling(r, pc, arg, err)
  BY <1>2, <1>4, Facts DEF QueuesOK, Calling
<1>6. Owned(r, live)
  <2>1. \A l \in live : r.owner[l] = None <=> r.hold[l] = 0
    BY <1>1, <1>2, <1>3, Facts DEF Owned
  <2> QED BY <1>2, <2>1, Facts DEF Owned
<1> QED BY <1>1, <1>2, <1>5, <1>6 DEF MutexInv, Settles, Consistent, Sched, Runs

(* A free mutex with its new owner, before the boost of its ceiling.        *)
Seized(m) == [s EXCEPT !.owner[m] = self, !.prio[m] = NoPrio, !.hold[m] = 1]

(* The free mutex is recorded with its new owner, and nothing else changes. *)
LEMMA SeizeKeeps ==
  ASSUME MutexInv, NEW m \in Mutex
  PROVE  LET z1 == Seized(m)
         IN  /\ QueuesOK(z1) /\ z1.k = s.k /\ z1.queue = s.queue /\ z1.ceil = s.ceil
             /\ z1.pending = s.pending /\ z1.taken = s.taken
             /\ z1.owner = [s.owner EXCEPT ![m] = self]
             /\ z1.hold = [s.hold EXCEPT ![m] = 1]
             /\ z1.prio = [s.prio EXCEPT ![m] = NoPrio]
<1> DEFINE t == self
           z1 == [s EXCEPT !.owner[m] = t, !.prio[m] = NoPrio, !.hold[m] = 1]
<1>1. /\ t \in Thread /\ s \in State /\ t # None /\ 1 \in 0 .. HoldMax
      /\ s.owner \in [Mutex -> Thread \cup {None}] /\ s.hold \in [Mutex -> 0 .. HoldMax]
      /\ s.prio \in [Mutex -> Prio \cup {NoPrio}]
  BY Facts, StateFields, MutexAssumption
<1>2. z1 = Seized(m)
  BY DEF Seized
<1> HIDE DEF t
<1>3. /\ z1.k = s.k /\ z1.queue = s.queue /\ z1.pending = s.pending /\ z1.taken = s.taken
      /\ z1.owner = [s.owner EXCEPT ![m] = t] /\ z1.hold = [s.hold EXCEPT ![m] = 1]
      /\ z1.prio = [s.prio EXCEPT ![m] = NoPrio] /\ z1.ceil = s.ceil
  BY <1>1 DEF State
<1>4. z1 \in State
  <2>1. /\ [s.owner EXCEPT ![m] = t] \in [Mutex -> Thread \cup {None}]
        /\ [s.hold EXCEPT ![m] = 1] \in [Mutex -> 0 .. HoldMax]
        /\ [s.prio EXCEPT ![m] = NoPrio] \in [Mutex -> Prio \cup {NoPrio}]
    BY <1>1
  <2>2. z1 = [s EXCEPT !.owner = [s.owner EXCEPT ![m] = t],
                       !.prio = [s.prio EXCEPT ![m] = NoPrio],
                       !.hold = [s.hold EXCEPT ![m] = 1]]
    OBVIOUS
  <2> HIDE DEF z1
  <2> QED BY <1>1, <2>1, <2>2 DEF State
<1> HIDE DEF z1
<1>5. QueuesOK(z1)
  BY <1>1, <1>3, <1>4, Facts DEF QueuesOK
<1> QED BY <1>2, <1>3, <1>5 DEF t

(* A free mutex is taken.                                                   *)
LEMMA TakeFreeStep ==
  ASSUME MutexInv, NEW m \in Mutex, TakeFree(m)
  PROVE  MutexInv'
<1> DEFINE t == self
           z1 == Seized(m)
           z2 == IF s.ceil[m] < s.k.cprio[t] THEN UpdatePriority(z1, t, s.ceil[m]) ELSE z1
           r == [z2 EXCEPT !.taken[t] = Cons(m, @)]
<1>1. /\ t # Idle /\ pc[t] = "run" /\ s.owner[m] = None /\ m \in live
      /\ s' = r /\ pc' = pc /\ arg' = arg /\ err' = err /\ armed' = armed /\ live' = live
  BY DEF TakeFree, Calls, InOrder, Seized
<1>2. /\ t \in Thread /\ s \in State /\ t # None /\ 1 \in 0 .. HoldMax
      /\ s.owner \in [Mutex -> Thread \cup {None}] /\ s.hold \in [Mutex -> 0 .. HoldMax]
      /\ s.ceil \in [Mutex -> Prio \cup {NoPrio}]
      /\ s.taken \in [Thread -> Seq(Mutex)] /\ s.k.cprio \in [Thread -> Prio]
      /\ \A u \in Thread : pc[u] # "block"
  BY <1>1, Facts, StateFields, MutexAssumption
<1>3. /\ QueuesOK(z1) /\ z1.k = s.k /\ z1.queue = s.queue /\ z1.pending = s.pending
      /\ z1.taken = s.taken
      /\ z1.owner = [s.owner EXCEPT ![m] = t] /\ z1.hold = [s.hold EXCEPT ![m] = 1]
  BY SeizeKeeps
<1>4. r = [z2 EXCEPT !.taken[t] = Cons(m, @)]
  OBVIOUS
<1> HIDE DEF t, z1, r
<1>7. Adjusted(z1, z2)
  <2>1. s.ceil[m] < s.k.cprio[t] => s.ceil[m] \in Prio
    <3>1. s.ceil[m] \in Prio \cup {NoPrio} /\ s.k.cprio[t] \in Prio
      BY <1>2
    <3>2. s.k.cprio[t] \in Nat /\ NoPrio \in Nat /\ s.k.cprio[t] < NoPrio
      BY <3>1, PrioNat
    <3>3. CASE s.ceil[m] = NoPrio
      BY <3>2, <3>3
    <3> QED BY <3>1, <3>3
  <2> QED BY <1>2, <1>3, <2>1, UpdatePriorityAdjusts, AdjustedSelf
<1> HIDE DEF z2
<1>8. /\ QueuesOK(z2) /\ z2 \in State /\ z2.k.stat = s.k.stat /\ z2.k.cur = s.k.cur
      /\ z2.k.nest = s.k.nest /\ z2.owner = z1.owner /\ z2.hold = z1.hold
      /\ z2.taken = s.taken /\ z2.pending = s.pending
      /\ \A l \in Mutex : ToSet(z2.queue[l]) = ToSet(s.queue[l])
  BY <1>3, <1>7 DEF Adjusted, QueuesOK
<1>9. s.taken[t] \in Seq(Mutex) /\ IsInjective(s.taken[t]) /\ m \notin ToSet(s.taken[t])
  BY <1>1, <1>2, Facts DEF Owned
<1>10. /\ Cons(m, s.taken[t]) \in Seq(Mutex) /\ IsInjective(Cons(m, s.taken[t]))
       /\ ToSet(Cons(m, s.taken[t])) = ToSet(s.taken[t]) \cup {m}
  BY <1>9, ConsNew
<1>11. r = [z2 EXCEPT !.taken = [s.taken EXCEPT ![t] = Cons(m, s.taken[t])]]
  BY <1>4, <1>8
<1>12. [s.taken EXCEPT ![t] = Cons(m, s.taken[t])] \in [Thread -> Seq(Mutex)]
  BY <1>2, <1>10
<1>13. /\ r \in State /\ r.k = z2.k /\ r.queue = z2.queue /\ r.owner = z2.owner /\ r.hold = z2.hold
       /\ r.pending = z2.pending /\ r.taken = [s.taken EXCEPT ![t] = Cons(m, s.taken[t])]
  BY <1>8, <1>11, <1>12 DEF State
<1>14. QueuesOK(r)
  BY <1>8, <1>13 DEF QueuesOK
<1>15. Owned(r, live)
  <2>1. r.owner = [s.owner EXCEPT ![m] = t] /\ r.hold = [s.hold EXCEPT ![m] = 1]
    BY <1>3, <1>8, <1>13
  <2>2. \A l \in live : r.owner[l] = None <=> r.hold[l] = 0
    BY <1>2, <2>1, Facts DEF Owned
  <2>3. ASSUME NEW j \in Mutex, NEW u \in Thread
        PROVE  j \in ToSet(r.taken[u]) <=> j \in live /\ r.owner[j] = u
    <3>1. j \in ToSet(s.taken[u]) <=> j \in live /\ s.owner[j] = u
      BY Facts DEF Owned
    <3>2. r.owner[j] = IF j = m THEN t ELSE s.owner[j]
      BY <1>2, <2>1
    <3>3. CASE u = t
      BY <1>1, <1>2, <1>10, <1>13, <3>1, <3>2, <3>3
    <3>4. CASE u # t
      <4>1. r.taken[u] = s.taken[u]
        BY <1>2, <1>13, <3>4
      <4>2. u # None
        BY MutexAssumption
      <4> QED BY <1>1, <3>1, <3>2, <3>4, <4>1, <4>2
    <3> QED BY <3>3, <3>4
  <2>4. \A u \in Thread : IsInjective(r.taken[u])
    BY <1>2, <1>10, <1>13, Facts DEF Owned
  <2>5. ASSUME NEW j \in Mutex, r.queue[j] # <<>> PROVE j \in live
    <3>1. s.queue[j] # <<>>
      <4>1. r.queue[j] \in Seq(Thread) /\ s.queue[j] \in Seq(Thread)
        BY <1>2, <1>13, StateFields
      <4>2. ToSet(r.queue[j]) = ToSet(s.queue[j])
        BY <1>8, <1>13
      <4> QED BY <2>5, <4>1, <4>2, EmptyList
    <3> QED BY <3>1, Facts DEF Owned
  <2> QED BY <2>2, <2>3, <2>4, <2>5 DEF Owned
<1>16. Calling(r, pc, arg, err)
  <2>1. r.k.stat = s.k.stat /\ r.pending = s.pending
    BY <1>8, <1>13
  <2>2. ASSUME NEW u \in Thread, pc[u] # "run", r.owner[arg[u]] = u PROVE s.owner[arg[u]] = u
    <3>1. arg[u] \in Mutex /\ u # t
      BY <1>1, <2>2, Facts
    <3> QED BY <1>2, <1>3, <1>8, <1>13, <2>2, <3>1
  <2> QED BY <2>1, <2>2, Facts DEF Calling, IsSuspended
<1>17. Sched(r, pc) /\ Runs(r, pc) /\ Started(r.k)
       /\ \A u \in Thread : armed[u] => IsSuspended(r.k, u)
  BY <1>8, <1>13, Facts DEF MutexInv, Settles, Sched, Runs, Started, Runnable, IsSuspended
<1> QED BY <1>1, <1>14, <1>15, <1>16, <1>17, Facts DEF MutexInv, Settles, Consistent

(* A thread goes to sleep, in the list of m or (in rt_thread_mdelay) in     *)
(* none.                                                                    *)
LEMMA SuspendTyped ==
  ASSUME NEW z, z \in State, KernelOK(z.k), NEW t \in Thread, Runnable(z.k, t)
  PROVE  LET k == SuspendThread(z.k, t)
         IN  /\ k \in KState /\ KernelOK(k) /\ k.cur = z.k.cur /\ k.nest = z.k.nest
             /\ k.cprio = z.k.cprio /\ k.iprio = z.k.iprio
             /\ \A u \in Thread : IsSuspended(k, u) <=> IsSuspended(z.k, u) \/ u = t
             /\ \A u \in Thread \ {t} : Runnable(z.k, u) => Runnable(k, u)
             /\ SameClosed(z.k, k) /\ (Started(z.k) => Started(k))
<1> DEFINE k == SuspendThread(z.k, t)
<1>1. z.k \in KState
  BY DEF KernelOK
<1>2. /\ KernelOK(k) /\ k.cur = z.k.cur /\ k.nest = z.k.nest
      /\ \A u \in Thread \ {t} : Runnable(z.k, u) => Runnable(k, u)
      /\ SameClosed(z.k, k)
  BY SuspendKeeps
<1>3. /\ k.cprio = z.k.cprio /\ k.iprio = z.k.iprio
      /\ \A u \in Thread \ {t} : k.stat[u] = z.k.stat[u]
      /\ k.stat[t] = "SUSPEND"
  BY <1>1, SuspendFrame
<1> HIDE DEF k
<1>4. \A u \in Thread : IsSuspended(k, u) <=> IsSuspended(z.k, u) \/ u = t
  BY <1>3 DEF IsSuspended
<1>5. Started(z.k) => Started(k)
  BY <1>3 DEF Started
<1> QED BY <1>2, <1>3, <1>4, <1>5 DEF KernelOK, k

(* The thread suspended among the waiters of m, before the boost.           *)
Joined(m) == [Enqueue(s, m, self) EXCEPT !.k = SuspendThread(s.k, self), !.pending[self] = m]

(* The taker is asleep, listed once with the waiters of m, and nothing else *)
(* of what the invariant relates changes.                                   *)
LEMMA JoinKeeps ==
  ASSUME MutexInv, NEW m \in Mutex, NEW w \in Waits, TakeBusy(m, w)
  PROVE  LET z1 == Joined(m)
             k1 == SuspendThread(s.k, self)
         IN  /\ s' = [Inherit(z1, self, m) EXCEPT !.k.nest = 1]
             /\ s.k.stat[self] = "RUNNING" /\ s.pending[self] = None
             /\ KernelOK(k1) /\ k1.cur = self /\ k1.nest = 0 /\ k1.cprio = s.k.cprio
             /\ \A u \in Thread : IsSuspended(k1, u) <=> IsSuspended(s.k, u) \/ u = self
             /\ \A u \in Thread \ {self} : Runnable(s.k, u) => Runnable(k1, u)
             /\ SameClosed(s.k, k1) /\ Started(k1)
             /\ QueuesOK(z1) /\ z1.k = k1 /\ z1.owner = s.owner /\ z1.hold = s.hold
             /\ z1.prio = s.prio /\ z1.taken = s.taken
             /\ z1.pending = [s.pending EXCEPT ![self] = m]
             /\ z1.queue = Enqueue(s, m, self).queue
             /\ \A l \in Mutex : l # m => z1.queue[l] = s.queue[l]
             /\ ToSet(z1.queue[m]) = ToSet(s.queue[m]) \cup {self}
<1> DEFINE t == self
           k1 == SuspendThread(s.k, t)
           d == Enqueue(s, m, t)
           z1 == [d EXCEPT !.k = k1, !.pending[t] = m]
<1>1. t # Idle /\ pc[t] = "run" /\ s.owner[m] # None
  BY DEF TakeBusy, Calls
<1>2. s' = [Inherit(z1, t, m) EXCEPT !.k.nest = 1]
  <2>1. s' = LET y == [Enqueue(s, m, self) EXCEPT !.k = SuspendThread(@, self),
                                                !.pending[self] = m]
                 x == Inherit(y, self, m)
             IN  [x EXCEPT !.k.nest = 1]
    BY DEF TakeBusy
  <2>2. d.k = s.k
    BY Facts DEF Enqueue, State
  <2> QED BY <2>1, <2>2
<1>3. /\ t \in Thread /\ s \in State /\ t # None /\ t = s.k.cur
      /\ s.owner \in [Mutex -> Thread \cup {None}]
      /\ s.pending \in [Thread -> Mutex \cup {None}] /\ s.queue \in [Mutex -> Seq(Thread)]
      /\ s.k.stat[t] = "RUNNING" /\ s.k.nest = 0 /\ KernelOK(s.k)
      /\ m # None /\ s.pending[t] = None
  <2>1. pc[t] # "block"
    BY <1>1
  <2>2. t \in Thread => (s.pending[t] # None => pc[t] # "run")
    BY Facts DEF Calling
  <2> QED BY <1>1, <2>1, <2>2, Facts, StateFields, MutexAssumption DEF QueuesOK, self
<1>4. z1 = Joined(m)
  BY DEF Joined
<1> HIDE DEF t
<1>5. t \notin ToSet(s.queue[m]) /\ \A l \in Mutex : IsInjective(s.queue[l])
  BY <1>3, Facts DEF QueuesOK
<1>6. /\ d = [s EXCEPT !.queue = d.queue] /\ d \in State
      /\ \A l \in Mutex : /\ IsInjective(d.queue[l])
                          /\ l # m => d.queue[l] = s.queue[l]
      /\ ToSet(d.queue[m]) = ToSet(s.queue[m]) \cup {t}
  <2>1. s \in State /\ t \in Thread /\ t \notin ToSet(s.queue[m])
        /\ \A l \in Mutex : IsInjective(s.queue[l])
    BY <1>3, <1>5
  <2> HIDE DEF k1, z1
  <2> QED BY <2>1, EnqueueKeeps
<1>7. /\ k1 \in KState /\ KernelOK(k1) /\ k1.cur = t /\ k1.nest = 0 /\ k1.cprio = s.k.cprio
      /\ \A u \in Thread : IsSuspended(k1, u) <=> IsSuspended(s.k, u) \/ u = t
      /\ \A u \in Thread \ {t} : Runnable(s.k, u) => Runnable(k1, u)
      /\ SameClosed(s.k, k1) /\ Started(k1)
  <2>1. Runnable(s.k, t) /\ Started(s.k)
    BY <1>3, Facts DEF Runnable
  <2> QED BY <1>3, <2>1, SuspendTyped
<1>8. z1 = [d EXCEPT !.k = k1, !.pending = [s.pending EXCEPT ![t] = m]]
  <2>1. d.pending = s.pending
    BY <1>3, <1>6 DEF State
  <2> QED BY <2>1
<1> HIDE DEF d, k1, z1
<1>9. /\ z1.k = k1 /\ z1.queue = d.queue /\ z1.owner = s.owner /\ z1.hold = s.hold
      /\ z1.prio = s.prio /\ z1.taken = s.taken
      /\ z1.pending = [s.pending EXCEPT ![t] = m] /\ z1 \in State
  <2>1. /\ d.owner = s.owner /\ d.hold = s.hold /\ d.taken = s.taken /\ d.prio = s.prio
    BY <1>3, <1>6 DEF State
  <2>2. [s.pending EXCEPT ![t] = m] \in [Thread -> Mutex \cup {None}]
    BY <1>3
  <2> QED BY <1>6, <1>7, <1>8, <2>1, <2>2 DEF State
<1>10. QueuesOK(z1)
  <2>1. ASSUME NEW l \in Mutex, d.queue[l] # <<>> PROVE s.owner[l] # None
    BY <1>1, <1>6, <2>1, Facts DEF QueuesOK
  <2>2. ASSUME NEW l \in Mutex, NEW u \in Thread
        PROVE  u \in ToSet(d.queue[l]) <=> IsSuspended(k1, u) /\ z1.pending[u] = l
    <3>1. u \in ToSet(s.queue[l]) <=> IsSuspended(s.k, u) /\ s.pending[u] = l
      BY Facts DEF QueuesOK
    <3>2. z1.pending[u] = IF u = t THEN m ELSE s.pending[u]
      BY <1>3, <1>9
    <3>3. u \in ToSet(d.queue[l]) <=> u \in ToSet(s.queue[l]) \/ (l = m /\ u = t)
      BY <1>6
    <3>4. ~ IsSuspended(s.k, t)
      BY <1>3 DEF IsSuspended
    <3> QED BY <1>7, <3>1, <3>2, <3>3, <3>4
  <2> QED BY <1>6, <1>7, <1>9, <2>1, <2>2 DEF QueuesOK
<1> QED BY <1>2, <1>3, <1>4, <1>6, <1>7, <1>9, <1>10 DEF t, k1, d

(* A take of a mutex that another thread owns.                              *)
LEMMA TakeBusyStep ==
  ASSUME MutexInv, NEW m \in Mutex, NEW w \in Waits, TakeBusy(m, w)
  PROVE  MutexInv'
<1> DEFINE t == self
           k1 == SuspendThread(s.k, t)
           z1 == Joined(m)
           z2 == Inherit(z1, t, m)
           r == [z2 EXCEPT !.k.nest = 1]
           p == [pc EXCEPT ![t] = "block"]
           a == [arg EXCEPT ![t] = m]
           e == [err EXCEPT ![t] = "EOK"]
           b == [armed EXCEPT ![t] = (w = "finite")]
<1>1. /\ t # Idle /\ pc[t] = "run" /\ s.owner[m] # None /\ s.owner[m] # t /\ m \in live
      /\ pc' = p /\ arg' = a /\ err' = e /\ armed' = b /\ live' = live
  BY DEF TakeBusy, Calls, InOrder
<1>2. /\ t \in Thread /\ s \in State /\ t # None /\ m # None
      /\ s.pending \in [Thread -> Mutex \cup {None}]
      /\ \A u \in Thread : pc[u] # "block"
  <2>1. pc[t] # "block"
    BY <1>1
  <2> QED BY <1>1, <2>1, Facts, StateFields, MutexAssumption
<1>4. /\ s' = r /\ s.k.stat[t] = "RUNNING" /\ s.pending[t] = None
      /\ KernelOK(k1) /\ k1.cur = t /\ k1.nest = 0
      /\ \A u \in Thread : IsSuspended(k1, u) <=> IsSuspended(s.k, u) \/ u = t
      /\ \A u \in Thread \ {t} : Runnable(s.k, u) => Runnable(k1, u)
      /\ SameClosed(s.k, k1) /\ Started(k1)
      /\ QueuesOK(z1) /\ z1.k = k1 /\ z1.owner = s.owner /\ z1.hold = s.hold
      /\ z1.taken = s.taken /\ z1.pending = [s.pending EXCEPT ![t] = m]
      /\ \A l \in Mutex : l # m => z1.queue[l] = s.queue[l]
  <2> HIDE DEF p, a, e, b
  <2> QED BY JoinKeeps
<1>5. k1 \in KState
  BY <1>4 DEF KernelOK
<1>6. Inherit(z1, t, m) = z2
  OBVIOUS
<1>8. r = [z2 EXCEPT !.k = [z2.k EXCEPT !.nest = 1]]
  OBVIOUS
<1> HIDE DEF t, k1, z1, z2, r, p, a, e, b
<1>11. Owned(z1, live)
  <2>1. \A l \in Mutex : z1.queue[l] # <<>> => l \in live
    BY <1>1, <1>4, Facts DEF Owned
  <2> QED BY <1>4, <2>1, Facts DEF Owned
<1>12. /\ p \in [Thread -> Pc] /\ a \in [Thread -> Mutex \cup {None}]
       /\ e \in [Thread -> {"EOK", "ETIMEOUT", "ERROR"}] /\ b \in [Thread -> BOOLEAN]
       /\ p[t] = "block" /\ a[t] = m /\ e[t] = "EOK"
       /\ \A u \in Thread \ {t} : p[u] = pc[u] /\ a[u] = arg[u] /\ e[u] = err[u] /\ b[u] = armed[u]
  BY <1>2, Facts DEF p, a, e, b, Pc
<1>13. Calling(z1, p, a, e)
  <2> SUFFICES ASSUME NEW u \in Thread
               PROVE  /\ z1.pending[u] # None => z1.k.stat[u] # "CLOSE" /\ p[u] # "run"
                                                  /\ a[u] = z1.pending[u]
                      /\ IsSuspended(z1.k, u) /\ p[u] # "run" => z1.pending[u] = a[u] /\ e[u] = "EOK"
                      /\ z1.k.stat[u] # "CLOSE" /\ p[u] # "run" /\ z1.owner[a[u]] = u =>
                           e[u] = "EOK" /\ z1.pending[u] = None
    BY DEF Calling
  <2>1. CASE u = t
    <3>1. z1.pending[t] = m /\ z1.k.stat[t] = "SUSPEND"
      BY <1>2, <1>4 DEF IsSuspended
    <3> QED BY <1>1, <1>4, <1>12, <2>1, <3>1
  <2>2. CASE u # t
    <3>1. z1.pending[u] = s.pending[u] /\ (z1.k.stat[u] = "CLOSE" <=> s.k.stat[u] = "CLOSE")
          /\ (IsSuspended(z1.k, u) <=> IsSuspended(s.k, u))
      BY <1>2, <1>4, <2>2 DEF SameClosed
    <3>2. /\ s.pending[u] # None => s.k.stat[u] # "CLOSE" /\ pc[u] # "run" /\ arg[u] = s.pending[u]
          /\ IsSuspended(s.k, u) /\ pc[u] # "run" => s.pending[u] = arg[u] /\ err[u] = "EOK"
          /\ s.k.stat[u] # "CLOSE" /\ pc[u] # "run" /\ s.owner[arg[u]] = u =>
               err[u] = "EOK" /\ s.pending[u] = None
      BY Facts DEF Calling
    <3>3. p[u] = pc[u] /\ a[u] = arg[u] /\ e[u] = err[u]
      BY <1>12, <2>2
    <3> QED BY <1>4, <3>1, <3>2, <3>3
  <2> QED BY <2>1, <2>2
<1>14. Adjusted(z1, z2)
  BY <1>1, <1>2, <1>4, <1>6, InheritAdjusts
<1>15. /\ QueuesOK(z2) /\ Owned(z2, live) /\ Calling(z2, p, a, e) /\ z2 \in State
       /\ z2.k.stat = k1.stat /\ z2.k.cur = t
  <2>1. Owned(z2, live) /\ Calling(z2, p, a, e)
    BY <1>4, <1>11, <1>13, <1>14, AdjustedRecords
  <2> QED BY <1>4, <1>14, <2>1 DEF Adjusted, QueuesOK
<1>16. /\ r.k = [z2.k EXCEPT !.nest = 1] /\ r.k.stat = k1.stat /\ r.k.cur = t /\ r.k.nest = 1
       /\ r.queue = z2.queue /\ r.owner = z2.owner /\ r.hold = z2.hold /\ r.taken = z2.taken
       /\ r.pending = z2.pending /\ KernelOK(r.k) /\ r \in State
  <2> DEFINE k2 == [z2.k EXCEPT !.nest = 1]
  <2>1. z2.k \in KState /\ KernelOK(z2.k)
    BY <1>15 DEF QueuesOK, KernelOK
  <2>2. /\ k2 \in KState /\ k2.cur = z2.k.cur /\ k2.stat = z2.k.stat /\ k2.mask = z2.k.mask
        /\ k2.cprio = z2.k.cprio /\ k2.list = z2.k.list /\ k2.group = z2.k.group /\ k2.nest = 1
    BY <2>1 DEF KState
  <2>3. KernelOK(k2)
    BY <2>1, <2>2, SameQueue
  <2> HIDE DEF k2
  <2>4. r = [z2 EXCEPT !.k = k2]
    BY <1>8 DEF k2
  <2>5. k2 = [z2.k EXCEPT !.nest = 1]
    BY DEF k2
  <2>6. /\ r.k = k2 /\ r.queue = z2.queue /\ r.owner = z2.owner /\ r.hold = z2.hold
        /\ r.taken = z2.taken /\ r.pending = z2.pending /\ r \in State
    BY <1>15, <2>2, <2>4 DEF State
  <2> QED BY <1>15, <2>2, <2>3, <2>5, <2>6
<1>17. QueuesOK(r) /\ Owned(r, live) /\ Calling(r, p, a, e)
  <2>1. r.k.stat = z2.k.stat
    BY <1>15, <1>16
  <2> QED BY <1>15, <1>16, <2>1 DEF QueuesOK, Owned, Calling, IsSuspended
<1>19. Sched(r, p) /\ Runs(r, p) /\ Started(r.k)
  <2>1. Runnable(k1, Idle) /\ Idle \in Thread /\ p[Idle] = "run"
    BY <1>1, <1>4, <1>12, Facts, MutexAssumption DEF Sched
  <2>2. \A u \in Thread : p[u] = "block" => u = t
    BY <1>2, <1>12
  <2> QED BY <1>4, <1>12, <1>16, <2>1, <2>2 DEF Sched, Runs, Started, Runnable
<1>20. ASSUME NEW u \in Thread
       PROVE  (b[u] => IsSuspended(r.k, u)) /\ (p[u] # "run" => a[u] \in Mutex)
  <2>1. IsSuspended(r.k, u) <=> IsSuspended(s.k, u) \/ u = t
    BY <1>4, <1>16 DEF IsSuspended
  <2> QED BY <1>12, <2>1, Facts
<1> QED BY <1>1, <1>4, <1>12, <1>17, <1>19, <1>20, Facts DEF MutexInv, Settles, Consistent

(* A state with another nest count and flag.                                *)
LEMMA NestKeeps ==
  ASSUME NEW z, QueuesOK(z), NEW n \in Nat, NEW b \in BOOLEAN
  PROVE  LET r == [z EXCEPT !.k.nest = n, !.k.flag = b]
         IN  /\ QueuesOK(r) /\ r.k.cur = z.k.cur /\ r.k.stat = z.k.stat /\ r.k.nest = n
             /\ r.k.cprio = z.k.cprio /\ r.k.iprio = z.k.iprio
             /\ r.queue = z.queue /\ r.owner = z.owner /\ r.hold = z.hold /\ r.prio = z.prio
             /\ r.ceil = z.ceil /\ r.taken = z.taken /\ r.pending = z.pending
<1> DEFINE k == [z.k EXCEPT !.nest = n, !.flag = b]
           r == [z EXCEPT !.k.nest = n, !.k.flag = b]
<1>1. z \in State /\ z.k \in KState /\ KernelOK(z.k)
  BY DEF QueuesOK, KernelOK
<1>2. /\ k \in KState /\ k.cur = z.k.cur /\ k.stat = z.k.stat /\ k.mask = z.k.mask
      /\ k.cprio = z.k.cprio /\ k.list = z.k.list /\ k.group = z.k.group /\ k.nest = n
      /\ k.iprio = z.k.iprio
  BY <1>1 DEF KState
<1>3. KernelOK(k)
  BY <1>1, <1>2, SameQueue
<1>4. r = [z EXCEPT !.k = k]
  BY <1>1 DEF State
<1> HIDE DEF k
<1>5. /\ r.k = k /\ r.queue = z.queue /\ r.owner = z.owner /\ r.hold = z.hold /\ r.prio = z.prio
      /\ r.ceil = z.ceil /\ r.taken = z.taken /\ r.pending = z.pending /\ r \in State
  BY <1>1, <1>2, <1>4 DEF State
<1> HIDE DEF r
<1>6. QueuesOK(r)
  BY <1>2, <1>3, <1>5, <1>1 DEF QueuesOK, IsSuspended
<1> QED BY <1>2, <1>5, <1>6 DEF r

(* The caller leaves the CPU.                                               *)
LEMMA TakeScheduleStep ==
  ASSUME MutexInv, TakeSchedule
  PROVE  MutexInv'
<1> DEFINE t == self
           z == [s EXCEPT !.k.nest = 0, !.k.flag = FALSE]
           p == [pc EXCEPT ![t] = "wait"]
<1>1. /\ pc[t] = "block" /\ s' = Resched(z) /\ pc' = p
      /\ arg' = arg /\ err' = err /\ armed' = armed /\ live' = live
  BY DEF TakeSchedule
<1>2. t \in Thread /\ t = s.k.cur
  BY Facts DEF self
<1>3. /\ QueuesOK(z) /\ z.k.cur = s.k.cur /\ z.k.stat = s.k.stat /\ z.k.nest = 0
      /\ z.queue = s.queue /\ z.owner = s.owner /\ z.hold = s.hold
      /\ z.taken = s.taken /\ z.pending = s.pending
  <2>1. QueuesOK(s) /\ 0 \in Nat /\ FALSE \in BOOLEAN
    BY Facts
  <2> HIDE DEF p, t
  <2> QED BY ZenonT(40), <2>1, NestKeeps
<1> HIDE DEF t, z
<1>4. /\ p \in [Thread -> Pc] /\ p[t] = "wait" /\ \A u \in Thread \ {t} : p[u] = pc[u]
  BY <1>2, Facts DEF Pc
<1> HIDE DEF p
<1>5. \A u \in Thread : p[u] = "run" <=> pc[u] = "run"
  BY <1>1, <1>4
<1>6. Owned(z, live) /\ Calling(z, p, arg, err)
  BY <1>3, <1>5, Facts DEF Owned, Calling, IsSuspended
<1>7. Sched(z, p)
  <2>1. \A u \in Thread : p[u] # "block"
    BY <1>2, <1>4, Facts DEF Sched
  <2>2. Idle \in Thread
    BY MutexAssumption
  <2> QED BY <1>2, <1>3, <1>5, <2>1, <2>2, Facts DEF Sched, Runnable
<1>8. Consistent(z, p, arg, err, armed, live)
  BY <1>3, <1>4, <1>5, <1>6, <1>7, Facts DEF Consistent, Started, IsSuspended
<1> QED BY <1>1, <1>8, ReschedSettles DEF MutexInv

(* The call returns.                                                        *)
LEMMA TakeReturnStep ==
  ASSUME MutexInv, TakeReturn
  PROVE  MutexInv'
<1> DEFINE t == self
           m == arg[t]
           y == LeaveWaiters(s, t, m)
           x == [y EXCEPT !.pending[t] = None]
           p == [pc EXCEPT ![t] = "run"]
           a == [arg EXCEPT ![t] = None]
<1>1. /\ pc[t] = "wait" /\ pc' = p /\ arg' = a
      /\ err' = err /\ armed' = armed /\ live' = live
  BY DEF TakeReturn
<1>2. s' = IF s.owner[m] = t THEN s ELSE x
  BY DEF TakeReturn
<1>3. /\ t \in Thread /\ t = s.k.cur /\ m \in Mutex /\ s \in State /\ t # Idle
      /\ s.k.stat[t] = "RUNNING" /\ s.pending \in [Thread -> Mutex \cup {None}]
      /\ \A u \in Thread : pc[u] # "block"
  BY <1>1, Facts, StateFields DEF self, Sched
<1> HIDE DEF t, m
<1>4. /\ p \in [Thread -> Pc] /\ a \in [Thread -> Mutex \cup {None}] /\ p[t] = "run"
      /\ \A u \in Thread \ {t} : p[u] = pc[u] /\ a[u] = arg[u]
  BY <1>3, Facts DEF Pc
<1> HIDE DEF p, a
<1> DEFINE r == s'
<1>5. /\ QueuesOK(r) /\ Owned(r, live) /\ r.k.stat = s.k.stat /\ r.k.cur = s.k.cur
      /\ r.k.nest = s.k.nest /\ r.owner = s.owner
      /\ r.pending[t] = None /\ \A u \in Thread \ {t} : r.pending[u] = s.pending[u]
  <2>1. CASE s.owner[m] = t
    <3>1. s.pending[t] = None
      BY <1>1, <1>3, <2>1, Facts DEF Calling, m
    <3> QED BY <1>2, <2>1, <3>1, Facts
  <2>2. CASE s.owner[m] # t
    <3>1. Adjusted(s, y)
      BY <1>3, Facts, LeaveWaitersAdjusts
    <3>2. Owned(y, live)
      BY <3>1, Facts, AdjustedRecords
    <3> HIDE DEF y
    <3>3. QueuesOK(y) /\ y \in State /\ y.k.stat = s.k.stat /\ y.k.cur = s.k.cur
          /\ y.k.nest = s.k.nest /\ y.owner = s.owner /\ y.pending = s.pending
      BY <3>1 DEF Adjusted, QueuesOK
    <3>4. x = [y EXCEPT !.pending = [s.pending EXCEPT ![t] = None]]
      BY <3>3
    <3>5. [s.pending EXCEPT ![t] = None] \in [Thread -> Mutex \cup {None}]
      BY <1>3
    <3> HIDE DEF x
    <3>6. /\ x \in State /\ x.k = y.k /\ x.queue = y.queue /\ x.owner = y.owner /\ x.hold = y.hold
          /\ x.taken = y.taken /\ x.pending = [s.pending EXCEPT ![t] = None]
      BY <3>3, <3>4, <3>5 DEF State
    <3>7. x.pending[t] = None /\ \A u \in Thread \ {t} : x.pending[u] = s.pending[u]
      BY <1>3, <3>6
    <3>8. ~ IsSuspended(y.k, t)
      BY <1>3, <3>3 DEF IsSuspended
    <3>9. QueuesOK(x)
      BY <3>3, <3>6, <3>7, <3>8 DEF QueuesOK
    <3>10. Owned(x, live)
      BY <3>2, <3>6 DEF Owned
    <3> QED BY <1>2, <2>2, <3>3, <3>6, <3>7, <3>9, <3>10
  <2> QED BY <2>1, <2>2
<1> HIDE DEF r
<1>6. Calling(r, p, a, err)
  <2> SUFFICES ASSUME NEW u \in Thread
               PROVE  /\ r.pending[u] # None => r.k.stat[u] # "CLOSE" /\ p[u] # "run"
                                                 /\ a[u] = r.pending[u]
                      /\ IsSuspended(r.k, u) /\ p[u] # "run" =>
                           r.pending[u] = a[u] /\ err[u] = "EOK"
                      /\ r.k.stat[u] # "CLOSE" /\ p[u] # "run" /\ r.owner[a[u]] = u =>
                           err[u] = "EOK" /\ r.pending[u] = None
    BY DEF Calling
  <2>1. CASE u = t
    BY <1>4, <1>5, <2>1
  <2>2. CASE u # t
    BY <1>4, <1>5, <2>2, Facts DEF Calling, IsSuspended
  <2> QED BY <2>1, <2>2
<1>7. Sched(r, p) /\ Runs(r, p) /\ Started(r.k)
      /\ \A u \in Thread : /\ armed[u] => IsSuspended(r.k, u)
                           /\ p[u] # "run" => a[u] \in Mutex
  <2>1. Idle \in Thread /\ p[Idle] = "run"
    BY <1>3, <1>4, Facts, MutexAssumption DEF Sched
  <2>2. \A u \in Thread : p[u] # "block"
    BY <1>3, <1>4
  <2> QED BY <1>3, <1>4, <1>5, <2>1, <2>2, Facts DEF Sched, Runs, Started, Runnable, IsSuspended
<1> QED BY <1>1, <1>4, <1>5, <1>6, <1>7, Facts DEF MutexInv, Settles, Consistent, r

(* A release.                                                               *)
LEMMA ReleaseStep ==
  ASSUME MutexInv, NEW m \in Mutex, Release(m)
  PROVE  MutexInv'
<1> DEFINE t == self
           w == [s EXCEPT !.hold[m] = @ - 1]
           z == ReleaseLast(s, t, m)
           b == [u \in Thread |-> armed[u] /\ u \notin Next1(m)]
<1>1. /\ t # Idle /\ pc[t] = "run" /\ s.owner[m] = t /\ m \in live
      /\ pc' = pc /\ arg' = arg /\ err' = err /\ live' = live
  BY DEF Release, Calls
<1>2. /\ t \in Thread /\ t = s.k.cur /\ s \in State /\ t # None
      /\ s.hold \in [Mutex -> 0 .. HoldMax] /\ HoldMax \in Nat
      /\ s.k.stat[t] = "RUNNING" /\ QueuesOK(s) /\ Owned(s, live) /\ Calling(s, pc, arg, err)
  BY <1>1, Facts, StateFields, MutexAssumption DEF self
<1>3. CASE s.hold[m] > 1
  <2>1. s' = w /\ armed' = armed
    BY <1>3 DEF Release
  <2>2. /\ w.k = s.k /\ w.queue = s.queue /\ w.owner = s.owner /\ w.pending = s.pending
        /\ w.taken = s.taken /\ w.hold = [s.hold EXCEPT ![m] = @ - 1]
    BY <1>2 DEF State
  <2>3. w \in State
    <3>1. [s.hold EXCEPT ![m] = @ - 1] \in [Mutex -> 0 .. HoldMax]
      BY <1>2, <1>3
    <3>2. w = [s EXCEPT !.hold = [s.hold EXCEPT ![m] = @ - 1]]
      OBVIOUS
    <3> HIDE DEF w
    <3> QED BY <1>2, <3>1, <3>2 DEF State
  <2> HIDE DEF w, t
  <2>4. QueuesOK(w) /\ Calling(w, pc, arg, err)
    BY <1>2, <2>2, <2>3 DEF QueuesOK, Calling
  <2>5. Owned(w, live)
    <3>1. \A l \in live : w.owner[l] = None <=> w.hold[l] = 0
      BY <1>1, <1>2, <1>3, <2>2, Facts DEF Owned
    <3> QED BY <1>2, <2>2, <3>1 DEF Owned
  <2> QED BY <1>1, <2>1, <2>2, <2>4, <2>5 DEF MutexInv, Settles, Consistent, Sched, Runs
<1>4. CASE ~ s.hold[m] > 1
  <2>1. s' \in {z, Resched(z)} /\ armed' = b
    BY <1>4 DEF Release
  <2>2. /\ QueuesOK(z) /\ Owned(z, live) /\ Calling(z, pc, arg, err)
        /\ z.k.cur = s.k.cur /\ z.k.nest = s.k.nest
        /\ \A u \in Thread : Runnable(s.k, u) => Runnable(z.k, u)
        /\ (Started(s.k) => Started(z.k))
        /\ \A u \in Thread : IsSuspended(z.k, u) <=> IsSuspended(s.k, u) /\ u \notin First(s, m)
    <3> HIDE DEF t
    <3> QED BY <1>1, <1>2, ReleaseKeeps
  <2>3. Next1(m) = First(s, m)
    BY DEF Next1, First
  <2>4. /\ b \in [Thread -> BOOLEAN]
        /\ \A u \in Thread : b[u] => armed[u] /\ u \notin First(s, m)
    BY <2>3, Facts
  <2> HIDE DEF z, b, t
  <2>5. Consistent(z, pc, arg, err, b, live) /\ Runs(z, pc)
    <3>1. Idle \in Thread
      BY MutexAssumption
    <3> QED BY <1>2, <2>2, <2>4, <3>1, Facts DEF Consistent, Sched, Runs, Runnable
  <2> QED BY <1>1, <2>1, <2>5, ReschedSettles DEF MutexInv, Settles
<1> QED BY <1>3, <1>4

(* rt_mutex_setprioceiling                                                  *)
LEMMA SetCeilingStep ==
  ASSUME MutexInv, NEW m \in Mutex, NEW c \in Ceilings, SetCeiling(m, c)
  PROVE  MutexInv'
<1> DEFINE z == [s EXCEPT !.ceil[m] = c]
<1>1. /\ s' = IF s.owner[m] = None THEN z ELSE Refresh(z, s.owner[m])
      /\ pc' = pc /\ arg' = arg /\ err' = err /\ armed' = armed /\ live' = live
  BY DEF SetCeiling
<1>2. s \in State /\ s.ceil \in [Mutex -> Prio \cup {NoPrio}] /\ c \in Prio
      /\ s.owner \in [Mutex -> Thread \cup {None}]
  BY Facts, StateFields, MutexAssumption
<1>3. /\ z.k = s.k /\ z.queue = s.queue /\ z.owner = s.owner /\ z.hold = s.hold
      /\ z.taken = s.taken /\ z.pending = s.pending
  BY <1>2 DEF State
<1>4. z \in State
  <2>1. [s.ceil EXCEPT ![m] = c] \in [Mutex -> Prio \cup {NoPrio}]
    BY <1>2
  <2>2. z = [s EXCEPT !.ceil = [s.ceil EXCEPT ![m] = c]]
    OBVIOUS
  <2> HIDE DEF z
  <2> QED BY <1>2, <2>1, <2>2 DEF State
<1> HIDE DEF z
<1>5. QueuesOK(z)
  BY <1>3, <1>4, Facts DEF QueuesOK
<1>6. Settles(z, pc, arg, err, armed, live)
  BY <1>3, <1>5 DEF MutexInv, Settles, Consistent, Owned, Calling, Sched, Runs
<1>7. s.owner[m] # None => Adjusted(z, Refresh(z, s.owner[m]))
  BY <1>2, <1>5, RefreshAdjusts
<1>8. s.owner[m] # None => Settles(Refresh(z, s.owner[m]), pc, arg, err, armed, live)
  BY <1>6, <1>7, AdjustedKeeps DEF Settles
<1> QED BY <1>1, <1>6, <1>8 DEF MutexInv

(* rt_mutex_detach and rt_mutex_delete.                                     *)
LEMMA DetachStep ==
  ASSUME MutexInv, NEW m \in Mutex, Detach(m)
  PROVE  MutexInv'
<1> DEFINE W  == ToSet(s.queue[m])
           z1 == ReadyAll(s, m)
           o  == s.owner[m]
           z2 == IF o = None THEN z1 ELSE [z1 EXCEPT !.taken[o] = RemoveFirst(@, m)]
           e == [t \in Thread |-> IF t \in W THEN "ERROR" ELSE err[t]]
           b == [t \in Thread |-> armed[t] /\ t \notin W]
           l == live \ {m}
<1>1. /\ m \in live /\ pc' = pc /\ arg' = arg /\ err' = e /\ armed' = b /\ live' = l
      /\ pc[self] = "run"
  BY DEF Detach, Calls
<1>2. s' = IF o # None /\ Restores(z2, o, m) THEN Resched(Restore(z2, o, m)) ELSE z2
  BY DEF Detach
<1>3. /\ s \in State /\ QueuesOK(s) /\ o \in Thread \cup {None}
      /\ s.taken \in [Thread -> Seq(Mutex)] /\ Idle \in Thread
  BY Facts, StateFields, MutexAssumption
<1>4. Woken(s, z1, W) /\ z1.queue[m] = <<>>
  BY <1>3, ReadyAllKeeps
<1> HIDE DEF z1
<1>5. /\ z1 \in State /\ QueuesOK(z1) /\ z1.taken = s.taken /\ z1.owner = s.owner /\ z1.hold = s.hold
      /\ z1.pending = s.pending /\ z1.k.cur = s.k.cur /\ z1.k.nest = s.k.nest
      /\ \A u \in Thread : Runnable(s.k, u) => Runnable(z1.k, u)
      /\ SameClosed(s.k, z1.k) /\ Started(z1.k)
      /\ \A u \in Thread : IsSuspended(z1.k, u) <=> IsSuspended(s.k, u) /\ u \notin W
      /\ \A j \in Mutex : ToSet(s.queue[j]) \cap W = {} => z1.queue[j] = s.queue[j]
  BY <1>4, Facts DEF Woken, QueuesOK
<1> DEFINE f == RemoveFirst(s.taken[o], m)
<1>6. /\ o # None => /\ f \in Seq(Mutex) /\ IsInjective(f) /\ ToSet(f) = ToSet(s.taken[o]) \ {m}
  BY <1>3, RemoveFirstProperties, Facts DEF Owned
<1>7. z2 = IF o = None THEN z1 ELSE [z1 EXCEPT !.taken = [s.taken EXCEPT ![o] = f]]
  BY <1>5
<1> HIDE DEF z2, f, o
<1>8. /\ z2 \in State /\ z2.k = z1.k /\ z2.queue = z1.queue /\ z2.owner = s.owner /\ z2.hold = s.hold
      /\ z2.pending = s.pending
      /\ z2.taken = IF o = None THEN s.taken ELSE [s.taken EXCEPT ![o] = f]
  <2>1. CASE o = None
    BY <1>5, <1>7, <2>1
  <2>2. CASE o # None
    <3>1. [s.taken EXCEPT ![o] = f] \in [Thread -> Seq(Mutex)]
      BY <1>3, <1>6, <2>2
    <3> QED BY <1>5, <1>7, <2>2, <3>1 DEF State
  <2> QED BY <2>1, <2>2
<1>9. QueuesOK(z2)
  BY <1>5, <1>8 DEF QueuesOK
<1>10. Owned(z2, l)
  <2>1. \A j \in l : z2.owner[j] = None <=> z2.hold[j] = 0
    BY <1>8, Facts DEF Owned
  <2>2. ASSUME NEW j \in Mutex, NEW u \in Thread
        PROVE  j \in ToSet(z2.taken[u]) <=> j \in l /\ z2.owner[j] = u
    <3>1. j \in ToSet(s.taken[u]) <=> j \in live /\ s.owner[j] = u
      BY Facts DEF Owned
    <3>2. u # None
      BY MutexAssumption
    <3>3. CASE u = o
      <4>1. z2.taken[u] = f
        BY <1>3, <1>8, <3>2, <3>3
      <4> QED BY <1>6, <1>8, <3>1, <3>2, <3>3, <4>1
    <3>4. CASE u # o
      <4>1. z2.taken[u] = s.taken[u]
        BY <1>3, <1>8, <3>4
      <4> QED BY <1>8, <3>1, <3>4, <4>1 DEF o
    <3> QED BY <3>3, <3>4
  <2>3. \A u \in Thread : IsInjective(z2.taken[u])
    BY <1>3, <1>6, <1>8, Facts DEF Owned
  <2>4. ASSUME NEW j \in Mutex, z2.queue[j] # <<>> PROVE j \in l
    <3>1. j # m
      BY <1>4, <1>8, <2>4
    <3>2. ToSet(s.queue[j]) \cap W = {}
      <4>1. W \subseteq Thread
        BY <1>3, StateFields, EmptyList
      <4> QED BY <1>3, <3>1, <4>1 DEF QueuesOK
    <3>3. s.queue[j] # <<>>
      BY <1>5, <1>8, <2>4, <3>2
    <3> QED BY <3>1, <3>3, Facts DEF Owned
  <2> QED BY <2>1, <2>2, <2>3, <2>4 DEF Owned
<1>11. /\ e \in [Thread -> {"EOK", "ETIMEOUT", "ERROR"}] /\ b \in [Thread -> BOOLEAN]
       /\ \A u \in Thread : u \notin W => e[u] = err[u]
       /\ \A u \in Thread : b[u] => armed[u] /\ u \notin W
  BY Facts
<1> HIDE DEF e, b
<1>12. Calling(z2, pc, arg, e)
  <2> SUFFICES ASSUME NEW u \in Thread
               PROVE  /\ z2.pending[u] # None => z2.k.stat[u] # "CLOSE" /\ pc[u] # "run"
                                                  /\ arg[u] = z2.pending[u]
                      /\ IsSuspended(z2.k, u) /\ pc[u] # "run" =>
                           z2.pending[u] = arg[u] /\ e[u] = "EOK"
                      /\ z2.k.stat[u] # "CLOSE" /\ pc[u] # "run" /\ z2.owner[arg[u]] = u =>
                           e[u] = "EOK" /\ z2.pending[u] = None
    BY DEF Calling
  <2>1. z2.k.stat[u] = "CLOSE" <=> s.k.stat[u] = "CLOSE"
    BY <1>5, <1>8 DEF SameClosed
  <2>2. IsSuspended(z2.k, u) <=> IsSuspended(s.k, u) /\ u \notin W
    BY <1>5, <1>8
  <2>3. CASE u \in W
    <3>1. s.owner[arg[u]] # u
      BY <2>3, Facts, WaiterNotOwner
    <3> QED BY <1>8, <2>1, <2>2, <2>3, <3>1, Facts DEF Calling
  <2>4. CASE u \notin W
    BY <1>8, <1>11, <2>1, <2>2, <2>4, Facts DEF Calling
  <2> QED BY <2>3, <2>4
<1>13. Sched(z2, pc) /\ Runs(z2, pc) /\ Started(z2.k)
  BY <1>3, <1>5, <1>8, Facts DEF MutexInv, Settles, Sched, Runs, self
<1> HIDE DEF W
<1>14. Settles(z2, pc, arg, e, b, l)
  BY <1>5, <1>8, <1>9, <1>10, <1>11, <1>12, <1>13, Facts DEF Settles, Consistent
<1>15. o # None => Settles(Resched(Restore(z2, o, m)), pc, arg, e, b, l)
  <2>1. o # None => Adjusted(z2, Restore(z2, o, m))
    BY <1>3, <1>9, RestoreAdjusts
  <2>2. o # None => Consistent(Restore(z2, o, m), pc, arg, e, b, l)
    BY <1>14, <2>1, AdjustedKeeps DEF Settles
  <2> QED BY <2>2, ReschedSettles
<1> QED BY <1>1, <1>2, <1>14, <1>15 DEF MutexInv

(* rt_thread_delete and rt_thread_detach of another thread.                 *)
LEMMA DeleteStep ==
  ASSUME MutexInv, NEW t \in Thread, Delete(t)
  PROVE  MutexInv'
<1> DEFINE m  == s.pending[t]
           z1 == Close(s, t)
           y  == LeaveWaiters(z1, t, m)
           z2 == IF m = None THEN z1 ELSE [y EXCEPT !.pending[t] = None]
           h  == [j \in Mutex |-> IF j \in ToSet(s.taken[t]) THEN 1 ELSE z2.hold[j]]
           r  == [z2 EXCEPT !.hold = h]
           b  == [armed EXCEPT ![t] = FALSE]
<1>1. /\ pc[self] = "run" /\ t # self /\ t # Idle /\ s.k.stat[t] # "CLOSE"
      /\ pc' = pc /\ arg' = arg /\ err' = err /\ armed' = b /\ live' = live
  BY MutexAssumption DEF Delete, Calls
<1>2. s' = r
  BY DEF Delete
<1>3. /\ s \in State /\ QueuesOK(s) /\ m \in Mutex \cup {None} /\ Idle \in Thread
      /\ s.pending \in [Thread -> Mutex \cup {None}] /\ s.taken \in [Thread -> Seq(Mutex)]
      /\ s.k.stat \in [Thread -> Stat] /\ s.k.stat[t] \notin {"INIT", "CLOSE"}
      /\ self \in Thread /\ self = s.k.cur /\ s.k.stat[self] = "RUNNING"
      /\ s.queue \in [Mutex -> Seq(Thread)]
  BY <1>1, Facts, StateFields, MutexAssumption DEF Started, self
<1>4. /\ QueuesOK(z1) /\ z1.k.stat = [s.k.stat EXCEPT ![t] = "CLOSE"]
      /\ z1.k.cur = s.k.cur /\ z1.k.nest = s.k.nest
      /\ z1.owner = s.owner /\ z1.hold = s.hold /\ z1.taken = s.taken /\ z1.pending = s.pending
      /\ \A j \in Mutex : ToSet(z1.queue[j]) = ToSet(s.queue[j]) \ {t}
  <2>1. QueuesOK(s) /\ s.k.stat[t] \notin {"INIT", "CLOSE"}
    BY <1>3
  <2>2. TakenOut(s, z1, t)
    BY <2>1, CloseKeeps
  <2> HIDE DEF m, z1, z2, h, r, b
  <2> QED BY <2>2 DEF TakenOut
<1> HIDE DEF z1, m
<1>5. /\ QueuesOK(z2) /\ z2 \in State /\ z2.k.stat = [s.k.stat EXCEPT ![t] = "CLOSE"]
      /\ z2.k.cur = s.k.cur /\ z2.k.nest = s.k.nest
      /\ z2.owner = s.owner /\ z2.hold = s.hold /\ z2.taken = s.taken
      /\ z2.pending = [s.pending EXCEPT ![t] = None]
      /\ \A j \in Mutex : ToSet(z2.queue[j]) \subseteq ToSet(s.queue[j])
  <2>1. CASE m = None
    <3>1. s.pending = [s.pending EXCEPT ![t] = None]
      BY <1>3, <2>1 DEF m
    <3> QED BY SMTT(30), <1>4, <2>1, <3>1 DEF QueuesOK
  <2>2. CASE m # None
    <3>1. Adjusted(z1, y)
      BY <1>3, <1>4, <2>2, LeaveWaitersAdjusts
    <3> HIDE DEF y
    <3>2. /\ QueuesOK(y) /\ y \in State /\ y.k.stat = z1.k.stat /\ y.k.cur = s.k.cur
          /\ y.k.nest = s.k.nest /\ y.owner = s.owner /\ y.hold = s.hold
          /\ y.taken = s.taken /\ y.pending = s.pending
          /\ \A j \in Mutex : ToSet(y.queue[j]) = ToSet(z1.queue[j])
      BY <1>4, <3>1 DEF Adjusted, QueuesOK
    <3>3. z2 = [y EXCEPT !.pending = [s.pending EXCEPT ![t] = None]]
      BY <2>2, <3>2
    <3>4. [s.pending EXCEPT ![t] = None] \in [Thread -> Mutex \cup {None}]
      BY <1>3
    <3> HIDE DEF z2
    <3>5. /\ z2 \in State /\ z2.k = y.k /\ z2.queue = y.queue /\ z2.owner = y.owner
          /\ z2.hold = y.hold /\ z2.taken = y.taken
          /\ z2.pending = [s.pending EXCEPT ![t] = None]
      BY <3>2, <3>3, <3>4 DEF State
    <3>6. ~ IsSuspended(y.k, t)
      BY <1>3, <1>4, <3>2 DEF IsSuspended
    <3>7. \A u \in Thread \ {t} : z2.pending[u] = y.pending[u]
      BY <1>3, <3>2, <3>5
    <3>8. z2.pending[t] = None /\ None \notin Mutex
      BY <1>3, <3>5, MutexAssumption
    <3>9. QueuesOK(z2)
      BY <3>2, <3>5, <3>6, <3>7, <3>8 DEF QueuesOK
    <3> QED BY <1>4, <3>2, <3>5, <3>9
  <2> QED BY <2>1, <2>2
<1> HIDE DEF z2
<1>6. /\ h \in [Mutex -> 0 .. HoldMax]
      /\ \A j \in Mutex : h[j] = IF s.owner[j] = t /\ j \in live THEN 1 ELSE s.hold[j]
  <2>1. s.hold \in [Mutex -> 0 .. HoldMax] /\ 1 \in 0 .. HoldMax
    BY <1>3, StateFields, MutexAssumption
  <2>2. \A j \in Mutex : j \in ToSet(s.taken[t]) <=> j \in live /\ s.owner[j] = t
    BY Facts DEF Owned
  <2> QED BY <1>5, <2>1, <2>2
<1> HIDE DEF h
<1>7. /\ r \in State /\ r.k = z2.k /\ r.queue = z2.queue /\ r.owner = s.owner /\ r.hold = h
      /\ r.taken = s.taken /\ r.pending = [s.pending EXCEPT ![t] = None]
  BY <1>5, <1>6 DEF State
<1> HIDE DEF r
<1>8. QueuesOK(r)
  <2>1. \A j \in Mutex : r.owner[j] = z2.owner[j]
    BY <1>5, <1>7
  <2> QED BY <1>5, <1>7, <2>1 DEF QueuesOK
<1>9. Owned(r, live)
  <2>1. t # None
    BY MutexAssumption
  <2>2. \A j \in live : r.owner[j] = None <=> r.hold[j] = 0
    BY <1>6, <1>7, <2>1, Facts DEF Owned
  <2>3. ASSUME NEW j \in Mutex, r.queue[j] # <<>> PROVE j \in live
    <3>1. r.queue[j] \in Seq(Thread) /\ s.queue[j] \in Seq(Thread)
      BY <1>3, <1>7, StateFields
    <3>2. s.queue[j] # <<>>
      <4>1. ToSet(r.queue[j]) # {}
        BY <2>3, <3>1, EmptyList
      <4>2. ToSet(s.queue[j]) # {}
        BY <1>5, <1>7, <4>1
      <4> QED BY <3>1, <4>2, EmptyList
    <3> QED BY <3>2, Facts DEF Owned
  <2> QED BY <1>7, <2>2, <2>3, Facts DEF Owned
<1>10. /\ r.pending[t] = None /\ \A u \in Thread \ {t} : r.pending[u] = s.pending[u]
       /\ r.k.stat[t] = "CLOSE" /\ \A u \in Thread \ {t} : r.k.stat[u] = s.k.stat[u]
  BY <1>3, <1>5, <1>7
<1>11. Calling(r, pc, arg, err)
  <2> SUFFICES ASSUME NEW u \in Thread
               PROVE  /\ r.pending[u] # None => r.k.stat[u] # "CLOSE" /\ pc[u] # "run"
                                                 /\ arg[u] = r.pending[u]
                      /\ IsSuspended(r.k, u) /\ pc[u] # "run" =>
                           r.pending[u] = arg[u] /\ err[u] = "EOK"
                      /\ r.k.stat[u] # "CLOSE" /\ pc[u] # "run" /\ r.owner[arg[u]] = u =>
                           err[u] = "EOK" /\ r.pending[u] = None
    BY DEF Calling
  <2>1. CASE u = t
    BY <1>10, <2>1 DEF IsSuspended
  <2>2. CASE u # t
    BY <1>7, <1>10, <2>2, Facts DEF Calling, IsSuspended
  <2> QED BY <2>1, <2>2
<1>12. Sched(r, pc) /\ Runs(r, pc) /\ Started(r.k)
  BY <1>1, <1>3, <1>5, <1>7, <1>10, Facts DEF Sched, Runs, Started, Runnable
<1>13. b \in [Thread -> BOOLEAN] /\ \A u \in Thread : b[u] => IsSuspended(r.k, u)
  BY <1>10, Facts DEF IsSuspended
<1> QED BY <1>1, <1>2, <1>8, <1>9, <1>11, <1>12, <1>13, Facts DEF MutexInv, Settles, Consistent

(* _thread_exit first takes the caller from its list.                       *)
LEMMA ExitCloses ==
  ASSUME MutexInv, Exit
  PROVE  LET r == Close(s, self)
         IN  /\ QueuesOK(r) /\ Owned(r, live) /\ Calling(r, pc, arg, err)
             /\ r.k.stat = [s.k.stat EXCEPT ![self] = "CLOSE"]
             /\ r.k.cur = s.k.cur /\ r.k.nest = s.k.nest /\ r.k.cprio = s.k.cprio
             /\ r.queue = s.queue /\ r.owner = s.owner /\ r.prio = s.prio
             /\ r.taken = s.taken /\ r.pending = s.pending
             /\ r.pending[self] = None
<1> DEFINE t  == self
           z1 == Close(s, t)
<1>1. pc[t] = "run"
  BY DEF Exit, Calls
<1>2. /\ t \in Thread /\ t = s.k.cur /\ s \in State /\ QueuesOK(s) /\ s.k.stat[t] = "RUNNING"
      /\ s.k.stat \in [Thread -> Stat] /\ s.queue \in [Mutex -> Seq(Thread)]
      /\ s.pending[t] = None
  <2>1. t \in Thread => (s.pending[t] # None => pc[t] # "run")
    BY Facts DEF Calling
  <2> QED BY <1>1, <2>1, Facts, StateFields DEF self
<1> HIDE DEF t
<1>3. /\ QueuesOK(z1) /\ z1.k.stat = [s.k.stat EXCEPT ![t] = "CLOSE"]
      /\ z1.k.cur = s.k.cur /\ z1.k.nest = s.k.nest
      /\ z1.k.cprio = s.k.cprio /\ z1.prio = s.prio
      /\ z1.owner = s.owner /\ z1.hold = s.hold /\ z1.taken = s.taken /\ z1.pending = s.pending
      /\ \A j \in Mutex : t \notin ToSet(s.queue[j]) => z1.queue[j] = s.queue[j]
  <2>1. QueuesOK(s) /\ t \in Thread /\ s.k.stat[t] \notin {"INIT", "CLOSE"}
    BY <1>2
  <2>2. TakenOut(s, z1, t)
    BY <2>1, CloseKeeps
  <2> HIDE DEF z1
  <2> QED BY <2>2 DEF TakenOut
<1>4. \A j \in Mutex : t \notin ToSet(s.queue[j])
  BY <1>2 DEF QueuesOK, IsSuspended
<1> HIDE DEF z1
<1>5. /\ z1.k.stat[t] = "CLOSE" /\ \A u \in Thread \ {t} : z1.k.stat[u] = s.k.stat[u]
      /\ \A j \in Mutex : z1.queue[j] = s.queue[j]
  BY <1>2, <1>3, <1>4
<1>8. z1.queue = s.queue
  <2>1. z1.queue \in [Mutex -> Seq(Thread)]
    BY <1>3, StateFields DEF QueuesOK
  <2> QED BY <1>2, <1>5, <2>1
<1>6. Owned(z1, live)
  BY <1>3, <1>5, Facts DEF Owned
<1>7. Calling(z1, pc, arg, err)
  <2> SUFFICES ASSUME NEW u \in Thread
               PROVE  /\ z1.pending[u] # None => z1.k.stat[u] # "CLOSE" /\ pc[u] # "run"
                                                  /\ arg[u] = z1.pending[u]
                      /\ IsSuspended(z1.k, u) /\ pc[u] # "run" =>
                           z1.pending[u] = arg[u] /\ err[u] = "EOK"
                      /\ z1.k.stat[u] # "CLOSE" /\ pc[u] # "run" /\ z1.owner[arg[u]] = u =>
                           err[u] = "EOK" /\ z1.pending[u] = None
    BY DEF Calling
  <2>1. CASE u = t
    BY <1>1, <1>2, <1>3, <2>1, Facts DEF Calling
  <2>2. CASE u # t
    BY <1>3, <1>5, <2>2, Facts DEF Calling, IsSuspended
  <2> QED BY <2>1, <2>2
<1> QED BY <1>2, <1>3, <1>6, <1>7, <1>8 DEF t, z1

(* Then it gives its mutexes away.                                          *)
LEMMA ExitStep ==
  ASSUME MutexInv, Exit
  PROVE  MutexInv'
<1> DEFINE t  == self
           z1 == Close(s, t)
           q  == s.taken[t]
           z2 == ReleaseAll(z1, t)
           b  == [u \in Thread |-> armed[u] /\ \A m \in ToSet(q) : u \notin Next1(m)]
<1>1. /\ t # Idle /\ pc[t] = "run" /\ s' = Resched(z2)
      /\ pc' = pc /\ arg' = arg /\ err' = err /\ armed' = b /\ live' = live
  BY DEF Exit, Calls
<1>2. /\ t \in Thread /\ t = s.k.cur /\ s \in State /\ QueuesOK(s) /\ s.k.stat[t] = "RUNNING"
      /\ s.k.stat \in [Thread -> Stat] /\ Idle \in Thread /\ q \in Seq(Mutex)
  BY <1>1, Facts, StateFields, MutexAssumption DEF self
<1>3. /\ QueuesOK(z1) /\ Owned(z1, live) /\ Calling(z1, pc, arg, err)
      /\ z1.k.stat = [s.k.stat EXCEPT ![t] = "CLOSE"]
      /\ z1.k.cur = s.k.cur /\ z1.k.nest = s.k.nest /\ z1.k.cprio = s.k.cprio
      /\ z1.queue = s.queue /\ z1.owner = s.owner /\ z1.prio = s.prio
      /\ z1.taken = s.taken /\ z1.pending = s.pending /\ z1.pending[t] = None
  <2> HIDE DEF q, z2, b
  <2> QED BY ExitCloses
<1> HIDE DEF t, z1
<1>5. /\ z1.k.stat[t] = "CLOSE" /\ \A u \in Thread \ {t} : z1.k.stat[u] = s.k.stat[u]
      /\ \A j \in Mutex : z1.queue[j] = s.queue[j]
  BY <1>2, <1>3
<1>8. /\ QueuesOK(z2) /\ Owned(z2, live) /\ Calling(z2, pc, arg, err)
      /\ Given(z1, z2, ToSet(q))
  <2> DEFINE N == Len(q)
  <2>1. PICK f : /\ \A n \in 0 .. N :
                      /\ QueuesOK(f[n]) /\ Owned(f[n], live) /\ Calling(f[n], pc, arg, err)
                      /\ Given(z1, f[n], {q[i] : i \in 1 .. n})
                 /\ z2 = f[N]
    <3>1. z1.taken[t] = q
      BY <1>3
    <3> HIDE DEF q, z2, b, N
    <3>2. z2 = ReleaseAll(z1, t) /\ N = Len(z1.taken[t])
      BY <3>1 DEF z2, N
    <3>3. ReleaseTurns(z1, t, live, pc, arg, err)
      BY <1>2, <1>3, ReleaseAllTurns
    <3> QED BY <3>1, <3>2, <3>3 DEF ReleaseTurns
  <2>2. N \in 0 .. N /\ {q[i] : i \in 1 .. N} = ToSet(q)
    BY <1>2 DEF ToSet
  <2> QED BY <2>1, <2>2
<1>9. \A m \in ToSet(q) : Next1(m) = First(z1, m)
  <2>1. ToSet(q) \subseteq Mutex
    BY <1>2, EmptyList
  <2> QED BY <1>5, <2>1 DEF Next1, First
<1> HIDE DEF q, z2
<1>10. /\ b \in [Thread -> BOOLEAN]
       /\ \A u \in Thread : b[u] => armed[u] /\ \A m \in ToSet(q) : u \notin First(z1, m)
  BY <1>9, Facts
<1> HIDE DEF b
<1>11. Consistent(z2, pc, arg, err, b, live)
  <2>1. Started(z1.k) /\ Runnable(z1.k, Idle)
    BY <1>1, <1>2, <1>5, Facts DEF Started, Sched, Runnable
  <2>2. Sched(z2, pc) /\ Started(z2.k)
    BY <1>2, <1>3, <1>8, <2>1, Facts DEF Given, Sched
  <2>3. \A u \in Thread : b[u] => IsSuspended(z2.k, u)
    <3>1. \A u \in Thread : armed[u] => IsSuspended(z1.k, u)
      BY <1>2, <1>5, Facts DEF IsSuspended
    <3> QED BY <1>8, <1>10, <3>1 DEF Given
  <2> QED BY <1>8, <1>10, <2>2, <2>3, Facts DEF Consistent
<1> QED BY <1>1, <1>11, ReschedSettles DEF MutexInv

(* rt_thread_mdelay: the caller sleeps in no list.                          *)
LEMMA SleepStep ==
  ASSUME MutexInv, Sleep
  PROVE  MutexInv'
<1> DEFINE t == self
           k1 == SuspendThread(s.k, t)
           z == [s EXCEPT !.k = k1]
           b == [armed EXCEPT ![t] = TRUE]
<1>1. /\ t # Idle /\ pc[t] = "run"
      /\ pc' = pc /\ arg' = arg /\ err' = err /\ armed' = b /\ live' = live
  BY DEF Sleep, Calls
<1>2. s' = Resched(z)
  BY DEF Sleep
<1>3. /\ t \in Thread /\ t = s.k.cur /\ s \in State /\ KernelOK(s.k) /\ Runnable(s.k, t)
      /\ Started(s.k) /\ Idle \in Thread /\ s.pending[t] = None /\ None \notin Mutex
  <2>1. t \in Thread => (s.pending[t] # None => pc[t] # "run")
    BY Facts DEF Calling
  <2> QED BY <1>1, <2>1, Facts, MutexAssumption DEF QueuesOK, Runnable, self
<1> HIDE DEF t
<1>4. /\ k1 \in KState /\ KernelOK(k1) /\ k1.cur = s.k.cur /\ k1.nest = s.k.nest
      /\ \A u \in Thread : IsSuspended(k1, u) <=> IsSuspended(s.k, u) \/ u = t
      /\ \A u \in Thread \ {t} : Runnable(s.k, u) => Runnable(k1, u)
      /\ SameClosed(s.k, k1) /\ Started(k1)
  <2> HIDE DEF z, b
  <2> QED BY <1>3, SuspendTyped
<1> HIDE DEF k1
<1>5. /\ z.k = k1 /\ z.queue = s.queue /\ z.owner = s.owner /\ z.hold = s.hold
      /\ z.taken = s.taken /\ z.pending = s.pending /\ z \in State
  BY <1>3, <1>4 DEF State
<1> HIDE DEF z
<1>6. QueuesOK(z)
  <2>1. ASSUME NEW l \in Mutex, NEW u \in Thread
        PROVE  u \in ToSet(s.queue[l]) <=> IsSuspended(k1, u) /\ s.pending[u] = l
    <3>1. u \in ToSet(s.queue[l]) <=> IsSuspended(s.k, u) /\ s.pending[u] = l
      BY Facts DEF QueuesOK
    <3> QED BY <1>3, <1>4, <3>1
  <2> QED BY <1>4, <1>5, <2>1, Facts DEF QueuesOK
<1>7. Owned(z, live)
  BY <1>5, Facts DEF Owned
<1>8. Calling(z, pc, arg, err)
  <2>1. \A u \in Thread : pc[u] # "run" => (IsSuspended(z.k, u) <=> IsSuspended(s.k, u))
    BY <1>1, <1>4, <1>5
  <2>2. \A u \in Thread : z.k.stat[u] = "CLOSE" <=> s.k.stat[u] = "CLOSE"
    BY <1>4, <1>5 DEF SameClosed
  <2> QED BY <1>5, <2>1, <2>2, Facts DEF Calling
<1>9. Sched(z, pc)
  BY <1>1, <1>3, <1>4, <1>5, Facts DEF Sched
<1>10. b \in [Thread -> BOOLEAN] /\ \A u \in Thread : b[u] => IsSuspended(z.k, u)
  BY <1>3, <1>4, <1>5, Facts
<1> HIDE DEF b
<1>11. Consistent(z, pc, arg, err, b, live)
  BY <1>4, <1>5, <1>6, <1>7, <1>8, <1>9, <1>10, Facts DEF Consistent
<1> QED BY <1>1, <1>2, <1>11, ReschedSettles DEF MutexInv

(* Waking one thread from outside the mutex calls: its timer is stopped and *)
(* a thread whose wait has failed may get another error number.             *)
LEMMA WakeConsistent ==
  ASSUME MutexInv, NEW t \in Thread, IsSuspended(s.k, t),
         NEW e \in [Thread -> {"EOK", "ETIMEOUT", "ERROR"}],
         \A u \in Thread \ {t} : e[u] = err[u]
  PROVE  Consistent(Ready(s, t), pc, arg, e, [armed EXCEPT ![t] = FALSE], live)
<1> DEFINE z == Ready(s, t)
           b == [armed EXCEPT ![t] = FALSE]
<1>1. Wakes(s, z, t)
  BY Facts, WakeKeeps
<1> HIDE DEF z
<1>2. /\ QueuesOK(z) /\ z.k.cur = s.k.cur /\ z.k.nest = s.k.nest
      /\ \A u \in Thread : Runnable(s.k, u) => Runnable(z.k, u)
      /\ SameClosed(s.k, z.k) /\ Started(z.k)
      /\ \A u \in Thread : IsSuspended(z.k, u) <=> IsSuspended(s.k, u) /\ u # t
      /\ z.owner = s.owner /\ z.hold = s.hold /\ z.taken = s.taken /\ z.pending = s.pending
      /\ \A m \in Mutex : ToSet(z.queue[m]) = ToSet(s.queue[m]) \ {t}
  BY <1>1, Facts DEF Wakes
<1>3. Owned(z, live)
  <2>1. ASSUME NEW j \in Mutex, z.queue[j] # <<>> PROVE j \in live
    <3>1. z.queue[j] \in Seq(Thread) /\ s.queue[j] \in Seq(Thread)
      BY <1>2, Facts, StateFields DEF QueuesOK
    <3>2. ToSet(z.queue[j]) # {}
      BY <2>1, <3>1, EmptyList
    <3>3. ToSet(s.queue[j]) # {}
      BY <1>2, <3>2
    <3>4. s.queue[j] # <<>>
      BY <3>1, <3>3, EmptyList
    <3> QED BY <3>4, Facts DEF Owned
  <2> QED BY <1>2, <2>1, Facts DEF Owned
<1>4. Calling(z, pc, arg, e)
  <2> SUFFICES ASSUME NEW u \in Thread
               PROVE  /\ z.pending[u] # None => z.k.stat[u] # "CLOSE" /\ pc[u] # "run"
                                                 /\ arg[u] = z.pending[u]
                      /\ IsSuspended(z.k, u) /\ pc[u] # "run" =>
                           z.pending[u] = arg[u] /\ e[u] = "EOK"
                      /\ z.k.stat[u] # "CLOSE" /\ pc[u] # "run" /\ z.owner[arg[u]] = u =>
                           e[u] = "EOK" /\ z.pending[u] = None
    BY DEF Calling
  <2>1. z.k.stat[u] = "CLOSE" <=> s.k.stat[u] = "CLOSE"
    BY <1>2 DEF SameClosed
  <2>2. /\ s.pending[u] # None => s.k.stat[u] # "CLOSE" /\ pc[u] # "run" /\ arg[u] = s.pending[u]
        /\ IsSuspended(s.k, u) /\ pc[u] # "run" => s.pending[u] = arg[u] /\ err[u] = "EOK"
        /\ s.k.stat[u] # "CLOSE" /\ pc[u] # "run" /\ s.owner[arg[u]] = u =>
             err[u] = "EOK" /\ s.pending[u] = None
    BY Facts DEF Calling
  <2>3. CASE u = t
    <3>1. pc[t] # "run" => arg[t] \in Mutex /\ arg[t] # None
      BY Facts, MutexAssumption
    <3>2. s.k.stat[t] = "SUSPEND"
      BY DEF IsSuspended
    <3> QED BY <1>2, <2>1, <2>2, <2>3, <3>1, <3>2
  <2>4. CASE u # t
    BY <1>2, <2>1, <2>2, <2>4
  <2> QED BY <2>3, <2>4
<1>5. Sched(z, pc)
  <2>1. Idle \in Thread
    BY MutexAssumption
  <2> QED BY <1>2, <2>1, Facts DEF Sched
<1>6. b \in [Thread -> BOOLEAN] /\ \A u \in Thread : b[u] => IsSuspended(z.k, u)
  BY <1>2, Facts
<1> HIDE DEF b
<1>7. Consistent(z, pc, arg, e, b, live)
  BY <1>2, <1>3, <1>4, <1>5, <1>6, Facts DEF Consistent
<1> QED BY <1>7 DEF z, b

(* rt_thread_resume                                                         *)
LEMMA ResumeStep ==
  ASSUME MutexInv, NEW t \in Thread, Resume(t)
  PROVE  MutexInv'
<1> DEFINE b == [armed EXCEPT ![t] = FALSE]
<1>1. /\ IsSuspended(s.k, t) /\ s' = Resched(Ready(s, t))
      /\ pc' = pc /\ arg' = arg /\ err' = err /\ armed' = b /\ live' = live
  BY DEF Resume
<1>2. Consistent(Ready(s, t), pc, arg, err, b, live)
  BY <1>1, Facts, WakeConsistent
<1> QED BY <1>1, <1>2, ReschedSettles DEF MutexInv

(* _thread_timeout                                                          *)
LEMMA TimeoutStep ==
  ASSUME MutexInv, NEW t \in Thread, Timeout(t)
  PROVE  MutexInv'
<1> DEFINE b == [armed EXCEPT ![t] = FALSE]
           e == IF pc[t] = "run" THEN err ELSE [err EXCEPT ![t] = "ETIMEOUT"]
<1>1. /\ armed[t] /\ s' = Resched([Dequeue(s, t) EXCEPT !.k = InsertThread(@, t)])
      /\ pc' = pc /\ arg' = arg /\ err' = e /\ armed' = b /\ live' = live
  BY DEF Timeout
<1>2. IsSuspended(s.k, t)
  BY <1>1, Facts
<1>3. Ready(s, t) = [Dequeue(s, t) EXCEPT !.k = InsertThread(@, t)]
  <2>1. Dequeue(s, t).k = s.k
    BY Facts DEF Dequeue, State
  <2> QED BY <1>2, <2>1 DEF Ready, ReadyThread
<1>4. /\ e \in [Thread -> {"EOK", "ETIMEOUT", "ERROR"}]
      /\ \A u \in Thread \ {t} : e[u] = err[u]
  BY Facts
<1> HIDE DEF e
<1>5. Consistent(Ready(s, t), pc, arg, e, b, live)
  BY <1>2, <1>4, WakeConsistent
<1> QED BY <1>1, <1>3, <1>5, ReschedSettles DEF MutexInv

(* All threads started, one of the highest priority running.                *)
LEMMA InitSettles == Init => MutexInv
<1> SUFFICES ASSUME Init PROVE MutexInv
  OBVIOUS
<1> DEFINE k == s.k
<1>1. Top \in Thread
  <2> DEFINE G == {InitPrio[t] : t \in Thread}
  <2>1. G \in SUBSET Nat /\ G # {}
    BY KernelAssumption, MutexAssumption
  <2>2. PICK p \in G : \A q \in G : p <= q
    <3> HIDE DEF G
    <3> QED BY <2>1, LeastPrio
  <2>3. \E t \in Thread : \A u \in Thread : InitPrio[t] <= InitPrio[u]
    BY <2>2
  <2> QED BY <2>3 DEF Top
<1>2. ASSUME NEW p \in Prio
      PROVE  /\ ReadyAt(p) \in Seq(Thread) /\ IsInjective(ReadyAt(p))
             /\ ToSet(ReadyAt(p)) = {t \in Thread : t # Top /\ InitPrio[t] = p}
  <2> DEFINE S == {t \in Thread \ {Top} : InitPrio[t] = p}
  <2>1. IsFiniteSet(S) /\ S \subseteq Thread
    BY MutexAssumption, FS_Subset
  <2>2. ReadyAt(p) = SetToSeq(S) /\ S = {t \in Thread : t # Top /\ InitPrio[t] = p}
    BY DEF ReadyAt
  <2> HIDE DEF S
  <2>3. SetToSeq(S) \in Seq(S) /\ IsInjective(SetToSeq(S)) /\ ToSet(SetToSeq(S)) = S
    BY <2>1, SetToSeqProperties
  <2> QED BY <2>1, <2>2, <2>3
<1>3. /\ k.cur = Top
      /\ k.stat = [t \in Thread |-> IF t = Top THEN "RUNNING" ELSE "READY"]
      /\ k.yield = [t \in Thread |-> FALSE] /\ k.iprio = InitPrio /\ k.cprio = InitPrio
      /\ k.mask = [t \in Thread |-> {InitPrio[t]}] /\ k.slice = [t \in Thread |-> InitTick]
      /\ k.list = [p \in Prio |-> ReadyAt(p)] /\ k.group = {p \in Prio : ReadyAt(p) # <<>>}
      /\ k.nest = 0 /\ k.flag = FALSE
      /\ k = [cur |-> k.cur, stat |-> k.stat, yield |-> k.yield, iprio |-> k.iprio,
              cprio |-> k.cprio, mask |-> k.mask, slice |-> k.slice, list |-> k.list,
              group |-> k.group, nest |-> k.nest, flag |-> k.flag]
  BY DEF Init
<1>4. /\ s = [k |-> k, owner |-> [m \in Mutex |-> None], hold |-> [m \in Mutex |-> 0],
              prio |-> [m \in Mutex |-> NoPrio], ceil |-> [m \in Mutex |-> NoPrio],
              queue |-> [m \in Mutex |-> <<>>], taken |-> [t \in Thread |-> <<>>],
              pending |-> [t \in Thread |-> None]]
      /\ pc = [t \in Thread |-> "run"] /\ arg = [t \in Thread |-> None]
      /\ err = [t \in Thread |-> "EOK"] /\ armed = [t \in Thread |-> FALSE] /\ live = Mutex
  BY DEF Init
<1> HIDE DEF k
<1>5. k \in KState
  <2>1. k.list \in [Prio -> Seq(Thread)]
    BY <1>2, <1>3
  <2>2. InitPrio \in [Thread -> Prio] /\ InitTick \in 1 .. InitTick
    BY KernelAssumption DEF Prio
  <2>3. k.mask \in [Thread -> SUBSET Prio]
    BY <1>3, <2>2
  <2>4. k.cur \in Thread /\ k.stat \in [Thread -> Stat]
    BY <1>1, <1>3 DEF Stat
  <2>5. /\ k.yield \in [Thread -> BOOLEAN] /\ k.iprio \in [Thread -> Prio]
        /\ k.cprio \in [Thread -> Prio] /\ k.slice \in [Thread -> 1 .. InitTick]
    BY <1>3, <2>2
  <2>6. k.group \in SUBSET Prio /\ k.nest \in Nat /\ k.flag \in BOOLEAN
    <3>1. {p \in Prio : ReadyAt(p) # <<>>} \subseteq Prio
      OBVIOUS
    <3>2. k.group \subseteq Prio
      BY <1>3, <3>1, Zenon
    <3>3. k.nest \in Nat
      BY <1>3
    <3>4. k.flag \in BOOLEAN
      BY <1>3, Zenon
    <3> QED BY <3>2, <3>3, <3>4, Zenon
  <2>7. k = [cur |-> k.cur, stat |-> k.stat, yield |-> k.yield, iprio |-> k.iprio,
             cprio |-> k.cprio, mask |-> k.mask, slice |-> k.slice, list |-> k.list,
             group |-> k.group, nest |-> k.nest, flag |-> k.flag]
    BY <1>3
  <2> QED BY <2>1, <2>3, <2>4, <2>5, <2>6, <2>7 DEF KState
<1>6. KernelOK(k)
  <2>1. MaskOK(k) /\ CurrentOK(k)
    BY <1>1, <1>3 DEF MaskOK, CurrentOK
  <2>2. ASSUME NEW p \in Prio
        PROVE  /\ IsInjective(k.list[p])
               /\ ToSet(k.list[p]) = {t \in Thread : k.stat[t] = "READY" /\ k.cprio[t] = p}
    <3>1. k.list[p] = ReadyAt(p)
      BY <1>3
    <3>2. \A t \in Thread : (k.stat[t] = "READY" /\ k.cprio[t] = p) <=> t # Top /\ InitPrio[t] = p
      BY <1>3
    <3> QED BY <1>2, <3>1, <3>2
  <2>3. GroupOK(k)
    BY <1>3 DEF GroupOK
  <2> QED BY <1>5, <2>1, <2>2, <2>3 DEF KernelOK, QueueOK, ListOK
<1>7. s.k = k /\ s \in State
  <2>1. HoldMax \in Nat /\ NoPrio \in Prio \cup {NoPrio}
    BY MutexAssumption
  <2> QED BY <1>4, <1>5, <2>1 DEF State
<1>8. \A S : <<>> \in Seq(S) /\ ToSet(<<>>) = {} /\ IsInjective(<<>>)
  BY DEF ToSet, IsInjective
<1>9. \A t \in Thread : ~ IsSuspended(k, t) /\ k.stat[t] \notin {"INIT", "CLOSE"} /\ Runnable(k, t)
  BY <1>3 DEF IsSuspended, Runnable
<1>10. QueuesOK(s)
  BY <1>4, <1>6, <1>7, <1>8, <1>9 DEF QueuesOK
<1>11. Owned(s, live)
  <2>1. \A t \in Thread : t # None
    BY MutexAssumption
  <2> QED BY <1>4, <1>8, <2>1 DEF Owned
<1>12. Calling(s, pc, arg, err)
  BY <1>4, <1>7, <1>9 DEF Calling
<1>13. Sched(s, pc) /\ Runs(s, pc) /\ Started(s.k)
  BY <1>1, <1>3, <1>4, <1>7, <1>9, MutexAssumption DEF Sched, Runs, Started
<1> QED BY <1>4, <1>10, <1>11, <1>12, <1>13 DEF MutexInv, Settles, Consistent, Pc

(* Every step of the program and every time-out keeps the invariant.        *)
LEMMA NextSettles == MutexInv /\ [Next]_vars => MutexInv'
<1> SUFFICES ASSUME MutexInv, [Next]_vars PROVE MutexInv'
  OBVIOUS
<1>1. CASE \E m \in Mutex : TakeAgain(m)
  BY <1>1, TakeAgainStep
<1>2. CASE \E m \in Mutex : TakeFree(m)
  BY <1>2, TakeFreeStep
<1>3. CASE \E m \in Mutex : Release(m)
  BY <1>3, ReleaseStep
<1>4. CASE \E m \in Mutex : Detach(m)
  BY <1>4, DetachStep
<1>5. CASE \E m \in Mutex : \E w \in Waits : TakeBusy(m, w)
  BY <1>5, TakeBusyStep
<1>6. CASE \E m \in Mutex : \E p \in Ceilings : SetCeiling(m, p)
  BY <1>6, SetCeilingStep
<1>7. CASE TakeSchedule
  BY <1>7, TakeScheduleStep
<1>8. CASE TakeReturn
  BY <1>8, TakeReturnStep
<1>9. CASE Exit
  BY <1>9, ExitStep
<1>10. CASE Sleep
  BY <1>10, SleepStep
<1>11. CASE \E t \in Thread : Delete(t)
  BY <1>11, DeleteStep
<1>12. CASE \E t \in Thread : Resume(t)
  BY <1>12, ResumeStep
<1>13. CASE \E t \in Thread : Timeout(t)
  BY <1>13, TimeoutStep
<1>14. CASE UNCHANGED vars
  BY <1>14 DEF vars, MutexInv, Settles, Consistent, QueuesOK, Owned, Calling, Sched, Started,
               Runs, Runnable, IsSuspended
<1> QED BY <1>1, <1>2, <1>3, <1>4, <1>5, <1>6, <1>7, <1>8, <1>9, <1>10, <1>11, <1>12,
           <1>13, <1>14 DEF Next

(* The invariant holds in every state.                                      *)
THEOREM MutexSettled == Spec => []MutexInv
<1> QED BY InitSettles, NextSettles, PTL DEF Spec

(* The state of the mutexes, the threads and the calls has its type.        *)
THEOREM MutexTyped == Spec => []TypeOK
<1>1. MutexInv => TypeOK
  BY MutexInvChecks
<1> QED BY <1>1, MutexSettled, PTL

(* Owner, hold count and lists of taken mutexes agree, whatever threads     *)
(* release, leave, are deleted or exit: OwnerOK.                            *)
THEOREM OwnersAgree == Spec => []OwnerOK
<1>1. MutexInv => OwnerOK
  BY MutexInvChecks
<1> QED BY <1>1, MutexSettled, PTL

(* A thread asleep in rt_mutex_take is in the list of its mutex, once, and  *)
(* that mutex has an owner: WaitOK.                                         *)
THEOREM WaitersListed == Spec => []WaitOK
<1>1. MutexInv => WaitOK
  BY MutexInvChecks
<1> QED BY <1>1, MutexSettled, PTL

(* The assertions of _thread_timeout and of rt_mutex_take never fail:       *)
(* AssertsOK.                                                               *)
THEOREM AssertionsHold == Spec => []AssertsOK
<1>1. MutexInv => AssertsOK
  BY MutexInvChecks
<1> QED BY <1>1, MutexSettled, PTL

-----------------------------------------------------------------------------
(* Priority inheritance. *)

(* The threads of the list q but x stand in the order of their priorities c.*)
SortedBut(q, c, x) ==
  \A i, j \in DOMAIN q : i < j /\ q[i] # x /\ q[j] # x => c[q[i]] <= c[q[j]]

(* Without a node the list is sorted even if the node was out of place.     *)
LEMMA RemoveSorted ==
  ASSUME NEW S, NEW q \in Seq(S), IsInjective(q), NEW e, NEW c, NEW x,
         SortedBut(q, c, x) \/ SortedBut(q, c, e)
  PROVE  SortedBut(RemoveFirst(q, e), c, x)
<1> SUFFICES ASSUME NEW i \in DOMAIN RemoveFirst(q, e), NEW j \in DOMAIN RemoveFirst(q, e),
                    i < j, RemoveFirst(q, e)[i] # x, RemoveFirst(q, e)[j] # x
             PROVE  c[RemoveFirst(q, e)[i]] <= c[RemoveFirst(q, e)[j]]
  BY DEF SortedBut
<1>1. RemoveFirst(q, e)[i] # e /\ RemoveFirst(q, e)[j] # e
  BY RemoveOrder
<1>2. PICK a, b \in DOMAIN q : /\ a < b
                               /\ RemoveFirst(q, e)[i] = q[a]
                               /\ RemoveFirst(q, e)[j] = q[b]
  BY RemoveOrder
<1> QED BY <1>1, <1>2 DEF SortedBut

(* A thread put before the first one that is less urgent, and after those   *)
(* that are not, is in its place.                                           *)
LEMMA InsertSorted ==
  ASSUME NEW z \in State, NEW m \in Mutex, NEW t \in Thread,
         SortedBut(z.queue[m], z.k.cprio, None)
  PROVE  SortedBut(Enqueue(z, m, t).queue[m], z.k.cprio, None)
<1> DEFINE q == z.queue[m]
           c == z.k.cprio
           A == Ahead(z, m, t)
           n == Cardinality(A)
           r == Enqueue(z, m, t).queue[m]
<1>1. /\ q \in Seq(Thread) /\ c \in [Thread -> Prio] /\ Prio \subseteq Nat
      /\ None \notin Thread /\ \A i \in DOMAIN q : q[i] \in Thread /\ c[q[i]] \in Nat
      /\ c[t] \in Nat
  <2>1. q \in Seq(Thread) /\ c \in [Thread -> Prio] /\ Prio \subseteq Nat /\ None \notin Thread
    BY StateFields, PrioNat
  <2>2. \A i \in DOMAIN q : q[i] \in Thread
    BY <2>1
  <2> HIDE DEF q, c
  <2> QED BY <2>1, <2>2
<1>2. A = {i \in DOMAIN q : \A j \in 1 .. i : c[q[j]] <= c[t]}
  BY DEF Ahead
<1>3. n + 1 \in 1 .. Len(q) + 1 /\ r = InsertAt(q, n + 1, t)
  <2>1. /\ n + 1 \in 1 .. Len(q) + 1
        /\ Enqueue(z, m, t) = [z EXCEPT !.queue[m] = InsertAt(q, n + 1, t)]
    BY EnqueuePlace
  <2> QED BY <2>1, StateFields DEF State
<1>4. \A i, j \in DOMAIN q : i < j => c[q[i]] <= c[q[j]]
  BY <1>1 DEF SortedBut
<1> HIDE DEF q, c
<1>5. A = 1 .. n /\ n \in 0 .. Len(q)
  <2> DEFINE B == {i \in 1 .. Len(q) : c[t] < c[q[i]]}
  <2>1. CASE B = {}
    <3>1. A = 1 .. Len(q)
      BY <1>1, <1>2, <2>1
    <3>2. Cardinality(1 .. Len(q)) = Len(q)
      <4>1. Len(q) \in Int /\ 1 \in Int /\ Len(q) >= 0
        BY <1>1
      <4> QED BY SMTT(30), <4>1, FS_Interval
    <3> QED BY <1>1, <3>1, <3>2
  <2>2. CASE B # {}
    <3>1. B \in SUBSET Nat
      BY <1>1
    <3>2. PICK k \in B : \A i \in B : k <= i
      <4> HIDE DEF B
      <4> QED BY <2>2, <3>1, LeastPrio
    <3>3. /\ k \in 1 .. Len(q) /\ c[t] < c[q[k]]
          /\ \A i \in 1 .. Len(q) : c[t] < c[q[i]] => k <= i
      BY <3>2
    <3>4. \A i \in 1 .. k - 1 : c[q[i]] <= c[t]
      BY <1>1, <3>3
    <3>5. A = 1 .. k - 1
      <4>1. ASSUME NEW i \in 1 .. k - 1 PROVE i \in A
        <5>1. i \in DOMAIN q /\ \A j \in 1 .. i : j \in 1 .. k - 1
          BY <1>1, <3>3
        <5> QED BY <1>2, <3>4, <5>1
      <4>2. ASSUME NEW i \in A PROVE i \in 1 .. k - 1
        <5>1. i \in 1 .. Len(q) /\ \A j \in 1 .. i : c[q[j]] <= c[t]
          BY <1>1, <1>2
        <5>2. ~ k \in 1 .. i
          BY <1>1, <3>3, <5>1
        <5> QED BY <3>3, <5>1, <5>2
      <4> QED BY <4>1, <4>2
    <3>6. Cardinality(1 .. k - 1) = k - 1
      <4>1. k - 1 \in Int /\ 1 \in Int /\ k - 1 >= 0
        BY <3>3
      <4> QED BY <4>1, FS_Interval
    <3> QED BY <1>1, <3>3, <3>5, <3>6
  <2> QED BY <2>1, <2>2
<1> HIDE DEF n, A
<1>6. \A i \in 1 .. Len(q) : i <= n => c[q[i]] <= c[t]
  BY <1>1, <1>2, <1>5
<1>7. \A i \in 1 .. Len(q) : i > n => c[t] < c[q[i]]
  <2> SUFFICES ASSUME NEW i \in 1 .. Len(q), i > n PROVE c[t] < c[q[i]]
    OBVIOUS
  <2>1. n + 1 \in 1 .. Len(q) /\ n + 1 \notin A
    BY <1>5
  <2>2. PICK j \in 1 .. n + 1 : ~ (c[q[j]] <= c[t])
    BY <1>1, <1>2, <2>1
  <2>3. j \in DOMAIN q /\ j <= i /\ i \in DOMAIN q
    BY <1>1, <1>5, <2>1, <2>2
  <2>4. c[q[j]] <= c[q[i]]
    BY <1>1, <1>4, <2>3
  <2> QED BY <1>1, <2>2, <2>3, <2>4
<1>8. /\ DOMAIN r = 1 .. Len(q) + 1
      /\ \A j \in 1 .. Len(q) + 1 :
           r[j] = IF j < n + 1 THEN q[j] ELSE IF j = n + 1 THEN t ELSE q[j - 1]
  BY <1>1, <1>3, InsertAtProperties
<1> HIDE DEF r
<1>9. ASSUME NEW i \in 1 .. Len(q) + 1, NEW j \in 1 .. Len(q) + 1, i < j
      PROVE  c[r[i]] <= c[r[j]]
  <2>1. CASE j <= n
    <3>1. r[i] = q[i] /\ r[j] = q[j] /\ i \in DOMAIN q /\ j \in DOMAIN q
      BY <1>1, <1>5, <1>8, <1>9, <2>1
    <3> QED BY <1>4, <1>9, <3>1
  <2>2. CASE j = n + 1
    <3>1. r[i] = q[i] /\ r[j] = t /\ i \in 1 .. Len(q) /\ i <= n
      BY <1>1, <1>5, <1>8, <1>9, <2>2
    <3> QED BY <1>6, <3>1
  <2>3. CASE j > n + 1 /\ i = n + 1
    <3>1. r[i] = t /\ r[j] = q[j - 1] /\ j - 1 \in 1 .. Len(q) /\ j - 1 > n
      BY <1>1, <1>5, <1>8, <1>9, <2>3
    <3>2. c[t] < c[q[j - 1]] /\ c[t] \in Nat /\ c[q[j - 1]] \in Nat
      BY <1>1, <1>7, <3>1
    <3> QED BY <3>1, <3>2
  <2>4. CASE j > n + 1 /\ i < n + 1
    <3>1. r[i] = q[i] /\ r[j] = q[j - 1] /\ i \in DOMAIN q /\ j - 1 \in DOMAIN q
          /\ i < j - 1
      BY <1>1, <1>5, <1>8, <1>9, <2>4
    <3> QED BY <1>4, <3>1
  <2>5. CASE j > n + 1 /\ i > n + 1
    <3>1. r[i] = q[i - 1] /\ r[j] = q[j - 1] /\ i - 1 \in DOMAIN q /\ j - 1 \in DOMAIN q
          /\ i - 1 < j - 1
      BY <1>1, <1>5, <1>8, <1>9, <2>5
    <3> QED BY <1>4, <3>1
  <2> QED BY <1>5, <2>1, <2>2, <2>3, <2>4, <2>5
<1> QED BY <1>8, <1>9 DEF SortedBut, r, c

(* The first waiter of a sorted list is the most urgent.                    *)
LEMMA HeadUrgent ==
  ASSUME NEW q \in Seq(Thread), NEW c \in [Thread -> Prio], SortedBut(q, c, None),
         NEW w \in ToSet(q)
  PROVE  c[Head(q)] <= c[w]
<1>1. PICK i \in 1 .. Len(q) : w = q[i]
  BY DEF ToSet
<1>2. 1 \in DOMAIN q /\ i \in DOMAIN q /\ Head(q) = q[1]
  BY <1>1
<1>3. q[1] \in Thread /\ q[i] \in Thread /\ None \notin Thread
  BY <1>2, MutexAssumption
<1>4. c[q[1]] \in Nat
  BY <1>3, PrioNat
<1> QED BY <1>1, <1>2, <1>3, <1>4 DEF SortedBut

(* A recorded priority is a number, and none is the lowest.                 *)
LEMMA RecordedNat == \A p \in Prio \cup {NoPrio} : p \in Nat /\ p <= NoPrio
<1> SUFFICES ASSUME NEW p \in Prio \cup {NoPrio} PROVE p \in Nat /\ p <= NoPrio
  OBVIOUS
<1>1. CASE p \in Prio
  BY <1>1, PrioNat
<1>2. CASE p = NoPrio
  BY <1>2, PrioNat
<1> QED BY <1>1, <1>2

-----------------------------------------------------------------------------
(* What inheritance keeps up. *)

(* The waiters but x stand in the order of their priorities; a mutex has    *)
(* recorded a priority no lower than that of any waiter but x; and a thread *)
(* other than y is no less urgent than what its mutexes have recorded.      *)
Ordered(z, x) == \A m \in Mutex : SortedBut(z.queue[m], z.k.cprio, x)
Recorded(z, x) ==
  \A m \in Mutex : \A w \in ToSet(z.queue[m]) \ {x} : z.prio[m] <= z.k.cprio[w]
Passed(z, y) ==
  \A u \in Thread \ {y} : \A m \in ToSet(z.taken[u]) : z.k.cprio[u] <= z.prio[m]

Loose(z, x, y) == Ordered(z, x) /\ Recorded(z, x) /\ Passed(z, y)
Boosted(z) == Loose(z, None, None)

(* A mutex in a thread's list is owned by it, one that is waited for is in  *)
(* its owner's list, and who waits has only taken mutexes of a lower rank.  *)
Chains(z) ==
  /\ \A u \in Thread : \A m \in ToSet(z.taken[u]) : z.owner[m] = u
  /\ \A m \in Mutex : z.queue[m] # <<>> => m \in ToSet(z.taken[z.owner[m]])
  /\ \A t \in Thread :
       z.pending[t] # None => \A l \in ToSet(z.taken[t]) : Rank[l] < Rank[z.pending[t]]

(* Priorities do not matter to the chains.                                  *)
LEMMA AdjustedChains ==
  ASSUME NEW z, NEW r, Adjusted(z, r), QueuesOK(z), Chains(z)
  PROVE  Chains(r)
<1>1. \A m \in Mutex : r.queue[m] = <<>> <=> z.queue[m] = <<>>
  <2>1. z \in State /\ r \in State
    BY DEF Adjusted, QueuesOK
  <2> QED BY <2>1, StateFields, EmptyList DEF Adjusted
<1> QED BY <1>1 DEF Adjusted, Chains

(* A new priority that the thread's mutexes allow disturbs at most the list *)
(* the thread waits in.                                                     *)
LEMMA SetThreadLoosens ==
  ASSUME NEW z, QueuesOK(z), NEW t \in Thread, NEW p \in Prio, Loose(z, t, t) \/ Loose(z, None, t),
         \A m \in ToSet(z.taken[t]) : p <= z.prio[m]
  PROVE  Loose(SetThread(z, t, p), t, None)
<1> DEFINE r == SetThread(z, t, p)
<1>1. z \in State /\ t # None /\ None \notin Thread
  BY MutexAssumption DEF QueuesOK
<1>2. /\ r.queue = z.queue /\ r.prio = z.prio /\ r.taken = z.taken
      /\ r.k.cprio = [z.k.cprio EXCEPT ![t] = p]
  BY SetThreadAdjusts DEF Adjusted
<1> HIDE DEF r
<1>3. /\ r.k.cprio[t] = p /\ \A u \in Thread \ {t} : r.k.cprio[u] = z.k.cprio[u]
  BY <1>1, <1>2, StateFields
<1>4. /\ \A m \in Mutex : z.queue[m] \in Seq(Thread) /\ ToSet(z.queue[m]) \subseteq Thread
      /\ \A m \in Mutex : \A i \in DOMAIN z.queue[m] : z.queue[m][i] \in Thread
  BY <1>1, StateFields, EmptyList
<1>5. Ordered(r, t)
  <2>1. Ordered(z, t) \/ Ordered(z, None)
    BY DEF Loose
  <2>2. ASSUME NEW m \in Mutex, NEW i \in DOMAIN z.queue[m], NEW j \in DOMAIN z.queue[m],
               i < j, z.queue[m][i] # t, z.queue[m][j] # t
        PROVE  r.k.cprio[z.queue[m][i]] <= r.k.cprio[z.queue[m][j]]
    <3>1. z.queue[m][i] \in Thread \ {t} /\ z.queue[m][j] \in Thread \ {t}
      BY <1>4, <2>2
    <3>2. z.k.cprio[z.queue[m][i]] <= z.k.cprio[z.queue[m][j]]
      BY <1>1, <2>1, <2>2, <3>1 DEF Ordered, SortedBut
    <3> QED BY <1>3, <3>1, <3>2
  <2> QED BY <1>2, <2>2 DEF Ordered, SortedBut
<1>6. Recorded(r, t)
  <2>1. Recorded(z, t) \/ Recorded(z, None)
    BY DEF Loose
  <2>2. ASSUME NEW m \in Mutex, NEW w \in ToSet(z.queue[m]) \ {t}
        PROVE  z.prio[m] <= r.k.cprio[w]
    <3>1. w \in Thread \ {t}
      BY <1>4
    <3> QED BY <1>1, <1>3, <2>1, <3>1 DEF Recorded
  <2> QED BY <1>2, <2>2 DEF Recorded
<1>7. Passed(r, None)
  <2>1. ASSUME NEW u \in Thread, NEW m \in ToSet(z.taken[u])
        PROVE  r.k.cprio[u] <= z.prio[m]
    <3>1. CASE u = t
      BY <1>3, <3>1
    <3>2. CASE u # t
      BY <1>3, <3>2 DEF Loose, Passed
    <3> QED BY <3>1, <3>2
  <2> QED BY <1>2, <2>1 DEF Passed
<1> QED BY <1>5, <1>6, <1>7 DEF Loose, r

(* Which is no disturbance at all if it does not wait.                      *)
LEMMA LooseAbsent ==
  ASSUME NEW z, QueuesOK(z), NEW t \in Thread, Loose(z, t, None),
         ~ (IsSuspended(z.k, t) /\ z.pending[t] # None)
  PROVE  Boosted(z)
<1>1. z \in State /\ None \notin Thread /\ None \notin Mutex
  BY MutexAssumption DEF QueuesOK
<1>2. \A m \in Mutex : t \notin ToSet(z.queue[m])
  BY <1>1 DEF QueuesOK
<1>3. \A m \in Mutex : z.queue[m] \in Seq(Thread) /\ ToSet(z.queue[m]) \subseteq Thread
  BY <1>1, StateFields, EmptyList
<1>4. \A m \in Mutex : \A i \in DOMAIN z.queue[m] : z.queue[m][i] # t
  BY <1>2 DEF ToSet
<1>5. Ordered(z, None)
  BY <1>4 DEF Loose, Ordered, SortedBut
<1>6. Recorded(z, None)
  BY <1>2 DEF Loose, Recorded
<1> QED BY <1>5, <1>6 DEF Loose, Boosted

(* _mutex_update_priority in a sorted list records what it should, and      *)
(* never a higher priority than was recorded, if that was high enough.      *)
LEMMA UpdateMutexRecords ==
  ASSUME NEW z, QueuesOK(z), NEW m \in Mutex, Ordered(z, None),
         \A l \in Mutex \ {m} : \A w \in ToSet(z.queue[l]) : z.prio[l] <= z.k.cprio[w]
  PROVE  LET r == UpdateMutex(z, m)
         IN  /\ Ordered(r, None) /\ Recorded(r, None)
             /\ (\A w \in ToSet(z.queue[m]) : z.prio[m] <= z.k.cprio[w]) => z.prio[m] <= r.prio[m]
             /\ \A y : Recorded(z, None) /\ Passed(z, y) => Passed(r, y)
<1> DEFINE r == UpdateMutex(z, m)
           q == z.queue[m]
<1>1. /\ z \in State /\ q \in Seq(Thread) /\ z.k.cprio \in [Thread -> Prio]
      /\ ToSet(q) \subseteq Thread /\ (q # <<>> => Head(q) \in ToSet(q))
      /\ (q = <<>> => ToSet(q) = {})
  BY StateFields, EmptyList DEF QueuesOK
<1>2. /\ r.k = z.k /\ r.queue = z.queue /\ r.taken = z.taken
      /\ \A l \in Mutex : l # m => r.prio[l] = z.prio[l]
      /\ r.prio[m] = IF q = <<>> THEN NoPrio ELSE z.k.cprio[Head(q)]
  BY UpdateMutexAdjusts DEF Adjusted
<1> HIDE DEF r
<1>3. \A w \in ToSet(q) : r.prio[m] <= z.k.cprio[w]
  <2>1. ASSUME NEW w \in ToSet(q) PROVE z.k.cprio[Head(q)] <= z.k.cprio[w]
    BY <1>1, HeadUrgent DEF Ordered
  <2> QED BY <1>1, <1>2, <2>1
<1>4. Ordered(r, None) /\ Recorded(r, None)
  BY <1>2, <1>3 DEF Ordered, Recorded
<1>5. (\A w \in ToSet(q) : z.prio[m] <= z.k.cprio[w]) => z.prio[m] <= r.prio[m]
  <2>1. CASE q = <<>>
    <3>1. z.prio[m] \in Prio \cup {NoPrio}
      BY <1>1, StateFields
    <3>2. z.prio[m] <= NoPrio
      BY <3>1, RecordedNat
    <3> QED BY <1>2, <2>1, <3>2
  <2>2. CASE q # <<>>
    BY <1>1, <1>2, <2>2
  <2> QED BY <2>1, <2>2
<1>6. ASSUME NEW y, Recorded(z, None), Passed(z, y) PROVE Passed(r, y)
  <2>1. z.prio[m] <= r.prio[m]
    BY <1>1, <1>5, <1>6, MutexAssumption DEF Recorded
  <2>2. ASSUME NEW u \in Thread \ {y}, NEW l \in ToSet(z.taken[u])
        PROVE  z.k.cprio[u] <= r.prio[l]
    <3>1. l \in Mutex /\ z.k.cprio[u] \in Nat /\ z.prio[l] \in Nat
      <4>1. ToSet(z.taken[u]) \subseteq Mutex
        BY <1>1, StateFields, EmptyList
      <4>2. l \in Mutex
        BY <4>1
      <4>3. z.k.cprio[u] \in Prio /\ z.prio[l] \in Prio \cup {NoPrio}
        BY <1>1, <4>2, StateFields
      <4> QED BY <4>2, <4>3, RecordedNat
    <3>2. z.k.cprio[u] <= z.prio[l]
      BY <1>6 DEF Passed
    <3>3. CASE l = m
      <4>1. r.prio[m] \in Nat
        BY <1>1, <1>2, PrioNat
      <4> QED BY <2>1, <3>1, <3>2, <3>3, <4>1
    <3>4. CASE l # m
      BY <1>2, <3>1, <3>2, <3>4
    <3> QED BY <3>3, <3>4
  <2> QED BY <1>2, <2>2 DEF Passed
<1> QED BY <1>4, <1>5, <1>6 DEF r

(* A waiter whose priority has changed is back in its place.                *)
LEMMA ResortOrders ==
  ASSUME NEW z, QueuesOK(z), NEW m \in Mutex, NEW t \in Thread, t \in ToSet(z.queue[m]),
         Loose(z, t, None)
  PROVE  LET r == Enqueue(Dequeue(z, t), m, t)
         IN  /\ Ordered(r, None) /\ Passed(r, None)
             /\ \A l \in Mutex \ {m} : \A w \in ToSet(r.queue[l]) : r.prio[l] <= r.k.cprio[w]
<1> DEFINE d == Dequeue(z, t)
           r == Enqueue(d, m, t)
<1>1. z \in State /\ \A l \in Mutex : IsInjective(z.queue[l])
  BY DEF QueuesOK
<1>2. /\ d = [z EXCEPT !.queue = d.queue] /\ d \in State
      /\ \A l \in Mutex : d.queue[l] = RemoveFirst(z.queue[l], t)
  BY <1>1, DequeueKeeps
<1> HIDE DEF d
<1>3. d.k = z.k
  BY <1>1, <1>2 DEF State
<1>4. \A l \in Mutex : SortedBut(d.queue[l], z.k.cprio, None)
  <2>1. ASSUME NEW l \in Mutex PROVE SortedBut(RemoveFirst(z.queue[l], t), z.k.cprio, None)
    <3>1. z.queue[l] \in Seq(Thread) /\ SortedBut(z.queue[l], z.k.cprio, t)
      BY <1>1, StateFields DEF Loose, Ordered
    <3> QED BY <1>1, <3>1, RemoveSorted
  <2> QED BY <1>2, <2>1
<1>5. SortedBut(r.queue[m], z.k.cprio, None)
  BY <1>2, <1>3, <1>4, InsertSorted
<1>6. \A l \in Mutex \ {m} : r.queue[l] = d.queue[l]
  <2>1. r = [d EXCEPT !.queue[m] = InsertAt(d.queue[m], Cardinality(Ahead(d, m, t)) + 1, t)]
    BY <1>2, EnqueuePlace
  <2> HIDE DEF r
  <2> QED BY <1>2, <2>1, StateFields DEF State
<1>7. /\ r.k = z.k /\ r.prio = z.prio /\ r.taken = z.taken
      /\ \A l \in Mutex \ {m} : r.queue[l] = z.queue[l]
  BY ResortAdjusts, <1>1 DEF Adjusted, d
<1> HIDE DEF r
<1>8. Ordered(r, None)
  BY <1>4, <1>5, <1>6, <1>7 DEF Ordered
<1>9. Passed(r, None)
  BY <1>7 DEF Loose, Passed
<1>10. ASSUME NEW l \in Mutex \ {m}, NEW w \in ToSet(r.queue[l])
       PROVE  r.prio[l] <= r.k.cprio[w]
  <2>1. t \notin ToSet(z.queue[l])
    BY DEF QueuesOK
  <2>2. w \in ToSet(z.queue[l]) \ {t}
    BY <1>7, <2>1
  <2> QED BY <1>7, <2>2 DEF Loose, Recorded
<1> QED BY <1>8, <1>9, <1>10 DEF r, d

(* A turn passes the change on to the owner, who owns a mutex of a higher   *)
(* rank than the one before, or ends the loop with everything in place.     *)
LEMMA PropagateBoosts ==
  ASSUME NEW l \in Turn, QueuesOK(l.z), Chains(l.z),
         IF l.changed THEN Loose(l.z, l.t, None) ELSE Boosted(l.z)
  PROVE  LET r == Propagate(l)
         IN  /\ IF r.changed THEN Loose(r.z, r.t, None) ELSE Boosted(r.z)
             /\ r.changed => /\ l.changed /\ IsSuspended(l.z.k, l.t) /\ l.z.pending[l.t] # None
                             /\ l.z.pending[l.t] \in ToSet(l.z.taken[r.t])
<1> DEFINE m  == l.z.pending[l.t]
           o  == l.z.owner[m]
           z0 == Enqueue(Dequeue(l.z, l.t), m, l.t)
           z1 == UpdateMutex(z0, m)
           p  == MutexPriority(z1, o)
           z2 == SetThread(z1, o, p)
<1>1. CASE l.changed /\ IsSuspended(l.z.k, l.t) /\ l.z.pending[l.t] # None
  <2>1. /\ l.t \in Thread /\ m \in Mutex /\ l.t \in ToSet(l.z.queue[m]) /\ o \in Thread
        /\ l.z \in State /\ Loose(l.z, l.t, None)
    BY <1>1, OwnerOfPending DEF Turn
  <2>2. m \in ToSet(l.z.taken[o])
    <3>1. l.z.queue[m] # <<>>
      BY <2>1, StateFields, EmptyList
    <3> QED BY <2>1, <3>1 DEF Chains
  <2>3. Propagate(l) = IF p # z1.k.cprio[o]
                       THEN [z |-> z2, t |-> o, changed |-> TRUE]
                       ELSE [z |-> z1, t |-> o, changed |-> FALSE]
    BY <1>1 DEF Propagate
  <2> DEFINE t == l.t
  <2> HIDE DEF m, o
  <2>4. Adjusted(l.z, z0)
    BY <2>1, ResortAdjusts
  <2>5. /\ Ordered(z0, None) /\ Passed(z0, None)
        /\ \A j \in Mutex \ {m} : \A w \in ToSet(z0.queue[j]) : z0.prio[j] <= z0.k.cprio[w]
    BY <2>1, ResortOrders
  <2> HIDE DEF z0
  <2>6. QueuesOK(z0) /\ z0.taken = l.z.taken
    BY <2>4 DEF Adjusted
  <2>7. Ordered(z1, None) /\ Recorded(z1, None)
    BY <2>1, <2>5, <2>6, UpdateMutexRecords
  <2>8. /\ QueuesOK(z1) /\ z1 \in State /\ z1.k = z0.k /\ z1.taken = z0.taken
        /\ \A j \in Mutex : j # m => z1.prio[j] = z0.prio[j]
    BY <2>1, <2>6, UpdateMutexAdjusts DEF Adjusted, QueuesOK
  <2> HIDE DEF z1
  <2>9. Passed(z1, o)
    <3>1. ASSUME NEW u \in Thread \ {o}, NEW j \in ToSet(z1.taken[u])
          PROVE  z1.k.cprio[u] <= z1.prio[j]
      <4>1. j \in Mutex
        <5>1. ToSet(z1.taken[u]) \subseteq Mutex
          BY <2>8, StateFields, EmptyList
        <5> QED BY <5>1
      <4>2. j # m
        <5>1. l.z.owner[j] = u
          BY <2>6, <2>8 DEF Chains
        <5> QED BY <5>1 DEF o
      <4>3. z0.k.cprio[u] <= z0.prio[j]
        BY <2>5, <2>8, MutexAssumption DEF Passed
      <4> QED BY <2>8, <4>1, <4>2, <4>3
    <3> QED BY <3>1 DEF Passed
  <2>10. p \in Prio /\ \A j \in ToSet(z1.taken[o]) : p <= z1.prio[j]
    BY <2>1, <2>8, MutexPriorityLeast
  <2> HIDE DEF p
  <2>11. Loose(z2, o, None)
    <3>1. Loose(z1, None, o)
      BY <2>7, <2>9 DEF Loose
    <3> QED BY <2>1, <2>8, <2>10, <3>1, SetThreadLoosens
  <2> HIDE DEF z2
  <2>12. p = z1.k.cprio[o] => Boosted(z1)
    <3> SUFFICES ASSUME p = z1.k.cprio[o] PROVE Passed(z1, None)
      BY <2>7 DEF Boosted, Loose
    <3> QED BY <2>9, <2>10 DEF Passed
  <2> QED BY <1>1, <2>2, <2>3, <2>11, <2>12 DEF m
<1>2. CASE ~ (l.changed /\ IsSuspended(l.z.k, l.t) /\ l.z.pending[l.t] # None)
  <2>1. Propagate(l) = [l EXCEPT !.changed = FALSE]
    BY <1>2 DEF Propagate
  <2>2. Propagate(l).z = l.z /\ Propagate(l).changed = FALSE
    BY <2>1 DEF Turn
  <2>3. Boosted(l.z)
    <3>1. CASE l.changed
      <4>1. l.t \in Thread
        BY DEF Turn
      <4> QED BY <1>2, <3>1, <4>1, LooseAbsent
    <3>2. CASE ~ l.changed
      BY <3>2
    <3> QED BY <3>1, <3>2
  <2> QED BY <2>2, <2>3
<1> QED BY <1>1, <1>2

(* The mutexes of at least the rank of m: how far a chain can still go.     *)
AtLeast(m) == {k \in Mutex : Rank[m] <= Rank[k]}

(* A chain climbs, so that it ends.                                         *)
LEMMA ChainShortens ==
  ASSUME NEW m \in Mutex, NEW l \in Mutex, Rank[m] < Rank[l]
  PROVE  /\ Cardinality(AtLeast(l)) < Cardinality(AtLeast(m))
         /\ Cardinality(AtLeast(l)) \in Nat \ {0} /\ Cardinality(AtLeast(m)) \in Nat
<1>1. /\ AtLeast(l) \subseteq AtLeast(m) /\ AtLeast(l) # AtLeast(m)
      /\ l \in AtLeast(l) /\ AtLeast(m) \subseteq Mutex
  BY MutexAssumption DEF AtLeast
<1>2. IsFiniteSet(AtLeast(m)) /\ IsFiniteSet(AtLeast(l))
  BY <1>1, MutexAssumption, FS_Subset
<1>3. Cardinality(AtLeast(l)) \in Nat /\ Cardinality(AtLeast(m)) \in Nat
  BY <1>2, FS_CardinalityType
<1>4. Cardinality(AtLeast(l)) # 0
  BY <1>1, <1>2, FS_EmptySet
<1>5. Cardinality(AtLeast(l)) < Cardinality(AtLeast(m))
  <2>1. /\ Cardinality(AtLeast(l)) <= Cardinality(AtLeast(m))
        /\ Cardinality(AtLeast(m)) # Cardinality(AtLeast(l))
    BY <1>1, <1>2, FS_Subset
  <2> QED BY <1>3, <2>1
<1> QED BY <1>3, <1>4, <1>5

(* How a turn n of the loop ends.                                           *)
Climbed(l, n) ==
  /\ IF l.changed THEN Loose(l.z, l.t, None) ELSE Boosted(l.z)
  /\ l.changed /\ IsSuspended(l.z.k, l.t) /\ l.z.pending[l.t] # None
       => Cardinality(AtLeast(l.z.pending[l.t])) + n <= Cardinality(Mutex)

(* _thread_update_priority: the turns there are mutexes for suffice.        *)
LEMMA UpdatePriorityBoosts ==
  ASSUME NEW z, QueuesOK(z), Chains(z), NEW t \in Thread, NEW p \in Prio,
         Loose(z, t, t) \/ Loose(z, None, t),
         \A m \in ToSet(z.taken[t]) : p <= z.prio[m]
  PROVE  Boosted(UpdatePriority(z, t, p))
<1> DEFINE N == Cardinality(Mutex)
<1>1. N \in Nat
  BY MutexAssumption, FS_CardinalityType
<1>2. PICK f :
        /\ f[0] = [z |-> SetThread(z, t, p), t |-> t, changed |-> TRUE]
        /\ \A n \in 1 .. N : f[n] = Propagate(f[n - 1])
        /\ \A n \in 0 .. N : f[n] \in Turn /\ QueuesOK(f[n].z) /\ Adjusted(z, f[n].z)
        /\ UpdatePriority(z, t, p) = f[N].z
  BY UpdatePriorityTurns
<1>3. \A n \in 0 .. N : Chains(f[n].z)
  BY <1>2, AdjustedChains
<1>4. \A m \in Mutex : Cardinality(AtLeast(m)) \in Nat \ {0} /\ Cardinality(AtLeast(m)) <= N
  <2> SUFFICES ASSUME NEW m \in Mutex
               PROVE  Cardinality(AtLeast(m)) \in Nat \ {0} /\ Cardinality(AtLeast(m)) <= N
    OBVIOUS
  <2>1. AtLeast(m) \subseteq Mutex /\ m \in AtLeast(m)
    BY MutexAssumption DEF AtLeast
  <2>2. IsFiniteSet(AtLeast(m)) /\ Cardinality(AtLeast(m)) <= N
    BY <2>1, MutexAssumption, FS_Subset
  <2>3. Cardinality(AtLeast(m)) # 0 /\ Cardinality(AtLeast(m)) \in Nat
    BY <2>1, <2>2, FS_EmptySet, FS_CardinalityType
  <2> QED BY <2>2, <2>3
<1> HIDE DEF N
<1>5. Climbed(f[0], 0)
  <2>1. Loose(SetThread(z, t, p), t, None)
    BY SetThreadLoosens
  <2>2. f[0].z = SetThread(z, t, p) /\ f[0].t = t /\ f[0].changed
    BY <1>2
  <2>3. f[0].z.pending[t] # None => f[0].z.pending[t] \in Mutex
    <3>1. f[0].z \in State
      BY <1>1, <1>2 DEF QueuesOK
    <3> QED BY <3>1, StateFields
  <2>4. f[0].z.pending[t] # None => Cardinality(AtLeast(f[0].z.pending[t])) + 0 <= N
    BY <1>1, <1>4, <2>3
  <2> QED BY <2>1, <2>2, <2>4 DEF Climbed, N
<1>6. ASSUME NEW n \in 1 .. N, Climbed(f[n - 1], n - 1)
      PROVE  Climbed(f[n], n)
  <2> DEFINE l == f[n - 1]
             r == f[n]
  <2>1. /\ l \in Turn /\ QueuesOK(l.z) /\ Chains(l.z) /\ Adjusted(z, l.z)
        /\ r \in Turn /\ QueuesOK(r.z) /\ Adjusted(z, r.z) /\ r = Propagate(l)
    <3>1. n - 1 \in 0 .. N /\ n \in 0 .. N
      BY <1>1
    <3> QED BY <1>2, <1>3, <3>1
  <2>2. /\ IF l.changed THEN Loose(l.z, l.t, None) ELSE Boosted(l.z)
        /\ l.changed /\ IsSuspended(l.z.k, l.t) /\ l.z.pending[l.t] # None
             => Cardinality(AtLeast(l.z.pending[l.t])) + (n - 1) <= N
    BY <1>6 DEF Climbed, N
  <2> HIDE DEF l, r
  <2>3. /\ IF r.changed THEN Loose(r.z, r.t, None) ELSE Boosted(r.z)
        /\ r.changed => /\ l.changed /\ IsSuspended(l.z.k, l.t) /\ l.z.pending[l.t] # None
                        /\ l.z.pending[l.t] \in ToSet(l.z.taken[r.t])
    BY <2>1, <2>2, PropagateBoosts
  <2>4. ASSUME r.changed, r.z.pending[r.t] # None
        PROVE  Cardinality(AtLeast(r.z.pending[r.t])) + n <= N
    <3> DEFINE m == l.z.pending[l.t]
               j == r.z.pending[r.t]
    <3>1. r.t \in Thread /\ l.t \in Thread /\ l.z \in State /\ r.z \in State
      BY <2>1 DEF Turn
    <3>2. m \in Mutex /\ j \in Mutex
      BY <2>3, <2>4, <3>1, StateFields
    <3>3. r.z.pending = l.z.pending
      BY <2>1 DEF Adjusted
    <3>4. Rank[m] < Rank[j]
      BY <2>1, <2>3, <2>4, <3>1, <3>3 DEF Chains
    <3>5. Cardinality(AtLeast(m)) + (n - 1) <= N
      BY <2>2, <2>3, <2>4
    <3> HIDE DEF m, j
    <3>6. /\ Cardinality(AtLeast(j)) < Cardinality(AtLeast(m))
          /\ Cardinality(AtLeast(j)) \in Nat /\ Cardinality(AtLeast(m)) \in Nat
      BY <3>2, <3>4, ChainShortens
    <3>7. Cardinality(AtLeast(j)) + n <= N
      BY <1>1, <3>5, <3>6
    <3> QED BY <3>7 DEF j
  <2> QED BY <2>3, <2>4 DEF Climbed, r, N
<1>7. Climbed(f[N], N)
  <2> DEFINE P == [n \in 0 .. N |-> {l \in Turn : Climbed(l, n)}]
  <2>1. \A n \in 0 .. N : f[n] \in Turn
    BY <1>2
  <2>2. f[0] \in P[0]
    BY <1>1, <1>5, <2>1
  <2>3. \A n \in 1 .. N : f[n - 1] \in P[n - 1] => f[n] \in P[n]
    <3> SUFFICES ASSUME NEW n \in 1 .. N, f[n - 1] \in P[n - 1] PROVE f[n] \in P[n]
      OBVIOUS
    <3>1. n \in 0 .. N /\ n - 1 \in 0 .. N
      BY <1>1
    <3>2. Climbed(f[n - 1], n - 1)
      BY <3>1
    <3> QED BY <1>6, <2>1, <3>1, <3>2
  <2>4. N \in 0 .. N
    BY <1>1
  <2> HIDE DEF P
  <2>5. \A n \in 0 .. N : f[n] \in P[n]
    BY <1>1, <2>2, <2>3, LoopKeeps
  <2> QED BY <2>4, <2>5 DEF P
<1>8. f[N] \in Turn /\ QueuesOK(f[N].z)
  <2>1. N \in 0 .. N
    BY <1>1
  <2> QED BY <1>2, <2>1
<1> DEFINE l == f[N]
<1>9. /\ IF l.changed THEN Loose(l.z, l.t, None) ELSE Boosted(l.z)
      /\ l.changed /\ IsSuspended(l.z.k, l.t) /\ l.z.pending[l.t] # None
           => Cardinality(AtLeast(l.z.pending[l.t])) + N <= N
  BY <1>7 DEF Climbed, N
<1>10. l.t \in Thread /\ (l.z.pending[l.t] # None => l.z.pending[l.t] \in Mutex)
  <2>1. l.t \in Thread /\ l.z \in State
    BY <1>8 DEF Turn
  <2> HIDE DEF l
  <2> QED BY <2>1, StateFields
<1>11. Boosted(l.z)
  <2> HIDE DEF l
  <2>1. CASE ~ l.changed
    BY <1>9, <2>1
  <2>2. CASE l.changed
    <3>1. ~ (IsSuspended(l.z.k, l.t) /\ l.z.pending[l.t] # None)
      <4> SUFFICES ASSUME IsSuspended(l.z.k, l.t), l.z.pending[l.t] # None PROVE FALSE
        OBVIOUS
      <4>1. Cardinality(AtLeast(l.z.pending[l.t])) + N <= N
        BY <1>9, <2>2
      <4>2. Cardinality(AtLeast(l.z.pending[l.t])) \in Nat \ {0}
        BY <1>4, <1>10
      <4> QED BY <1>1, <4>1, <4>2
    <3>2. QueuesOK(l.z) /\ Loose(l.z, l.t, None)
      BY <1>8, <1>9, <2>2 DEF l
    <3> QED BY <1>10, <3>1, <3>2, LooseAbsent
  <2> QED BY <2>1, <2>2
<1> QED BY <1>2, <1>11 DEF N

-----------------------------------------------------------------------------
(* The calls. *)

(* A waiter's rank order, the part of Chains the invariant has to state.    *)
Climbing(z) ==
  \A t \in Thread :
    z.pending[t] # None => \A l \in ToSet(z.taken[t]) : Rank[l] < Rank[z.pending[t]]

(* The rest follows from the records of ownership.                          *)
LEMMA ChainsOfOwned ==
  ASSUME NEW z, QueuesOK(z), NEW l, Owned(z, l), Climbing(z)
  PROVE  Chains(z)
<1>1. z \in State
  BY DEF QueuesOK
<1>2. ASSUME NEW u \in Thread, NEW m \in ToSet(z.taken[u]) PROVE z.owner[m] = u
  <2>1. m \in Mutex
    <3>1. ToSet(z.taken[u]) \subseteq Mutex
      BY <1>1, StateFields, EmptyList
    <3> QED BY <3>1
  <2> QED BY <2>1 DEF Owned
<1>3. ASSUME NEW m \in Mutex, z.queue[m] # <<>> PROVE m \in ToSet(z.taken[z.owner[m]])
  <2>1. z.owner[m] \in Thread /\ m \in l
    BY <1>1, <1>3, StateFields DEF QueuesOK, Owned
  <2> QED BY <2>1 DEF Owned
<1> QED BY <1>2, <1>3 DEF Chains, Climbing

(* Nobody has begun to wait, and who still does has not got a mutex.        *)
LEMMA ClimbingFrame ==
  ASSUME NEW z, NEW r, Climbing(z),
         \A t \in Thread : \/ r.pending[t] = None
                           \/ /\ r.pending[t] = z.pending[t]
                              /\ ToSet(r.taken[t]) \subseteq ToSet(z.taken[t])
  PROVE  Climbing(r)
  BY DEF Climbing

(* Priorities stay, and one thread may have left the lists.                 *)
LEMMA LeaveBoosts ==
  ASSUME NEW z, QueuesOK(z), Boosted(z), NEW r, NEW t,
         r.k.cprio = z.k.cprio, r.prio = z.prio, r.taken = z.taken,
         \A m \in Mutex : r.queue[m] \in {z.queue[m], RemoveFirst(z.queue[m], t)}
  PROVE  Boosted(r)
<1>1. \A m \in Mutex : z.queue[m] \in Seq(Thread) /\ IsInjective(z.queue[m])
  BY StateFields DEF QueuesOK
<1>2. Ordered(r, None)
  <2>1. ASSUME NEW m \in Mutex PROVE SortedBut(r.queue[m], z.k.cprio, None)
    <3>1. SortedBut(z.queue[m], z.k.cprio, None)
      BY DEF Boosted, Loose, Ordered
    <3>2. SortedBut(RemoveFirst(z.queue[m], t), z.k.cprio, None)
      BY <1>1, <3>1, RemoveSorted
    <3> QED BY <3>1, <3>2
  <2> QED BY <2>1 DEF Ordered
<1>3. Recorded(r, None)
  <2>1. \A m \in Mutex : ToSet(r.queue[m]) \subseteq ToSet(z.queue[m])
    BY <1>1, RemoveFirstProperties
  <2> QED BY <2>1 DEF Boosted, Loose, Recorded
<1>4. Passed(r, None)
  BY DEF Boosted, Loose, Passed
<1> QED BY <1>2, <1>3, <1>4 DEF Boosted, Loose

(* An owner gets the priority its mutexes call for.                         *)
LEMMA RefreshBoosts ==
  ASSUME NEW z, QueuesOK(z), Chains(z), NEW t \in Thread, Loose(z, None, t)
  PROVE  Boosted(Refresh(z, t))
<1> DEFINE p == MutexPriority(z, t)
<1>1. p \in Prio /\ \A m \in ToSet(z.taken[t]) : p <= z.prio[m]
  BY MutexPriorityLeast DEF QueuesOK
<1> HIDE DEF p
<1>2. Boosted(UpdatePriority(z, t, p))
  BY <1>1, UpdatePriorityBoosts
<1>3. p = z.k.cprio[t] => Boosted(z)
  BY <1>1 DEF Boosted, Loose, Passed
<1> QED BY <1>2, <1>3 DEF Refresh, p

(* A failed wait: the mutex records its first waiter anew, and its owner    *)
(* may lose a boost.                                                        *)
LEMMA LeaveWaitersBoosts ==
  ASSUME NEW z, QueuesOK(z), Chains(z), NEW t \in Thread, NEW m \in Mutex, Boosted(z)
  PROVE  Boosted(LeaveWaiters(z, t, m))
<1> DEFINE z1 == UpdateMutex(z, m)
           o == z.owner[m]
<1>1. Adjusted(z, z1) /\ QueuesOK(z1) /\ Chains(z1)
  BY UpdateMutexAdjusts, AdjustedChains DEF Adjusted
<1>2. Ordered(z, None) /\ Recorded(z, None) /\ Passed(z, None)
  BY DEF Boosted, Loose
<1>3. \A l \in Mutex \ {m} : \A w \in ToSet(z.queue[l]) : z.prio[l] <= z.k.cprio[w]
  <2>1. ASSUME NEW l \in Mutex, NEW w \in ToSet(z.queue[l]) PROVE z.prio[l] <= z.k.cprio[w]
    <3>1. z.queue[l] \in Seq(Thread)
      BY StateFields DEF QueuesOK
    <3>2. w # None
      BY <3>1, EmptyList, MutexAssumption
    <3> QED BY <1>2, <3>2 DEF Recorded
  <2> QED BY <2>1
<1>4. Boosted(z1)
  BY <1>2, <1>3, UpdateMutexRecords DEF Boosted, Loose
<1> HIDE DEF z1
<1>5. o # None => Boosted(Refresh(z1, o))
  <2> SUFFICES ASSUME o # None PROVE Boosted(Refresh(z1, o))
    OBVIOUS
  <2>1. o \in Thread
    BY StateFields DEF QueuesOK
  <2>2. Ordered(z1, None) /\ Recorded(z1, None) /\ Passed(z1, None)
    BY <1>4 DEF Boosted, Loose
  <2>3. Passed(z1, o)
    BY <2>2, MutexAssumption DEF Passed
  <2>4. Loose(z1, None, o)
    BY <2>2, <2>3 DEF Loose
  <2> HIDE DEF o
  <2> QED BY <1>1, <2>1, <2>4, RefreshBoosts
<1> QED BY <1>4, <1>5 DEF LeaveWaiters, z1

(* Of the waiters of m, only the new owner's records change.                *)
LEMMA HandOverFrame ==
  ASSUME NEW z, QueuesOK(z), NEW m \in Mutex
  PROVE  LET r == HandOver(z, m)
         IN  \A u \in Thread :
               r.pending[u] # None => r.pending[u] = z.pending[u] /\ r.taken[u] = z.taken[u]
<1> DEFINE r == HandOver(z, m)
<1>1. z.pending \in [Thread -> Mutex \cup {None}] /\ z.taken \in [Thread -> Seq(Mutex)]
  BY StateFields DEF QueuesOK
<1>2. CASE z.queue[m] = <<>>
  <2>1. LeftFree(z, r, m)
    BY <1>2, HandOverNobody
  <2> HIDE DEF r
  <2>2. r.pending = z.pending /\ r.taken = z.taken
    BY <2>1 DEF LeftFree
  <2> QED BY <2>2 DEF r
<1>3. CASE z.queue[m] # <<>>
  <2>1. PICK n : n = Head(z.queue[m])
    OBVIOUS
  <2>2. Handed(z, r, m, n)
    BY <1>3, <2>1, HandOverFirst
  <2> HIDE DEF r
  <2>3. /\ n \in Thread /\ r.taken = [z.taken EXCEPT ![n] = Cons(m, @)]
        /\ r.pending = [z.pending EXCEPT ![n] = None]
    BY <2>2 DEF Handed
  <2>4. \A u \in Thread : IF u = n THEN r.pending[u] = None
                          ELSE r.pending[u] = z.pending[u] /\ r.taken[u] = z.taken[u]
    BY <1>1, <2>3
  <2> QED BY <2>4 DEF r
<1> QED BY <1>2, <1>3

(* The mutex goes to the most urgent waiter, who owes nothing to the rest.  *)
LEMMA HandOverBoosts ==
  ASSUME NEW z, QueuesOK(z), Boosted(z), NEW m \in Mutex,
         \A u \in Thread : IsInjective(z.taken[u]) /\ m \notin ToSet(z.taken[u])
  PROVE  Boosted(HandOver(z, m))
<1> DEFINE r == HandOver(z, m)
           n == Head(z.queue[m])
           q == RemoveFirst(z.queue[m], n)
<1>1. /\ z \in State /\ z.queue[m] \in Seq(Thread) /\ IsInjective(z.queue[m])
      /\ z.taken \in [Thread -> Seq(Mutex)] /\ z.pending \in [Thread -> Mutex \cup {None}]
      /\ z.k.cprio \in [Thread -> Prio]
  BY StateFields DEF QueuesOK
<1>2. CASE z.queue[m] = <<>>
  <2>1. /\ r.k = z.k /\ r.queue = z.queue
        /\ r.prio[m] = NoPrio /\ \A l \in Mutex : l # m => r.prio[l] = z.prio[l]
        /\ r.taken = z.taken /\ r.pending = z.pending
    <3>1. LeftFree(z, r, m)
      BY <1>2, HandOverNobody
    <3> HIDE DEF r
    <3> QED BY <3>1 DEF LeftFree
  <2> HIDE DEF r
  <2>2. Ordered(r, None)
    BY <2>1 DEF Boosted, Loose, Ordered
  <2>3. ToSet(r.queue[m]) = {}
    BY ZenonT(40), <1>1, <1>2, <2>1, EmptyList
  <2>4. Recorded(r, None)
    BY <2>1, <2>3 DEF Boosted, Loose, Recorded
  <2>5. Passed(r, None)
    <3>1. ASSUME NEW u \in Thread, NEW l \in ToSet(z.taken[u])
          PROVE  z.k.cprio[u] <= r.prio[l]
      <4>1. ToSet(z.taken[u]) \subseteq Mutex
        BY <1>1, EmptyList
      <4>2. l \in Mutex /\ l # m /\ u # None
        BY <4>1, MutexAssumption
      <4>3. z.k.cprio[u] <= z.prio[l]
        BY <4>2 DEF Boosted, Loose, Passed
      <4> QED BY <2>1, <4>2, <4>3
    <3> QED BY <2>1, <3>1 DEF Passed
  <2> QED BY <2>1, <2>2, <2>4, <2>5 DEF Boosted, Loose, r
<1>3. CASE z.queue[m] # <<>>
  <2>1. n \in Thread /\ n \in ToSet(z.queue[m])
    BY <1>1, <1>3, EmptyList
  <2>2. /\ r.k.cprio = z.k.cprio
        /\ \A l \in Mutex : l # m => r.queue[l] = z.queue[l] /\ r.prio[l] = z.prio[l]
        /\ r.queue[m] = q /\ ToSet(r.queue[m]) = ToSet(z.queue[m]) \ {n}
        /\ r.prio[m] = IF q = <<>> THEN NoPrio ELSE z.k.cprio[Head(q)]
        /\ r.taken = [z.taken EXCEPT ![n] = Cons(m, @)]
        /\ r.pending = [z.pending EXCEPT ![n] = None]
    <3>1. QueuesOK(z) /\ m \in Mutex /\ z.queue[m] # <<>> /\ n = Head(z.queue[m])
      BY <1>3
    <3>2. q = RemoveFirst(z.queue[m], n)
      OBVIOUS
    <3> HIDE DEF n, q
    <3>3. Handed(z, r, m, n)
      BY <3>1, HandOverFirst
    <3> HIDE DEF r
    <3> QED BY <3>2, <3>3 DEF Handed
  <2> HIDE DEF r, n
  <2>3. q \in Seq(Thread) /\ ToSet(q) = ToSet(z.queue[m]) \ {n}
    BY <1>1, RemoveFirstProperties
  <2>4. SortedBut(z.queue[m], z.k.cprio, None)
    BY DEF Boosted, Loose, Ordered
  <2>5. SortedBut(q, z.k.cprio, None)
    BY <1>1, <2>4, RemoveSorted
  <2> HIDE DEF q
  <2>6. Ordered(r, None)
    BY <2>2, <2>5 DEF Boosted, Loose, Ordered
  <2>7. \A w \in ToSet(q) : r.prio[m] <= z.k.cprio[w]
    <3>1. q # <<>> \/ ToSet(q) = {}
      BY <2>3, EmptyList
    <3>2. \A w \in ToSet(q) : z.k.cprio[Head(q)] <= z.k.cprio[w]
      BY <1>1, <2>3, <2>5, HeadUrgent
    <3> QED BY <2>2, <3>1, <3>2
  <2>8. Recorded(r, None)
    <3>1. ASSUME NEW l \in Mutex, l # m, NEW w \in ToSet(r.queue[l]) \ {None}
          PROVE  r.prio[l] <= r.k.cprio[w]
      BY <2>2, <3>1 DEF Boosted, Loose, Recorded
    <3> QED BY <2>2, <2>7, <3>1 DEF Recorded
  <2>9. z.k.cprio[n] <= r.prio[m]
    <3>1. CASE q = <<>>
      <4>1. z.k.cprio[n] \in Prio /\ r.prio[m] = NoPrio
        BY <1>1, <2>1, <2>2, <3>1
      <4> QED BY <4>1, RecordedNat
    <3>2. CASE q # <<>>
      <4>1. Head(q) \in ToSet(z.queue[m])
        BY <2>3, <3>2, EmptyList
      <4>2. z.k.cprio[n] <= z.k.cprio[Head(q)]
        BY <1>1, <2>4, <4>1, HeadUrgent DEF n
      <4> QED BY <2>2, <3>2, <4>2
    <3> QED BY <3>1, <3>2
  <2>10. Cons(m, z.taken[n]) \in Seq(Mutex)
         /\ ToSet(Cons(m, z.taken[n])) = ToSet(z.taken[n]) \cup {m}
    BY <1>1, <2>1, ConsNew
  <2>11. ASSUME NEW u \in Thread, NEW l \in ToSet(r.taken[u])
         PROVE  z.k.cprio[u] <= r.prio[l]
    <3>1. r.taken[u] = IF u = n THEN Cons(m, z.taken[n]) ELSE z.taken[u]
      BY <1>1, <2>1, <2>2
    <3>2. l \in ToSet(z.taken[u]) \/ (u = n /\ l = m)
      BY <2>10, <3>1
    <3>3. CASE u = n /\ l = m
      BY <2>9, <3>3
    <3>4. CASE l \in ToSet(z.taken[u])
      <4>1. ToSet(z.taken[u]) \subseteq Mutex
        BY <1>1, EmptyList
      <4>2. l \in Mutex /\ l # m /\ u # None
        BY <3>4, <4>1, MutexAssumption
      <4>3. z.k.cprio[u] <= z.prio[l]
        BY <3>4, <4>2 DEF Boosted, Loose, Passed
      <4> QED BY <2>2, <4>2, <4>3
    <3> QED BY <3>2, <3>3, <3>4
  <2>12. Passed(r, None)
    BY <2>2, <2>11 DEF Passed
  <2> QED BY <2>2, <2>6, <2>8, <2>12 DEF Boosted, Loose, r
<1> QED BY <1>2, <1>3

(* A thread that waits for no mutex passes nothing on.                      *)
LEMMA UpdatePriorityAlone ==
  ASSUME NEW z, QueuesOK(z), NEW t \in Thread, NEW p \in Prio, z.pending[t] = None
  PROVE  UpdatePriority(z, t, p) = SetThread(z, t, p)
<1> DEFINE N == Cardinality(Mutex)
           r == SetThread(z, t, p)
<1>1. N \in Nat
  BY MutexAssumption, FS_CardinalityType
<1>2. PICK f :
        /\ f[0] = [z |-> r, t |-> t, changed |-> TRUE]
        /\ \A n \in 1 .. N : f[n] = Propagate(f[n - 1])
        /\ \A n \in 0 .. N : f[n] \in Turn /\ QueuesOK(f[n].z) /\ Adjusted(z, f[n].z)
        /\ UpdatePriority(z, t, p) = f[N].z
  BY UpdatePriorityTurns
<1>3. r.pending[t] = None
  BY ZenonT(40), SetThreadAdjusts DEF Adjusted
<1> HIDE DEF N, r
<1> DEFINE P == [n \in 0 .. N |-> {l \in Turn : l.z = r /\ l.t = t}]
<1>4. f[0] \in P[0]
  BY <1>1, <1>2
<1>5. ASSUME NEW n \in 1 .. N, f[n - 1] \in P[n - 1] PROVE f[n] \in P[n]
  <2>1. n \in 0 .. N /\ n - 1 \in 0 .. N
    BY <1>1
  <2>2. f[n - 1] \in Turn /\ f[n - 1].z = r /\ f[n - 1].t = t
    BY <1>5, <2>1
  <2>3. f[n] = [f[n - 1] EXCEPT !.changed = FALSE]
    BY <1>2, <1>3, <2>2 DEF Propagate
  <2>4. f[n].z = r /\ f[n].t = t /\ f[n] \in Turn
    BY <1>2, <2>1, <2>2, <2>3 DEF Turn
  <2> QED BY <2>1, <2>4
<1>6. N \in 0 .. N
  BY <1>1
<1> HIDE DEF P
<1>7. \A n \in 0 .. N : f[n] \in P[n]
  BY <1>1, <1>4, <1>5, LoopKeeps
<1>8. f[N].z = r
  BY <1>6, <1>7 DEF P
<1> QED BY <1>2, <1>8 DEF r

(* The last release by a thread that does not wait.                         *)
LEMMA ReleaseBoosts ==
  ASSUME NEW z, QueuesOK(z), NEW m \in Mutex, NEW t \in Thread, z.owner[m] = t,
         NEW l, m \in l, Owned(z, l), z.pending[t] = None, Climbing(z)
  PROVE  /\ Climbing(ReleaseLast(z, t, m)) /\ ReleaseLast(z, t, m).pending[t] = None
         /\ Boosted(z) => Boosted(ReleaseLast(z, t, m))
<1> DEFINE z1 == Unheld(z, t, m)
           p  == MutexPriority(z1, t)
           z2 == Restore(z1, t, m)
           r  == HandOver(z2, m)
<1>1. /\ z \in State /\ IsInjective(z.taken[t]) /\ z.taken \in [Thread -> Seq(Mutex)]
      /\ \A u \in Thread : IsInjective(z.taken[u])
      /\ \A u \in Thread : m \in ToSet(z.taken[u]) => u = t
  BY StateFields DEF QueuesOK, Owned
<1>2. /\ QueuesOK(z1)
      /\ z1.k = z.k /\ z1.queue = z.queue /\ z1.prio = z.prio /\ z1.pending = z.pending
      /\ z1.taken = [z.taken EXCEPT ![t] = RemoveFirst(z.taken[t], m)]
  <2> HIDE DEF z2, r, p
  <2>2. m \in Mutex /\ t \in Thread /\ QueuesOK(z) /\ IsInjective(z.taken[t])
    BY <1>1
  <2>1. /\ QueuesOK(z1)
        /\ z1.k = z.k /\ z1.queue = z.queue /\ z1.owner = z.owner /\ z1.prio = z.prio
        /\ z1.ceil = z.ceil /\ z1.pending = z.pending
        /\ z1.hold = [z.hold EXCEPT ![m] = 0]
        /\ z1.taken = [z.taken EXCEPT ![t] = RemoveFirst(z.taken[t], m)]
    BY <2>2, UnheldKeeps
  <2> HIDE DEF z1
  <2> QED BY <2>1
<1>3. r = ReleaseLast(z, t, m)
  BY DEF ReleaseLast, Unheld
<1> HIDE DEF z1
<1>4. \A u \in Thread : /\ IsInjective(z1.taken[u]) /\ m \notin ToSet(z1.taken[u])
                        /\ ToSet(z1.taken[u]) \subseteq ToSet(z.taken[u])
  <2> SUFFICES ASSUME NEW u \in Thread
               PROVE  /\ IsInjective(z1.taken[u]) /\ m \notin ToSet(z1.taken[u])
                      /\ ToSet(z1.taken[u]) \subseteq ToSet(z.taken[u])
    OBVIOUS
  <2>1. z.taken[t] \in Seq(Mutex)
    BY <1>1
  <2>2. /\ IsInjective(RemoveFirst(z.taken[t], m))
        /\ ToSet(RemoveFirst(z.taken[t], m)) = ToSet(z.taken[t]) \ {m}
    BY <1>1, <2>1, RemoveFirstProperties
  <2>3. CASE u = t
    BY <1>1, <1>2, <2>2, <2>3
  <2>4. CASE u # t
    BY <1>1, <1>2, <2>4
  <2> QED BY <2>3, <2>4
<1>5. p \in Prio /\ \A j \in ToSet(z1.taken[t]) : p <= z1.prio[j]
  BY <1>2, MutexPriorityLeast DEF QueuesOK
<1>6. Adjusted(z1, z2)
  BY <1>2, RestoreAdjusts
<1>7. z2 = IF Restores(z1, t, m) THEN SetThread(z1, t, p) ELSE z1
  BY DEF Restore
<1> HIDE DEF p, z2
<1>8. /\ QueuesOK(z2) /\ z2.taken = z1.taken /\ z2.pending = z.pending
  BY <1>2, <1>6 DEF Adjusted
<1>9. \A u \in Thread : r.pending[u] # None => /\ r.pending[u] = z.pending[u]
                                               /\ r.taken[u] = z1.taken[u]
  BY <1>8, HandOverFrame
<1> HIDE DEF r
<1>10. Climbing(r)
  BY <1>4, <1>9 DEF Climbing
<1>11. ASSUME Boosted(z) PROVE Boosted(r)
  <2>1. Boosted(z1)
    <3>1. Ordered(z1, None) /\ Recorded(z1, None)
      BY <1>2, <1>11 DEF Boosted, Loose, Ordered, Recorded
    <3>2. Passed(z1, None)
      BY <1>2, <1>4, <1>11 DEF Boosted, Loose, Passed
    <3> QED BY <3>1, <3>2 DEF Boosted, Loose
  <2>2. Boosted(SetThread(z1, t, p))
    <3>1. Passed(z1, t)
      BY <2>1, MutexAssumption DEF Boosted, Loose, Passed
    <3>2. Loose(z1, None, t)
      BY <2>1, <3>1 DEF Boosted, Loose
    <3>3. Loose(SetThread(z1, t, p), t, None)
      BY <1>2, <1>5, <3>2, SetThreadLoosens
    <3>4. /\ QueuesOK(SetThread(z1, t, p)) /\ SetThread(z1, t, p).pending = z1.pending
      <4>1. Adjusted(z1, SetThread(z1, t, p))
        BY <1>2, <1>5, SetThreadAdjusts
      <4> QED BY <4>1 DEF Adjusted
    <3>5. SetThread(z1, t, p).pending[t] = None
      BY <1>2, <3>4
    <3> QED BY <3>3, <3>4, <3>5, LooseAbsent
  <2>3. Boosted(z2)
    BY <1>7, <2>1, <2>2
  <2> QED BY <1>4, <1>8, <2>3, HandOverBoosts DEF r
<1> QED BY <1>3, <1>9, <1>10, <1>11

(* The mutex records the priority of its new waiter t, whose owner inherits *)
(* it unless it is as urgent.                                               *)
LEMMA InheritBoosts ==
  ASSUME NEW z, QueuesOK(z), Chains(z), NEW t \in Thread, NEW m \in Mutex,
         t \in ToSet(z.queue[m]), Ordered(z, None), Recorded(z, t), Passed(z, None)
  PROVE  Boosted(Inherit(z, t, m))
<1> DEFINE p == z.k.cprio[t]
           y == [z EXCEPT !.prio[m] = p]
           o == z.owner[m]
<1>1. /\ z \in State /\ z.k.cprio \in [Thread -> Prio] /\ z.prio \in [Mutex -> Prio \cup {NoPrio}]
      /\ z.queue[m] \in Seq(Thread) /\ t # None /\ o \in Thread /\ m \in ToSet(z.taken[o])
      /\ \A u \in Thread : \A l \in ToSet(z.taken[u]) : z.owner[l] = u /\ l \in Mutex
      /\ \A l \in Mutex : t \in ToSet(z.queue[l]) => l = m
  <2>1. z \in State /\ t # None
    BY MutexAssumption DEF QueuesOK
  <2>2. z.queue[m] \in Seq(Thread) /\ z.queue[m] # <<>>
    BY <2>1, StateFields, EmptyList
  <2>3. z.owner[m] \in Thread /\ m \in ToSet(z.taken[z.owner[m]])
    BY <2>1, <2>2, StateFields DEF QueuesOK, Chains
  <2>4. \A u \in Thread : ToSet(z.taken[u]) \subseteq Mutex
    BY <2>1, StateFields, EmptyList
  <2>5. \A l \in Mutex : t \in ToSet(z.queue[l]) => l = m
    BY DEF QueuesOK
  <2>6. z.k.cprio \in [Thread -> Prio] /\ z.prio \in [Mutex -> Prio \cup {NoPrio}]
    BY <2>1, StateFields
  <2> QED BY <2>1, <2>2, <2>3, <2>4, <2>5, <2>6 DEF Chains
<1>2. p \in Prio /\ p \in Nat /\ \A l \in Mutex : z.prio[l] \in Nat
  <2>1. p \in Prio /\ \A l \in Mutex : z.prio[l] \in Prio \cup {NoPrio}
    BY <1>1
  <2> QED BY <2>1, RecordedNat
<1>3. \A u \in Thread : z.k.cprio[u] \in Nat
  BY <1>1, PrioNat
<1>4. y = [z EXCEPT !.prio = [z.prio EXCEPT ![m] = p]]
  OBVIOUS
<1> HIDE DEF y
<1>5. [z.prio EXCEPT ![m] = p] \in [Mutex -> Prio \cup {NoPrio}]
  BY <1>1, <1>2
<1>6. /\ y \in State /\ y.k = z.k /\ y.queue = z.queue /\ y.owner = z.owner
      /\ y.taken = z.taken /\ y.pending = z.pending /\ y.prio = [z.prio EXCEPT ![m] = p]
  BY <1>1, <1>4, <1>5 DEF State
<1>7. y.prio[m] = p /\ \A l \in Mutex \ {m} : y.prio[l] = z.prio[l]
  BY <1>1, <1>6
<1> HIDE DEF p, o
<1>8. QueuesOK(y) /\ Chains(y) /\ Ordered(y, None)
  BY <1>6 DEF QueuesOK, Chains, Ordered
<1>9. CASE p < z.prio[m]
  <2>1. Recorded(y, None)
    <3> SUFFICES ASSUME NEW l \in Mutex, NEW w \in ToSet(z.queue[l])
                 PROVE  y.prio[l] <= z.k.cprio[w]
      BY <1>6 DEF Recorded
    <3>1. w \in Thread
      BY <1>1, StateFields, EmptyList
    <3>2. CASE w = t
      BY <1>1, <1>2, <1>7, <3>2 DEF p
    <3>3. CASE w # t
      <4>1. z.prio[l] <= z.k.cprio[w]
        BY <3>3 DEF Recorded
      <4> QED BY <1>2, <1>3, <1>7, <1>9, <3>1, <4>1
    <3> QED BY <3>2, <3>3
  <2>2. ASSUME NEW u \in Thread, NEW l \in ToSet(z.taken[u])
        PROVE  /\ z.k.cprio[u] <= z.prio[l]
               /\ u # o => y.prio[l] = z.prio[l]
               /\ l # m => y.prio[l] = z.prio[l]
    <3>1. l \in Mutex /\ z.owner[l] = u /\ u # None
      BY <1>1, MutexAssumption
    <3>2. z.k.cprio[u] <= z.prio[l]
      BY <3>1 DEF Passed
    <3> QED BY <1>7, <3>1, <3>2 DEF o
  <2>3. CASE p < z.k.cprio[o]
    <3>1. Passed(y, o)
      BY <1>6, <2>2 DEF Passed
    <3>2. \A l \in ToSet(y.taken[o]) : p <= y.prio[l]
      <4> SUFFICES ASSUME NEW l \in ToSet(z.taken[o]) PROVE p <= y.prio[l]
        BY <1>6
      <4>1. CASE l = m
        BY <1>2, <1>7, <4>1
      <4>2. CASE l # m
        <5>1. z.k.cprio[o] <= z.prio[l] /\ y.prio[l] = z.prio[l] /\ l \in Mutex
          BY <1>1, <2>2, <4>2
        <5> QED BY <1>1, <1>2, <1>3, <2>3, <5>1
      <4> QED BY <4>1, <4>2
    <3>3. Loose(y, None, o)
      BY <1>8, <2>1, <3>1 DEF Loose
    <3>4. Boosted(UpdatePriority(y, o, p))
      BY <1>1, <1>2, <1>8, <3>2, <3>3, UpdatePriorityBoosts
    <3>5. Inherit(z, t, m) = UpdatePriority(y, o, p)
      BY <1>6, <1>9, <2>3 DEF Inherit, y, o, p
    <3> QED BY <3>4, <3>5
  <2>4. CASE ~ p < z.k.cprio[o]
    <3>1. Passed(y, None)
      <4> SUFFICES ASSUME NEW u \in Thread, NEW l \in ToSet(z.taken[u])
                   PROVE  z.k.cprio[u] <= y.prio[l]
        BY <1>6 DEF Passed
      <4>1. CASE l = m
        <5>1. u = o
          BY <1>1, <4>1 DEF o
        <5> QED BY <1>1, <1>2, <1>3, <1>7, <2>4, <4>1, <5>1
      <4>2. CASE l # m
        BY <2>2, <4>2
      <4> QED BY <4>1, <4>2
    <3>2. Inherit(z, t, m) = y
      BY <1>6, <1>9, <2>4 DEF Inherit, y, o, p
    <3> QED BY <1>8, <2>1, <3>1, <3>2 DEF Boosted, Loose
  <2> QED BY <2>3, <2>4
<1>10. CASE ~ p < z.prio[m]
  <2>1. Inherit(z, t, m) = z
    BY <1>10 DEF Inherit, p
  <2>2. Recorded(z, None)
    <3> SUFFICES ASSUME NEW l \in Mutex, NEW w \in ToSet(z.queue[l])
                 PROVE  z.prio[l] <= z.k.cprio[w]
      BY DEF Recorded
    <3>1. CASE w = t
      <4>1. l = m
        BY <1>1, <3>1
      <4> QED BY <1>2, <1>10, <3>1, <4>1 DEF p
    <3>2. CASE w # t
      BY <3>2 DEF Recorded
    <3> QED BY <3>1, <3>2
  <2> QED BY <2>1, <2>2 DEF Boosted, Loose
<1> QED BY <1>9, <1>10

-----------------------------------------------------------------------------
(* The steps. *)

(* The mutexes the program takes have an order.                             *)
StrictRank == \A m, l \in Mutex : Rank[m] = Rank[l] => m = l

(* What is true as long as no mutex is detached, and the ranks all the time.*)
Kept(z, l) == Climbing(z) /\ (l = Mutex => Boosted(z))

InheritInv == MutexInv /\ Kept(s, live)

(* A thread leaves the lists, or has a wait forgotten.                      *)
LEMMA LeaveKept ==
  ASSUME NEW z, QueuesOK(z), NEW l, Kept(z, l), NEW r, NEW t,
         r.k.cprio = z.k.cprio, r.prio = z.prio, r.taken = z.taken,
         \A u \in Thread : r.pending[u] \in {z.pending[u], None},
         \A m \in Mutex : r.queue[m] \in {z.queue[m], RemoveFirst(z.queue[m], t)}
  PROVE  Kept(r, l)
<1>1. Climbing(r)
  BY DEF Kept, Climbing
<1>2. l = Mutex => Boosted(r)
  BY LeaveBoosts DEF Kept
<1> QED BY <1>1, <1>2 DEF Kept

(* Scheduling changes nothing of this.                                      *)
LEMMA ReschedKept ==
  ASSUME NEW z, QueuesOK(z), NEW l, Kept(z, l)
  PROVE  Kept(Resched(z), l)
<1> DEFINE r == Resched(z)
<1>1. z \in State /\ r = [z EXCEPT !.k = r.k] /\ r.k.cprio = z.k.cprio
  BY ReschedKeeps DEF QueuesOK
<1> HIDE DEF r
<1>2. r.prio = z.prio /\ r.taken = z.taken /\ r.pending = z.pending /\ r.queue = z.queue
  BY <1>1 DEF State
<1> QED BY <1>1, <1>2, LeaveKept DEF r

(* A failed wait.                                                           *)
LEMMA LeaveWaitersKept ==
  ASSUME NEW z, QueuesOK(z), NEW l, Owned(z, l), Kept(z, l), NEW t \in Thread, NEW m \in Mutex
  PROVE  Kept(LeaveWaiters(z, t, m), l)
<1>1. Chains(z)
  BY ChainsOfOwned DEF Kept
<1>2. Adjusted(z, LeaveWaiters(z, t, m))
  BY LeaveWaitersAdjusts
<1>3. Climbing(LeaveWaiters(z, t, m))
  BY <1>2 DEF Adjusted, Kept, Climbing
<1>4. l = Mutex => Boosted(LeaveWaiters(z, t, m))
  BY <1>1, LeaveWaitersBoosts DEF Kept
<1> QED BY <1>3, <1>4 DEF Kept

(* An owner counts the mutex once more.                                     *)
LEMMA TakeAgainKept ==
  ASSUME InheritInv, NEW m \in Mutex, TakeAgain(m)
  PROVE  Kept(s', live')
<1>1. s \in State /\ QueuesOK(s) /\ Kept(s, live)
  BY Facts DEF InheritInv
<1>2. s' = [s EXCEPT !.hold[m] = @ + 1] /\ live' = live
  BY DEF TakeAgain
<1>3. /\ s'.k = s.k /\ s'.prio = s.prio /\ s'.taken = s.taken /\ s'.pending = s.pending
      /\ s'.queue = s.queue
  BY <1>1, <1>2 DEF State
<1> QED BY <1>1, <1>2, <1>3, LeaveKept

(* A free mutex has no waiters, and none of the boost of its ceiling is     *)
(* passed on.                                                               *)
LEMMA TakeFreeKept ==
  ASSUME InheritInv, NEW m \in Mutex, TakeFree(m)
  PROVE  Kept(s', live')
<1> DEFINE t == self
           c == s.ceil[m]
           z1 == Seized(m)
           z2 == IF c < s.k.cprio[t] THEN UpdatePriority(z1, t, c) ELSE z1
           r == [z2 EXCEPT !.taken[t] = Cons(m, @)]
<1>1. /\ pc[t] = "run" /\ s.owner[m] = None /\ m \in live /\ s' = r /\ live' = live
  BY DEF TakeFree, Calls, InOrder, Seized
<1>2. /\ t \in Thread /\ s \in State /\ t # None /\ QueuesOK(s) /\ Owned(s, live)
      /\ s.taken \in [Thread -> Seq(Mutex)] /\ s.prio \in [Mutex -> Prio \cup {NoPrio}]
      /\ s.k.cprio \in [Thread -> Prio] /\ c \in Prio \cup {NoPrio}
      /\ Kept(s, live) /\ s.queue[m] = <<>> /\ s.pending[t] = None
      /\ \A u \in Thread : m \notin ToSet(s.taken[u])
  <2>1. s \in State /\ QueuesOK(s) /\ Owned(s, live) /\ Calling(s, pc, arg, err) /\ t \in Thread
    BY Facts DEF InheritInv
  <2>2. s.pending[t] = None
    BY <1>1, <2>1 DEF Calling
  <2>3. \A u \in Thread : u # None
    BY MutexAssumption
  <2>4. s.queue[m] = <<>> /\ \A u \in Thread : m \notin ToSet(s.taken[u])
    BY <1>1, <2>1, <2>3 DEF QueuesOK, Owned
  <2>5. /\ s.taken \in [Thread -> Seq(Mutex)] /\ s.prio \in [Mutex -> Prio \cup {NoPrio}]
        /\ s.k.cprio \in [Thread -> Prio] /\ c \in Prio \cup {NoPrio}
    BY <2>1, StateFields
  <2> HIDE DEF t, c
  <2> QED BY <2>1, <2>2, <2>3, <2>4, <2>5 DEF InheritInv
<1>3. /\ QueuesOK(z1) /\ z1.k = s.k /\ z1.queue = s.queue /\ z1.pending = s.pending
      /\ z1.taken = s.taken /\ z1.prio = [s.prio EXCEPT ![m] = NoPrio]
  <2> HIDE DEF c, t, z2, r
  <2>1. MutexInv
    BY DEF InheritInv
  <2> QED BY <2>1, SeizeKeeps
<1>4. r = [z2 EXCEPT !.taken[t] = Cons(m, @)]
  OBVIOUS
<1>5. z2 = IF c < s.k.cprio[t] THEN UpdatePriority(z1, t, c) ELSE z1
  OBVIOUS
<1> HIDE DEF t, c, z1, z2, r
<1>6. z1.prio[m] = NoPrio /\ \A l \in Mutex \ {m} : z1.prio[l] = s.prio[l]
  BY <1>2, <1>3
<1>7. s.k.cprio[t] \in Prio /\ s.k.cprio[t] \in Nat
  BY <1>2, PrioNat
<1>8. \A l \in ToSet(s.taken[t]) : l \in Mutex /\ l # m /\ z1.prio[l] = s.prio[l] /\ s.prio[l] \in Nat
  <2>1. ToSet(s.taken[t]) \subseteq Mutex
    BY <1>2, EmptyList
  <2>2. \A l \in Mutex : s.prio[l] \in Nat
    BY <1>2, RecordedNat
  <2> QED BY <1>2, <1>6, <2>1, <2>2
<1>9. c < s.k.cprio[t] => c \in Prio /\ c \in Nat
  <2>1. CASE c \in Prio
    BY <2>1, PrioNat
  <2>2. CASE c = NoPrio
    BY <1>7, <2>2, PrioNat
  <2> QED BY <1>2, <2>1, <2>2
<1>10. c < s.k.cprio[t] => z2 = SetThread(z1, t, c)
  <2>1. z1.pending[t] = None
    BY <1>2, <1>3
  <2> QED BY <1>2, <1>3, <1>5, <1>9, <2>1, UpdatePriorityAlone
<1>11. /\ QueuesOK(z2) /\ z2 \in State /\ z2.prio = z1.prio /\ z2.queue = s.queue
       /\ z2.taken = s.taken /\ z2.pending = s.pending
  <2>1. CASE c < s.k.cprio[t]
    <3>1. /\ Adjusted(z1, z2) /\ z2.queue = z1.queue /\ z2.prio = z1.prio
      <4>1. QueuesOK(z1) /\ t \in Thread /\ c \in Prio
        BY <1>2, <1>3, <1>9, <2>1
      <4>2. /\ Adjusted(z1, SetThread(z1, t, c)) /\ SetThread(z1, t, c).queue = z1.queue
            /\ SetThread(z1, t, c).prio = z1.prio
        BY <4>1, SetThreadAdjusts
      <4> QED BY <1>10, <2>1, <4>2
    <3> QED BY <1>3, <3>1 DEF Adjusted, QueuesOK
  <2>2. CASE ~ c < s.k.cprio[t]
    BY <1>3, <1>5, <2>2 DEF QueuesOK
  <2> QED BY <2>1, <2>2
<1>12. /\ r.k = z2.k /\ r.queue = z2.queue /\ r.prio = z2.prio /\ r.pending = z2.pending
       /\ r.taken = [s.taken EXCEPT ![t] = Cons(m, s.taken[t])]
  BY <1>4, <1>11 DEF State
<1>13. Climbing(r)
  <2>1. \A u \in Thread : r.pending[u] # None => u # t /\ r.taken[u] = s.taken[u]
    BY <1>2, <1>11, <1>12
  <2> QED BY <1>2, <1>11, <1>12, <2>1 DEF Kept, Climbing
<1>14. ASSUME Boosted(s) PROVE Boosted(r)
  <2>1. Boosted(z1)
    <3>1. Ordered(z1, None)
      BY <1>3, <1>14 DEF Boosted, Loose, Ordered
    <3>2. Recorded(z1, None)
      <4>1. ToSet(s.queue[m]) = {}
        BY <1>2 DEF ToSet
      <4> QED BY <1>3, <1>6, <1>14, <4>1 DEF Boosted, Loose, Recorded
    <3>3. Passed(z1, None)
      <4> SUFFICES ASSUME NEW u \in Thread, NEW l \in ToSet(s.taken[u])
                   PROVE  s.k.cprio[u] <= z1.prio[l]
        BY <1>3 DEF Passed
      <4>1. ToSet(s.taken[u]) \subseteq Mutex
        BY <1>2, EmptyList
      <4>2. l \in Mutex /\ l # m /\ u # None
        BY <1>2, <4>1, MutexAssumption
      <4>3. s.k.cprio[u] <= s.prio[l]
        BY <1>14, <4>2 DEF Boosted, Loose, Passed
      <4> QED BY <1>6, <4>2, <4>3
    <3> QED BY <3>1, <3>2, <3>3 DEF Boosted, Loose
  <2>2. Boosted(z2)
    <3>1. CASE c < s.k.cprio[t]
      <4>1. \A l \in ToSet(z1.taken[t]) : c <= z1.prio[l]
        <5>1. \A l \in ToSet(s.taken[t]) : s.k.cprio[t] <= s.prio[l]
          BY <1>2, <1>14 DEF Boosted, Loose, Passed
        <5> QED BY <1>3, <1>7, <1>8, <1>9, <3>1, <5>1
      <4>2. Loose(z1, None, t)
        <5>1. Passed(z1, t)
          BY <2>1, MutexAssumption DEF Boosted, Loose, Passed
        <5> QED BY <2>1, <5>1 DEF Boosted, Loose
      <4>3. Loose(z2, t, None)
        <5>1. Loose(SetThread(z1, t, c), t, None)
          BY <1>2, <1>3, <1>9, <3>1, <4>1, <4>2, SetThreadLoosens
        <5> QED BY <1>10, <3>1, <5>1
      <4>4. z2.pending[t] = None
        BY <1>2, <1>11
      <4> QED BY <1>2, <1>11, <4>3, <4>4, LooseAbsent
    <3>2. CASE ~ c < s.k.cprio[t]
      BY <1>5, <2>1, <3>2
    <3> QED BY <3>1, <3>2
  <2>3. Ordered(r, None) /\ Recorded(r, None)
    BY <1>12, <2>2 DEF Boosted, Loose, Ordered, Recorded
  <2>4. z2.k.cprio[t] <= z2.prio[m]
    <3>1. z2.k.cprio[t] \in Prio
      BY <1>2, <1>11, StateFields
    <3> QED BY <1>6, <1>11, <3>1, RecordedNat
  <2>5. Passed(r, None)
    <3> SUFFICES ASSUME NEW u \in Thread, NEW l \in ToSet(r.taken[u])
                 PROVE  z2.k.cprio[u] <= z2.prio[l]
      BY <1>12 DEF Passed
    <3>1. s.taken[t] \in Seq(Mutex) /\ IsInjective(s.taken[t]) /\ m \notin ToSet(s.taken[t])
      BY <1>2 DEF Owned
    <3>2. ToSet(Cons(m, s.taken[t])) = ToSet(s.taken[t]) \cup {m}
      BY <3>1, ConsNew
    <3>3. (u = t /\ l = m) \/ l \in ToSet(s.taken[u])
      <4>1. CASE u = t
        BY <1>2, <1>12, <3>2, <4>1
      <4>2. CASE u # t
        BY <1>2, <1>12, <4>2
      <4> QED BY <4>1, <4>2
    <3>4. CASE l \in ToSet(s.taken[u])
      BY <1>11, <2>2, <3>4, MutexAssumption DEF Boosted, Loose, Passed
    <3> QED BY <2>4, <3>3, <3>4
  <2> QED BY <2>3, <2>5 DEF Boosted, Loose
<1> QED BY <1>1, <1>2, <1>13, <1>14 DEF Kept

(* A thread begins to wait: its owner, and theirs, inherit its priority.    *)
LEMMA TakeBusyKept ==
  ASSUME StrictRank, InheritInv, NEW m \in Mutex, NEW w \in Waits, TakeBusy(m, w)
  PROVE  Kept(s', live')
<1> DEFINE t == self
           k1 == SuspendThread(s.k, t)
           z1 == Joined(m)
           z2 == Inherit(z1, t, m)
           r == [z2 EXCEPT !.k.nest = 1]
<1>1. /\ s.owner[m] # t /\ m \in live /\ live' = live
      /\ \A l \in ToSet(s.taken[t]) : Rank[l] <= Rank[m]
  BY DEF TakeBusy, Calls, InOrder
<1>2. /\ t \in Thread /\ s \in State /\ QueuesOK(s) /\ Owned(s, live) /\ t # None
      /\ s.pending \in [Thread -> Mutex \cup {None}] /\ s.taken \in [Thread -> Seq(Mutex)]
      /\ s.owner[m] # None /\ Kept(s, live)
  <2>1. MutexInv
    BY DEF InheritInv
  <2>2. s.owner[m] # None
    BY DEF TakeBusy
  <2> QED BY <2>1, <2>2, Facts, StateFields DEF InheritInv
<1>3. /\ s' = r /\ k1.cprio = s.k.cprio
      /\ QueuesOK(z1) /\ z1.k = k1 /\ z1.owner = s.owner /\ z1.hold = s.hold
      /\ z1.prio = s.prio /\ z1.taken = s.taken /\ z1.pending = [s.pending EXCEPT ![t] = m]
      /\ z1.queue = Enqueue(s, m, t).queue
      /\ \A l \in Mutex : l # m => z1.queue[l] = s.queue[l]
      /\ ToSet(z1.queue[m]) = ToSet(s.queue[m]) \cup {t}
  <2>1. MutexInv
    BY DEF InheritInv
  <2> QED BY <2>1, JoinKeeps
<1>4. r = [z2 EXCEPT !.k.nest = 1] /\ z2 = Inherit(z1, t, m)
  OBVIOUS
<1> HIDE DEF t, k1, z1, z2, r
<1>5. Owned(z1, live)
  BY <1>1, <1>2, <1>3 DEF Owned
<1>6. Climbing(z1)
  <2>1. ASSUME NEW l \in ToSet(s.taken[t]) PROVE Rank[l] < Rank[m]
    <3>1. ToSet(s.taken[t]) \subseteq Mutex
      BY <1>2, EmptyList
    <3>2. l \in Mutex
      BY <3>1
    <3>3. l # m
      BY <1>1, <1>2, <2>1, <3>2 DEF Owned
    <3>4. Rank[l] \in Nat /\ Rank[m] \in Nat /\ Rank[l] # Rank[m] /\ Rank[l] <= Rank[m]
      BY <1>1, <2>1, <3>2, <3>3, MutexAssumption DEF StrictRank
    <3> QED BY <3>4
  <2>2. \A u \in Thread : z1.pending[u] = IF u = t THEN m ELSE s.pending[u]
    BY <1>2, <1>3
  <2>3. \A u \in Thread \ {t} : s.pending[u] # None =>
          \A l \in ToSet(s.taken[u]) : Rank[l] < Rank[s.pending[u]]
    BY <1>2 DEF Kept, Climbing
  <2> QED BY <1>3, <2>1, <2>2, <2>3 DEF Climbing
<1>7. Chains(z1)
  BY <1>3, <1>5, <1>6, ChainsOfOwned
<1>8. Adjusted(z1, z2)
  BY <1>2, <1>3, <1>4, InheritAdjusts
<1>9. z2 \in State /\ Climbing(z2)
  BY <1>6, <1>8 DEF Adjusted, QueuesOK, Climbing
<1>10. ASSUME Boosted(s) PROVE Boosted(z2)
  <2>1. Ordered(z1, None)
    <3>1. \A l \in Mutex : SortedBut(s.queue[l], s.k.cprio, None)
      BY <1>10 DEF Boosted, Loose, Ordered
    <3>2. SortedBut(z1.queue[m], s.k.cprio, None)
      BY <1>2, <1>3, <3>1, InsertSorted
    <3> QED BY <1>3, <3>1, <3>2 DEF Ordered
  <2>2. Recorded(z1, t)
    <3> SUFFICES ASSUME NEW l \in Mutex, NEW u \in ToSet(z1.queue[l]) \ {t}
                 PROVE  s.prio[l] <= s.k.cprio[u]
      BY <1>3 DEF Recorded
    <3>1. u \in ToSet(s.queue[l])
      BY <1>3
    <3>2. u # None
      <4>1. ToSet(s.queue[l]) \subseteq Thread
        BY <1>2, StateFields, EmptyList
      <4> QED BY <3>1, <4>1, MutexAssumption
    <3> QED BY <1>10, <3>1, <3>2 DEF Boosted, Loose, Recorded
  <2>3. Passed(z1, None)
    BY <1>3, <1>10 DEF Boosted, Loose, Passed
  <2>4. t \in ToSet(z1.queue[m])
    BY <1>3
  <2> QED BY <1>2, <1>3, <1>4, <1>7, <2>1, <2>2, <2>3, <2>4, InheritBoosts
<1>11. /\ r.k.cprio = z2.k.cprio /\ r.queue = z2.queue /\ r.prio = z2.prio
       /\ r.taken = z2.taken /\ r.pending = z2.pending
  BY <1>4, <1>9 DEF State, KState
<1>12. Kept(z2, live)
  BY <1>2, <1>9, <1>10 DEF Kept
<1>13. QueuesOK(z2)
  BY <1>8 DEF Adjusted
<1>14. Kept(r, live)
  BY <1>11, <1>12, <1>13, LeaveKept
<1> QED BY <1>1, <1>3, <1>14

(* The waiter leaves the CPU.                                               *)
LEMMA TakeScheduleKept ==
  ASSUME InheritInv, TakeSchedule
  PROVE  Kept(s', live')
<1> DEFINE z == [s EXCEPT !.k.nest = 0, !.k.flag = FALSE]
<1>1. s' = Resched(z) /\ live' = live /\ QueuesOK(s) /\ Kept(s, live)
  BY Facts DEF TakeSchedule, InheritInv
<1>2. /\ QueuesOK(z) /\ z.k.cprio = s.k.cprio
      /\ z.queue = s.queue /\ z.prio = s.prio /\ z.taken = s.taken /\ z.pending = s.pending
  <2>1. QueuesOK(s) /\ 0 \in Nat /\ FALSE \in BOOLEAN
    BY <1>1
  <2> QED BY <2>1, NestKeeps
<1> HIDE DEF z
<1>3. Kept(z, live)
  BY <1>1, <1>2, LeaveKept
<1> QED BY <1>1, <1>2, <1>3, ReschedKept

(* The call returns.                                                        *)
LEMMA TakeReturnKept ==
  ASSUME InheritInv, TakeReturn
  PROVE  Kept(s', live')
<1> DEFINE t == self
           m == arg[t]
           y == LeaveWaiters(s, t, m)
           r == [y EXCEPT !.pending[t] = None]
<1>1. pc[t] = "wait" /\ s' = (IF s.owner[m] = t THEN s ELSE r) /\ live' = live
  BY DEF TakeReturn
<1>2. /\ t \in Thread /\ m \in Mutex /\ QueuesOK(s) /\ Owned(s, live) /\ Kept(s, live)
  BY <1>1, Facts DEF InheritInv
<1> HIDE DEF t, m
<1>3. Adjusted(s, y) /\ Kept(y, live)
  BY <1>2, LeaveWaitersAdjusts, LeaveWaitersKept
<1> HIDE DEF y
<1>4. y \in State /\ QueuesOK(y) /\ y.pending \in [Thread -> Mutex \cup {None}]
  BY <1>3, StateFields DEF Adjusted, QueuesOK
<1>5. /\ r.k = y.k /\ r.prio = y.prio /\ r.taken = y.taken /\ r.queue = y.queue
      /\ r.pending = [y.pending EXCEPT ![t] = None]
  BY <1>4 DEF State
<1> HIDE DEF r
<1>6. \A u \in Thread : r.pending[u] \in {y.pending[u], None}
  BY <1>2, <1>4, <1>5
<1>7. Kept(r, live)
  BY <1>3, <1>4, <1>5, <1>6, LeaveKept
<1> QED BY <1>1, <1>2, <1>7

(* A release.                                                               *)
LEMMA ReleaseKept ==
  ASSUME InheritInv, NEW m \in Mutex, Release(m)
  PROVE  Kept(s', live')
<1> DEFINE t == self
           w == [s EXCEPT !.hold[m] = @ - 1]
           z == ReleaseLast(s, t, m)
<1>1. /\ pc[t] = "run" /\ s.owner[m] = t /\ m \in live /\ live' = live
      /\ s' \in {w, z, Resched(z)}
  BY DEF Release, Calls
<1>2. /\ t \in Thread /\ s \in State /\ QueuesOK(s) /\ Owned(s, live) /\ Kept(s, live)
      /\ Calling(s, pc, arg, err)
  BY Facts DEF InheritInv
<1>3. s.pending[t] = None
  BY <1>1, <1>2 DEF Calling
<1> HIDE DEF t
<1>4. Kept(w, live)
  <2>1. /\ w.k = s.k /\ w.prio = s.prio /\ w.taken = s.taken /\ w.pending = s.pending
        /\ w.queue = s.queue
    BY <1>2 DEF State
  <2> HIDE DEF w, z
  <2> QED BY <1>2, <2>1, LeaveKept
<1> HIDE DEF w
<1>5. Climbing(z) /\ (Boosted(s) => Boosted(z))
  BY <1>1, <1>2, <1>3, ReleaseBoosts DEF Kept
<1>6. QueuesOK(z)
  <2>1. m \in Mutex /\ t \in Thread /\ s.owner[m] = t /\ m \in live
    BY <1>1, <1>2
  <2> QED BY <1>2, <2>1, ReleaseKeeps
<1> HIDE DEF z
<1>7. Kept(z, live)
  BY <1>2, <1>5 DEF Kept
<1> QED BY <1>1, <1>4, <1>6, <1>7, ReschedKept

(* rt_mutex_setprioceiling                                                  *)
LEMMA SetCeilingKept ==
  ASSUME InheritInv, NEW m \in Mutex, NEW c \in Ceilings, SetCeiling(m, c)
  PROVE  Kept(s', live')
<1> DEFINE z == [s EXCEPT !.ceil[m] = c]
           o == s.owner[m]
<1>1. s' = (IF o = None THEN z ELSE Refresh(z, o)) /\ live' = live
  BY DEF SetCeiling
<1>2. /\ s \in State /\ QueuesOK(s) /\ Owned(s, live) /\ Kept(s, live) /\ c \in Prio
      /\ s.ceil \in [Mutex -> Prio \cup {NoPrio}] /\ o \in Thread \cup {None}
  BY Facts, StateFields, MutexAssumption DEF InheritInv
<1>3. /\ z.k = s.k /\ z.queue = s.queue /\ z.owner = s.owner /\ z.hold = s.hold
      /\ z.prio = s.prio /\ z.taken = s.taken /\ z.pending = s.pending
  BY <1>2 DEF State
<1>4. z \in State
  <2>1. [s.ceil EXCEPT ![m] = c] \in [Mutex -> Prio \cup {NoPrio}]
    BY <1>2
  <2>2. z = [s EXCEPT !.ceil = [s.ceil EXCEPT ![m] = c]]
    OBVIOUS
  <2> HIDE DEF z
  <2> QED BY <1>2, <2>1, <2>2 DEF State
<1> HIDE DEF z, o
<1>5. QueuesOK(z) /\ Owned(z, live)
  BY <1>2, <1>3, <1>4 DEF QueuesOK, Owned
<1>6. Kept(z, live)
  BY <1>2, <1>3, LeaveKept
<1>7. ASSUME o # None PROVE Kept(Refresh(z, o), live)
  <2>1. o \in Thread
    BY <1>2, <1>7
  <2>2. Chains(z) /\ Adjusted(z, Refresh(z, o))
    BY <1>5, <1>6, <2>1, ChainsOfOwned, RefreshAdjusts DEF Kept
  <2>3. Climbing(Refresh(z, o))
    BY <1>6, <2>2 DEF Adjusted, Kept, Climbing
  <2>4. ASSUME Boosted(z) PROVE Boosted(Refresh(z, o))
    <3>1. Passed(z, o)
      BY <2>4, MutexAssumption DEF Boosted, Loose, Passed
    <3>2. Loose(z, None, o)
      BY <2>4, <3>1 DEF Boosted, Loose
    <3> QED BY <1>5, <2>1, <2>2, <3>2, RefreshBoosts
  <2> QED BY <1>6, <2>3, <2>4 DEF Kept
<1> QED BY <1>1, <1>6, <1>7

(* A detached mutex ends the promise, but not the order of the ranks.       *)
LEMMA DetachKept ==
  ASSUME InheritInv, NEW m \in Mutex, Detach(m)
  PROVE  Kept(s', live')
<1> DEFINE W  == ToSet(s.queue[m])
           o  == s.owner[m]
           f  == RemoveFirst(s.taken[o], m)
           z1 == ReadyAll(s, m)
           z2 == IF o = None THEN z1 ELSE [z1 EXCEPT !.taken[o] = RemoveFirst(@, m)]
<1>1. /\ live' = live \ {m}
      /\ s' = IF o # None /\ Restores(z2, o, m) THEN Resched(Restore(z2, o, m)) ELSE z2
  BY DEF Detach
<1>2. /\ s \in State /\ QueuesOK(s) /\ Owned(s, live) /\ Kept(s, live) /\ o \in Thread \cup {None}
      /\ s.taken \in [Thread -> Seq(Mutex)]
  BY Facts, StateFields DEF InheritInv
<1>3. Woken(s, z1, W)
  BY <1>2, ReadyAllKeeps
<1> HIDE DEF z1, W
<1>4. /\ z1 \in State /\ QueuesOK(z1) /\ z1.taken = s.taken /\ z1.owner = s.owner
      /\ z1.pending = s.pending
  BY <1>3 DEF Woken, QueuesOK
<1>5. z2 = IF o = None THEN z1 ELSE [z1 EXCEPT !.taken = [s.taken EXCEPT ![o] = f]]
  BY <1>4
<1> HIDE DEF z2, o
<1>6. o # None => f \in Seq(Mutex) /\ ToSet(f) = ToSet(s.taken[o]) \ {m}
  BY <1>2, RemoveFirstProperties DEF Owned
<1> HIDE DEF f
<1>7. /\ z2 \in State /\ z2.k = z1.k /\ z2.queue = z1.queue /\ z2.owner = s.owner
      /\ z2.pending = s.pending
      /\ z2.taken = IF o = None THEN s.taken ELSE [s.taken EXCEPT ![o] = f]
  <2>1. CASE o = None
    BY <1>4, <1>5, <2>1
  <2>2. CASE o # None
    <3>1. [s.taken EXCEPT ![o] = f] \in [Thread -> Seq(Mutex)]
      BY <1>2, <1>6, <2>2
    <3> QED BY <1>4, <1>5, <2>2, <3>1 DEF State
  <2> QED BY <2>1, <2>2
<1>8. QueuesOK(z2)
  BY <1>4, <1>7 DEF QueuesOK
<1>9. \A u \in Thread : ToSet(z2.taken[u]) \subseteq ToSet(s.taken[u])
  <2> SUFFICES ASSUME NEW u \in Thread PROVE ToSet(z2.taken[u]) \subseteq ToSet(s.taken[u])
    OBVIOUS
  <2>1. CASE u = o /\ o # None
    BY <1>2, <1>6, <1>7, <2>1
  <2>2. CASE ~ (u = o /\ o # None)
    BY <1>2, <1>7, <2>2
  <2> QED BY <2>1, <2>2
<1>10. Climbing(z2)
  BY <1>2, <1>7, <1>9, ClimbingFrame DEF Kept
<1>11. Kept(z2, live')
  BY <1>1, <1>10 DEF Kept
<1>12. ASSUME o # None PROVE Kept(Resched(Restore(z2, o, m)), live')
  <2>1. Adjusted(z2, Restore(z2, o, m))
    BY <1>2, <1>8, <1>12, RestoreAdjusts
  <2>2. QueuesOK(Restore(z2, o, m)) /\ Climbing(Restore(z2, o, m))
    BY <1>10, <2>1 DEF Adjusted, Climbing
  <2>3. Kept(Restore(z2, o, m), live')
    BY <1>1, <2>2 DEF Kept
  <2> QED BY <2>2, <2>3, ReschedKept
<1> QED BY <1>1, <1>11, <1>12

(* rt_thread_delete and rt_thread_detach of another thread.                 *)
LEMMA DeleteKept ==
  ASSUME InheritInv, NEW t \in Thread, Delete(t)
  PROVE  Kept(s', live')
<1> DEFINE m  == s.pending[t]
           z1 == Close(s, t)
           y  == LeaveWaiters(z1, t, m)
           z2 == IF m = None THEN z1 ELSE [y EXCEPT !.pending[t] = None]
           r  == [z2 EXCEPT !.hold = [j \in Mutex |-> IF j \in ToSet(s.taken[t]) THEN 1 ELSE @[j]]]
<1>1. s.k.stat[t] # "CLOSE" /\ s' = r /\ live' = live
  BY DEF Delete
<1>2. /\ s \in State /\ QueuesOK(s) /\ Owned(s, live) /\ Kept(s, live) /\ m \in Mutex \cup {None}
      /\ s.k.stat[t] \notin {"INIT", "CLOSE"}
  BY <1>1, Facts, StateFields DEF InheritInv, Started
<1>3. /\ QueuesOK(z1) /\ z1.k.cprio = s.k.cprio
      /\ z1.owner = s.owner /\ z1.hold = s.hold /\ z1.prio = s.prio
      /\ z1.taken = s.taken /\ z1.pending = s.pending
      /\ \A j \in Mutex : /\ z1.queue[j] = RemoveFirst(s.queue[j], t)
                          /\ ToSet(z1.queue[j]) = ToSet(s.queue[j]) \ {t}
  <2>1. QueuesOK(s) /\ s.k.stat[t] \notin {"INIT", "CLOSE"}
    BY <1>2
  <2>2. TakenOut(s, z1, t)
    BY <2>1, CloseKeeps
  <2> HIDE DEF m, y, z1, z2, r
  <2> QED BY <2>2 DEF TakenOut
<1> HIDE DEF z1, m
<1>4. Kept(z1, live)
  BY <1>2, <1>3, LeaveKept
<1>5. Owned(z1, live)
  <2>1. ASSUME NEW j \in Mutex, z1.queue[j] # <<>> PROVE j \in live
    <3>1. z1.queue[j] \in Seq(Thread) /\ s.queue[j] \in Seq(Thread)
      BY <1>2, <1>3, StateFields DEF QueuesOK
    <3>2. ToSet(z1.queue[j]) # {}
      BY <2>1, <3>1, EmptyList
    <3>3. ToSet(s.queue[j]) # {}
      BY <1>3, <3>2
    <3>4. s.queue[j] # <<>>
      BY <3>1, <3>3, EmptyList
    <3> QED BY <1>2, <3>4 DEF Owned
  <2> QED BY <1>2, <1>3, <2>1 DEF Owned
<1>6. z2 \in State /\ QueuesOK(z1) /\ Kept(z2, live)
  <2>1. CASE m = None
    BY <1>3, <1>4, <2>1 DEF QueuesOK
  <2>2. CASE m # None
    <3>1. Adjusted(z1, y) /\ Kept(y, live)
      BY <1>2, <1>3, <1>4, <1>5, <2>2, LeaveWaitersAdjusts, LeaveWaitersKept
    <3> HIDE DEF y
    <3>2. y \in State /\ QueuesOK(y) /\ y.pending \in [Thread -> Mutex \cup {None}]
      BY <3>1, StateFields DEF Adjusted, QueuesOK
    <3>3. z2 = [y EXCEPT !.pending = [y.pending EXCEPT ![t] = None]]
      BY <2>2
    <3> HIDE DEF z2
    <3>4. [y.pending EXCEPT ![t] = None] \in [Thread -> Mutex \cup {None}]
      BY <3>2
    <3>5. /\ z2 \in State /\ z2.k = y.k /\ z2.queue = y.queue /\ z2.prio = y.prio
          /\ z2.taken = y.taken /\ z2.pending = [y.pending EXCEPT ![t] = None]
      BY <3>2, <3>3, <3>4 DEF State
    <3>6. \A u \in Thread : z2.pending[u] \in {y.pending[u], None}
      BY <3>2, <3>5
    <3>7. Kept(z2, live)
      BY <3>1, <3>2, <3>5, <3>6, LeaveKept
    <3> QED BY <1>3, <3>5, <3>7
  <2> QED BY <2>1, <2>2
<1> HIDE DEF z2
<1>7. /\ r.k = z2.k /\ r.queue = z2.queue /\ r.prio = z2.prio
      /\ r.taken = z2.taken /\ r.pending = z2.pending
  BY <1>6 DEF State
<1> HIDE DEF r
<1>8. Kept(r, live)
  BY <1>6, <1>7 DEF Kept, Climbing, Boosted, Loose, Ordered, Recorded, Passed
<1> QED BY <1>1, <1>8

(* _thread_exit: mutex after mutex goes to its most urgent waiter.          *)
LEMMA ExitKept ==
  ASSUME InheritInv, Exit
  PROVE  Kept(s', live')
<1> DEFINE t  == self
           z1 == Close(s, t)
           q  == z1.taken[t]
           N  == Len(q)
           z2 == ReleaseAll(z1, t)
<1>1. s' = Resched(z2) /\ live' = live
  BY DEF Exit
<1>2. t \in Thread /\ QueuesOK(s) /\ Kept(s, live)
  BY Facts DEF InheritInv
<1>3. /\ QueuesOK(z1) /\ Owned(z1, live) /\ Calling(z1, pc, arg, err)
      /\ z1.k.stat = [s.k.stat EXCEPT ![t] = "CLOSE"]
      /\ z1.k.cur = s.k.cur /\ z1.k.nest = s.k.nest /\ z1.k.cprio = s.k.cprio
      /\ z1.queue = s.queue /\ z1.owner = s.owner /\ z1.prio = s.prio
      /\ z1.taken = s.taken /\ z1.pending = s.pending /\ z1.pending[t] = None
  <2> HIDE DEF q, N, z2
  <2>1. MutexInv
    BY DEF InheritInv
  <2> QED BY <2>1, ExitCloses
<1> HIDE DEF t, z1
<1>4. Kept(z1, live)
  BY <1>2, <1>3, LeaveKept
<1>5. N \in Nat /\ q \in Seq(Mutex) /\ \A n \in 1 .. N : q[n] \in Mutex
  BY <1>2, <1>3, StateFields DEF QueuesOK
<1>6. PICK f :
        /\ f[0] = z1
        /\ \A n \in 1 .. N : f[n] = ReleaseLast(f[n - 1], t, q[n])
        /\ \A n \in 0 .. N : /\ QueuesOK(f[n]) /\ Owned(f[n], live)
                             /\ ToSet(f[n].taken[t]) = {q[i] : i \in n + 1 .. N}
        /\ z2 = f[N]
  <2>1. ReleaseTurns(z1, t, live, pc, arg, err)
    BY <1>2, <1>3, ReleaseAllTurns
  <2> QED BY <2>1 DEF ReleaseTurns
<1> HIDE DEF q, N, z2
<1> DEFINE P == [n \in 0 .. N |-> {x \in State : Kept(x, live) /\ x.pending[t] = None}]
<1>7. f[0] \in P[0]
  BY <1>3, <1>4, <1>5, <1>6 DEF QueuesOK
<1>8. ASSUME NEW n \in 1 .. N, f[n - 1] \in P[n - 1] PROVE f[n] \in P[n]
  <2>1. n \in 0 .. N /\ n - 1 \in 0 .. N /\ n \in (n - 1) + 1 .. N
    BY <1>5
  <2> DEFINE x == f[n - 1]
             m == q[n]
             r == ReleaseLast(x, t, m)
  <2>2. Kept(x, live) /\ x.pending[t] = None
    BY <1>8, <2>1
  <2>3. QueuesOK(x) /\ Owned(x, live) /\ m \in ToSet(x.taken[t]) /\ m \in Mutex
    <3>1. ToSet(x.taken[t]) = {q[i] : i \in (n - 1) + 1 .. N}
      BY <1>6, <2>1
    <3> QED BY <1>5, <1>6, <2>1, <3>1
  <2>4. f[n] = r /\ f[n] \in State
    BY <1>6, <2>1 DEF QueuesOK
  <2> HIDE DEF P, x, m, r
  <2>5. x.owner[m] = t /\ m \in live
    BY <1>2, <2>3 DEF Owned
  <2>6. Climbing(r) /\ r.pending[t] = None /\ (Boosted(x) => Boosted(r))
    BY <1>2, <2>2, <2>3, <2>5, ReleaseBoosts DEF Kept, r
  <2>7. Kept(r, live)
    BY <2>2, <2>6 DEF Kept
  <2> QED BY <2>1, <2>4, <2>6, <2>7 DEF P
<1>9. N \in 0 .. N
  BY <1>5
<1> HIDE DEF P
<1>10. \A n \in 0 .. N : f[n] \in P[n]
  BY <1>5, <1>7, <1>8, LoopKeeps
<1>11. Kept(z2, live) /\ QueuesOK(z2)
  BY <1>6, <1>9, <1>10 DEF P
<1> QED BY <1>1, <1>11, ReschedKept

(* rt_thread_mdelay                                                         *)
LEMMA SleepKept ==
  ASSUME InheritInv, Sleep
  PROVE  Kept(s', live')
<1> DEFINE k1 == SuspendThread(s.k, self)
           z == [s EXCEPT !.k = k1]
<1>1. pc[self] = "run" /\ s' = Resched(z) /\ live' = live
  BY DEF Sleep, Calls
<1>2. /\ self \in Thread /\ s \in State /\ QueuesOK(s) /\ Kept(s, live)
      /\ KernelOK(s.k) /\ Runnable(s.k, self) /\ s.pending[self] = None /\ None \notin Mutex
  <2>1. self \in Thread => (s.pending[self] # None => pc[self] # "run")
    BY Facts DEF Calling, InheritInv
  <2> QED BY <1>1, <2>1, Facts, MutexAssumption DEF QueuesOK, Runnable, InheritInv
<1>3. /\ k1 \in KState /\ KernelOK(k1) /\ k1.cprio = s.k.cprio
      /\ \A u \in Thread : IsSuspended(k1, u) <=> IsSuspended(s.k, u) \/ u = self
  <2> HIDE DEF z
  <2> QED BY <1>2, SuspendTyped
<1> HIDE DEF k1
<1>4. /\ z \in State /\ z.k = k1 /\ z.queue = s.queue /\ z.owner = s.owner /\ z.prio = s.prio
      /\ z.taken = s.taken /\ z.pending = s.pending
  BY <1>2, <1>3 DEF State
<1> HIDE DEF z
<1>5. QueuesOK(z)
  <2>1. ASSUME NEW l \in Mutex, NEW u \in Thread
        PROVE  u \in ToSet(s.queue[l]) <=> IsSuspended(k1, u) /\ s.pending[u] = l
    <3>1. u \in ToSet(s.queue[l]) <=> IsSuspended(s.k, u) /\ s.pending[u] = l
      BY <1>2 DEF QueuesOK
    <3> QED BY <1>2, <1>3, <3>1
  <2> QED BY <1>2, <1>3, <1>4, <2>1 DEF QueuesOK
<1>6. Kept(z, live)
  BY <1>2, <1>3, <1>4, LeaveKept
<1> QED BY <1>1, <1>5, <1>6, ReschedKept

(* A thread woken from outside leaves the list it waits in.                 *)
LEMMA WakeKept ==
  ASSUME InheritInv, NEW t \in Thread
  PROVE  Kept(Resched(Ready(s, t)), live)
<1> DEFINE z == Ready(s, t)
<1>1. QueuesOK(s) /\ Kept(s, live)
  BY Facts DEF InheritInv
<1>2. Wakes(s, z, t)
  BY <1>1, WakeKeeps
<1> HIDE DEF z
<1>3. /\ QueuesOK(z) /\ z.k.cprio = s.k.cprio /\ z.prio = s.prio /\ z.taken = s.taken
      /\ z.pending = s.pending /\ \A m \in Mutex : z.queue[m] = RemoveFirst(s.queue[m], t)
  BY <1>2 DEF Wakes
<1>4. Kept(z, live)
  BY <1>1, <1>3, LeaveKept
<1> QED BY <1>3, <1>4, ReschedKept DEF z

(* rt_thread_resume and _thread_timeout.                                    *)
LEMMA ResumeKept ==
  ASSUME InheritInv, NEW t \in Thread, Resume(t) \/ Timeout(t)
  PROVE  Kept(s', live')
<1>1. CASE Resume(t)
  <2>1. s' = Resched(Ready(s, t)) /\ live' = live
    BY <1>1 DEF Resume
  <2> QED BY <2>1, WakeKept
<1>2. CASE Timeout(t)
  <2>1. armed[t] /\ s' = Resched([Dequeue(s, t) EXCEPT !.k = InsertThread(@, t)]) /\ live' = live
    BY <1>2 DEF Timeout
  <2>2. IsSuspended(s.k, t) /\ s \in State
    BY <2>1, Facts DEF InheritInv
  <2>3. Dequeue(s, t).k = s.k
    BY <2>2 DEF Dequeue, State
  <2>4. Ready(s, t) = [Dequeue(s, t) EXCEPT !.k = InsertThread(@, t)]
    BY <2>2, <2>3 DEF Ready, ReadyThread
  <2> QED BY <2>1, <2>4, WakeKept
<1> QED BY <1>1, <1>2

-----------------------------------------------------------------------------
(* The theorem. *)

(* In the beginning nobody waits.                                           *)
LEMMA InitInherit == Init => InheritInv
<1> SUFFICES ASSUME Init PROVE InheritInv
  OBVIOUS
<1>1. /\ s.queue = [m \in Mutex |-> <<>>] /\ s.taken = [t \in Thread |-> <<>>]
      /\ s.pending = [t \in Thread |-> None]
  BY DEF Init
<1>2. ToSet(<<>>) = {} /\ DOMAIN <<>> = {}
  BY DEF ToSet
<1>3. Climbing(s)
  BY <1>1 DEF Climbing
<1>4. Boosted(s)
  <2>1. \A m \in Mutex : ToSet(s.queue[m]) = {} /\ DOMAIN s.queue[m] = {}
    BY <1>1, <1>2
  <2>2. \A u \in Thread : ToSet(s.taken[u]) = {}
    BY <1>1, <1>2
  <2> QED BY <2>1, <2>2 DEF Boosted, Loose, Ordered, SortedBut, Recorded, Passed
<1> QED BY <1>3, <1>4, InitSettles DEF InheritInv, Kept

(* Every step keeps it.                                                     *)
LEMMA NextInherits == StrictRank /\ InheritInv /\ [Next]_vars => InheritInv'
<1> SUFFICES ASSUME StrictRank, InheritInv, [Next]_vars PROVE InheritInv'
  OBVIOUS
<1>1. MutexInv'
  BY NextSettles DEF InheritInv
<1>2. Kept(s', live')
  <2>1. CASE UNCHANGED vars
    BY <2>1 DEF InheritInv, vars
  <2>2. ASSUME NEW m \in Mutex, TakeAgain(m) \/ TakeFree(m) \/ Release(m) \/ Detach(m)
        PROVE  Kept(s', live')
    BY <2>2, TakeAgainKept, TakeFreeKept, ReleaseKept, DetachKept
  <2>3. ASSUME NEW m \in Mutex, NEW w \in Waits, TakeBusy(m, w) PROVE Kept(s', live')
    BY <2>3, TakeBusyKept
  <2>4. ASSUME NEW m \in Mutex, NEW c \in Ceilings, SetCeiling(m, c) PROVE Kept(s', live')
    BY <2>4, SetCeilingKept
  <2>5. CASE TakeSchedule \/ TakeReturn \/ Exit \/ Sleep
    BY <2>5, TakeScheduleKept, TakeReturnKept, ExitKept, SleepKept
  <2>6. ASSUME NEW t \in Thread, Delete(t) \/ Resume(t) \/ Timeout(t) PROVE Kept(s', live')
    BY <2>6, DeleteKept, ResumeKept
  <2> QED BY <2>1, <2>2, <2>3, <2>4, <2>5, <2>6 DEF Next
<1> QED BY <1>1, <1>2 DEF InheritInv, Kept

(* An owner is as urgent as what its mutexes have recorded, and that is as  *)
(* urgent as every waiter.                                                  *)
LEMMA InheritChecks == InheritInv => NoInversion
<1> SUFFICES ASSUME InheritInv, live = Mutex, NEW m \in Mutex, NEW w \in Waiters(m)
             PROVE  s.k.cprio[s.owner[m]] <= s.k.cprio[w]
  BY DEF NoInversion
<1> DEFINE o == s.owner[m]
<1>1. s \in State /\ QueuesOK(s) /\ Owned(s, live) /\ Boosted(s)
  BY Facts DEF InheritInv, Kept
<1>2. s.queue[m] \in Seq(Thread) /\ w \in ToSet(s.queue[m]) /\ ToSet(s.queue[m]) \subseteq Thread
  BY <1>1, StateFields, EmptyList DEF Waiters
<1>3. s.queue[m] # <<>>
  BY <1>2, EmptyList
<1>4. o \in Thread /\ o # None /\ w \in Thread /\ w # None
  BY <1>1, <1>2, <1>3, StateFields, MutexAssumption DEF QueuesOK
<1>5. m \in ToSet(s.taken[o])
  BY <1>1, <1>4 DEF Owned
<1>6. s.k.cprio[o] <= s.prio[m] /\ s.prio[m] <= s.k.cprio[w]
  BY <1>1, <1>2, <1>4, <1>5 DEF Boosted, Loose, Passed, Recorded
<1>7. s.k.cprio[o] \in Nat /\ s.prio[m] \in Nat /\ s.k.cprio[w] \in Nat
  <2>1. s.k.cprio[o] \in Prio /\ s.prio[m] \in Prio \cup {NoPrio} /\ s.k.cprio[w] \in Prio
    BY <1>1, <1>4, StateFields
  <2> QED BY <2>1, RecordedNat
<1> QED BY <1>6, <1>7

(* Without detached mutexes, and if the program takes its mutexes in a      *)
(* strict order, inheritance leaves no owner less urgent than a thread that *)
(* waits for one of its mutexes: _thread_update_priority carries a change   *)
(* through every chain of owners that wait themselves.                      *)
THEOREM NeverInverted == ASSUME StrictRank PROVE Spec => []NoInversion
<1>1. Init => InheritInv
  BY InitInherit
<1>2. InheritInv /\ [Next]_vars => InheritInv'
  BY NextInherits
<1>3. InheritInv => NoInversion
  BY InheritChecks
<1> QED BY <1>1, <1>2, <1>3, PTL DEF Spec

-----------------------------------------------------------------------------
(* The thread on the CPU. *)

(* No thread is less urgent than it was created.                            *)
Bounded(z) == \A t \in Thread : z.k.cprio[t] <= z.k.iprio[t]

(* Nor after a change to a priority at least as urgent as that.             *)
LEMMA SetThreadBounded ==
  ASSUME NEW z, QueuesOK(z), Bounded(z), NEW t \in Thread, NEW p \in Prio, p <= z.k.iprio[t]
  PROVE  Bounded(SetThread(z, t, p))
<1> DEFINE r == SetThread(z, t, p)
<1>1. r.k.cprio = [z.k.cprio EXCEPT ![t] = p] /\ r.k.iprio = z.k.iprio
  BY SetThreadAdjusts DEF Adjusted
<1>2. z.k.cprio \in [Thread -> Prio]
  BY StateFields DEF QueuesOK
<1> HIDE DEF r
<1> QED BY <1>1, <1>2 DEF Bounded, r

(* In no turn of _thread_update_priority.                                   *)
LEMMA PropagateBounded ==
  ASSUME NEW l \in Turn, QueuesOK(l.z), Bounded(l.z)
  PROVE  Bounded(Propagate(l).z)
<1> DEFINE m  == l.z.pending[l.t]
           o  == l.z.owner[m]
           z0 == Enqueue(Dequeue(l.z, l.t), m, l.t)
           z1 == UpdateMutex(z0, m)
           p  == MutexPriority(z1, o)
           z2 == SetThread(z1, o, p)
<1>1. CASE l.changed /\ IsSuspended(l.z.k, l.t) /\ l.z.pending[l.t] # None
  <2>1. l.t \in Thread /\ m \in Mutex /\ l.t \in ToSet(l.z.queue[m]) /\ o \in Thread
    BY <1>1, OwnerOfPending DEF Turn
  <2>2. Propagate(l) = IF p # z1.k.cprio[o]
                       THEN [z |-> z2, t |-> o, changed |-> TRUE]
                       ELSE [z |-> z1, t |-> o, changed |-> FALSE]
    BY <1>1 DEF Propagate
  <2> HIDE DEF m, o
  <2>3. QueuesOK(z0) /\ z0.k = l.z.k
    BY <2>1, ResortAdjusts DEF Adjusted
  <2> HIDE DEF z0
  <2>4. QueuesOK(z1) /\ z1 \in State /\ z1.k = z0.k
    BY <2>1, <2>3, UpdateMutexAdjusts DEF Adjusted, QueuesOK
  <2> HIDE DEF z1
  <2>5. Bounded(z1)
    BY <2>3, <2>4 DEF Bounded
  <2>6. p \in Prio /\ p <= z1.k.iprio[o]
    BY <2>1, <2>4, MutexPriorityLeast
  <2> HIDE DEF p
  <2>7. Bounded(z2)
    BY <2>1, <2>4, <2>5, <2>6, SetThreadBounded
  <2> QED BY <2>2, <2>5, <2>7
<1>2. CASE ~ (l.changed /\ IsSuspended(l.z.k, l.t) /\ l.z.pending[l.t] # None)
  <2>1. Propagate(l) = [l EXCEPT !.changed = FALSE]
    BY <1>2 DEF Propagate
  <2>2. Propagate(l).z = l.z
    BY <2>1 DEF Turn
  <2> QED BY <2>2
<1> QED BY <1>1, <1>2

(* Nor in the whole loop.                                                   *)
LEMMA UpdatePriorityBounded ==
  ASSUME NEW z, QueuesOK(z), Bounded(z), NEW t \in Thread, NEW p \in Prio, p <= z.k.iprio[t]
  PROVE  Bounded(UpdatePriority(z, t, p))
<1> DEFINE N == Cardinality(Mutex)
           P == [n \in 0 .. N |-> {l \in Turn : Bounded(l.z)}]
<1>1. N \in Nat /\ N \in 0 .. N
  BY MutexAssumption, FS_CardinalityType
<1>2. PICK f :
        /\ f[0] = [z |-> SetThread(z, t, p), t |-> t, changed |-> TRUE]
        /\ \A n \in 1 .. N : f[n] = Propagate(f[n - 1])
        /\ \A n \in 0 .. N : f[n] \in Turn /\ QueuesOK(f[n].z) /\ Adjusted(z, f[n].z)
        /\ UpdatePriority(z, t, p) = f[N].z
  BY UpdatePriorityTurns
<1> HIDE DEF N
<1>3. f[0] \in P[0]
  <2>1. f[0].z = SetThread(z, t, p) /\ 0 \in 0 .. N
    BY <1>1, <1>2
  <2>2. Bounded(f[0].z)
    BY <2>1, SetThreadBounded
  <2> QED BY <1>2, <2>1, <2>2
<1>4. ASSUME NEW n \in 1 .. N, f[n - 1] \in P[n - 1] PROVE f[n] \in P[n]
  <2>1. n \in 0 .. N /\ n - 1 \in 0 .. N
    BY <1>1
  <2>2. f[n - 1] \in Turn /\ Bounded(f[n - 1].z) /\ QueuesOK(f[n - 1].z)
    BY <1>2, <1>4, <2>1
  <2>3. Bounded(f[n].z)
    BY <1>2, <2>2, PropagateBounded
  <2> QED BY <1>2, <2>1, <2>3
<1> HIDE DEF P
<1>5. \A n \in 0 .. N : f[n] \in P[n]
  BY <1>1, <1>3, <1>4, LoopKeeps
<1> QED BY <1>1, <1>2, <1>5 DEF P

(* In none of its calls, and none of the others.                            *)
LEMMA RefreshBounded ==
  ASSUME NEW z, QueuesOK(z), Bounded(z), NEW t \in Thread, NEW m \in Mutex
  PROVE  Bounded(Refresh(z, t)) /\ Bounded(Restore(z, t, m))
<1>1. MutexPriority(z, t) \in Prio /\ MutexPriority(z, t) <= z.k.iprio[t]
  BY MutexPriorityLeast DEF QueuesOK
<1> QED BY <1>1, UpdatePriorityBounded, SetThreadBounded DEF Refresh, Restore

(* The end of a wait that failed.                                           *)
LEMMA LeaveWaitersBounded ==
  ASSUME NEW z, QueuesOK(z), Bounded(z), NEW t \in Thread, NEW m \in Mutex
  PROVE  Bounded(LeaveWaiters(z, t, m))
<1> DEFINE z1 == UpdateMutex(z, m)
           o == z.owner[m]
<1>1. QueuesOK(z1) /\ z1.k = z.k
  BY UpdateMutexAdjusts DEF Adjusted
<1>2. o # None => o \in Thread
  BY StateFields DEF QueuesOK
<1> HIDE DEF z1
<1>3. Bounded(z1)
  BY <1>1 DEF Bounded
<1>4. o # None => Bounded(Refresh(z1, o))
  BY <1>1, <1>2, <1>3, RefreshBounded
<1> QED BY <1>3, <1>4 DEF LeaveWaiters, z1

(* The boost of an owner, who gets more urgent still.                       *)
LEMMA InheritBounded ==
  ASSUME NEW z, QueuesOK(z), Bounded(z), NEW t \in Thread, NEW m \in Mutex, z.owner[m] # None
  PROVE  Bounded(Inherit(z, t, m))
<1> DEFINE p == z.k.cprio[t]
           z1 == [z EXCEPT !.prio[m] = p]
           o == z.owner[m]
<1>1. z \in State /\ p \in Prio /\ o \in Thread /\ z.k.cprio[o] \in Prio /\ z.k.iprio[o] \in Prio
  BY StateFields DEF QueuesOK
<1>2. z1 \in State
  <2>1. [z.prio EXCEPT ![m] = p] \in [Mutex -> Prio \cup {NoPrio}]
    BY <1>1, StateFields
  <2> HIDE DEF p
  <2>2. z1 = [z EXCEPT !.prio = [z.prio EXCEPT ![m] = p]]
    OBVIOUS
  <2> HIDE DEF z1
  <2> QED BY <1>1, <2>1, <2>2 DEF State
<1>3. z1.k = z.k /\ z1.queue = z.queue /\ z1.owner = z.owner /\ z1.pending = z.pending
  BY <1>1 DEF State
<1>4. \/ Inherit(z, t, m) \in {z, z1}
      \/ p < z.k.cprio[o] /\ Inherit(z, t, m) = UpdatePriority(z1, o, p)
  BY DEF Inherit
<1> HIDE DEF z1
<1>5. QueuesOK(z1) /\ Bounded(z1)
  BY <1>2, <1>3 DEF QueuesOK, Bounded
<1>6. p < z.k.cprio[o] => p <= z1.k.iprio[o]
  <2>1. p \in Nat /\ z.k.cprio[o] \in Nat /\ z.k.iprio[o] \in Nat /\ z.k.cprio[o] <= z.k.iprio[o]
    BY <1>1, PrioNat DEF Bounded
  <2> HIDE DEF p, o
  <2> QED BY <1>3, <2>1
<1> HIDE DEF p, o
<1> QED BY <1>1, <1>4, <1>5, <1>6, UpdatePriorityBounded

(* What that release leaves alone before it hands over.                     *)
LEMMA UnheldFrame ==
  ASSUME NEW z, QueuesOK(z), NEW m \in Mutex, NEW t \in Thread, IsInjective(z.taken[t])
  PROVE  LET r == Unheld(z, t, m)
         IN  /\ QueuesOK(r) /\ r.k = z.k /\ r.owner = z.owner /\ r.queue = z.queue
             /\ r.pending = z.pending
<1>1. LET x == Unheld(z, t, m)
      IN  /\ QueuesOK(x)
          /\ x.k = z.k /\ x.queue = z.queue /\ x.owner = z.owner /\ x.prio = z.prio
          /\ x.ceil = z.ceil /\ x.pending = z.pending
          /\ x.hold = [z.hold EXCEPT ![m] = 0]
          /\ x.taken = [z.taken EXCEPT ![t] = RemoveFirst(z.taken[t], m)]
  BY UnheldKeeps
<1> QED BY <1>1

(* A release lets the owner fall to no less than that.                      *)
LEMMA ReleaseBounded ==
  ASSUME NEW z, QueuesOK(z), Bounded(z), NEW m \in Mutex, NEW t \in Thread,
         IsInjective(z.taken[t])
  PROVE  Bounded(ReleaseLast(z, t, m))
<1> DEFINE z1 == Unheld(z, t, m)
           z2 == Restore(z1, t, m)
           r == HandOver(z2, m)
<1>1. r = ReleaseLast(z, t, m)
  BY DEF ReleaseLast, Unheld
<1>2. QueuesOK(z1) /\ z1.k = z.k
  BY UnheldFrame
<1> HIDE DEF z1
<1>3. QueuesOK(z2) /\ Bounded(z2)
  <2>1. Bounded(z1)
    BY <1>2 DEF Bounded
  <2> QED BY <1>2, <2>1, RestoreAdjusts, RefreshBounded DEF Adjusted
<1> HIDE DEF z2
<1>4. r.k.cprio = z2.k.cprio /\ r.k.iprio = z2.k.iprio
  <2>1. CASE z2.queue[m] = <<>>
    <3>1. LeftFree(z2, r, m)
      BY <1>3, <2>1, HandOverNobody
    <3> HIDE DEF r
    <3> QED BY <3>1 DEF LeftFree
  <2>2. CASE z2.queue[m] # <<>>
    <3>1. PICK n : n = Head(z2.queue[m])
      OBVIOUS
    <3>2. Handed(z2, r, m, n)
      BY <1>3, <2>2, <3>1, HandOverFirst
    <3> HIDE DEF r
    <3> QED BY <3>2 DEF Handed
  <2> QED BY <2>1, <2>2
<1> QED BY <1>1, <1>3, <1>4 DEF Bounded

(* A thread that came to wait for a mutex and has not got it has it on      *)
(* record, even after its wait has failed.                                  *)
Recalled(z, p, a) ==
  \A t \in Thread :
    z.k.stat[t] # "CLOSE" /\ p[t] # "run" /\ z.owner[a[t]] # t => z.pending[t] = a[t]

(* The record outlives a change of the owner's priority.                    *)
LEMMA RecalledKeeps ==
  ASSUME NEW z, NEW r, NEW p, NEW a, Recalled(z, p, a), SameClosed(z.k, r.k),
         r.owner = z.owner, r.pending = z.pending
  PROVE  Recalled(r, p, a)
  BY DEF Recalled, SameClosed

(* A release tells the new owner.                                           *)
LEMMA ReleaseRecalled ==
  ASSUME NEW z, QueuesOK(z), NEW m \in Mutex, NEW t \in Thread, z.owner[m] = t,
         NEW l, m \in l, Owned(z, l), NEW p, NEW a, NEW e, Calling(z, p, a, e),
         p[t] = "run", Recalled(z, p, a)
  PROVE  Recalled(ReleaseLast(z, t, m), p, a)
<1> DEFINE z1 == Unheld(z, t, m)
           z2 == Restore(z1, t, m)
           r == HandOver(z2, m)
<1>1. r = ReleaseLast(z, t, m)
  BY DEF ReleaseLast, Unheld
<1>2. QueuesOK(z1) /\ z1.k = z.k /\ z1.owner = z.owner /\ z1.pending = z.pending
      /\ z1.queue = z.queue
  <2>1. IsInjective(z.taken[t])
    BY DEF Owned
  <2> HIDE DEF z2, r
  <2> QED BY <2>1, UnheldFrame
<1> HIDE DEF z1
<1>3. /\ QueuesOK(z2) /\ z2.k.stat = z.k.stat /\ z2.owner = z.owner /\ z2.pending = z.pending
      /\ z2.queue = z.queue
  BY <1>2, RestoreAdjusts DEF Adjusted
<1> HIDE DEF z2
<1>4. z.owner \in [Mutex -> Thread \cup {None}] /\ z.pending \in [Thread -> Mutex \cup {None}]
  BY StateFields DEF QueuesOK
<1> SUFFICES ASSUME NEW u \in Thread, r.k.stat[u] # "CLOSE", p[u] # "run", r.owner[a[u]] # u
             PROVE  r.pending[u] = a[u]
  BY <1>1 DEF Recalled
<1>5. CASE z2.queue[m] = <<>>
  <2>1. LeftFree(z2, r, m)
    BY <1>3, <1>5, HandOverNobody
  <2> HIDE DEF r
  <2>2. z.k.stat[u] # "CLOSE" /\ r.pending[u] = z.pending[u] /\ r.owner = [z.owner EXCEPT ![m] = None]
    BY <1>3, <2>1 DEF LeftFree
  <2>3. z.owner[a[u]] # u
    BY <1>4, <2>2
  <2> QED BY <2>2, <2>3 DEF Recalled
<1>6. CASE z2.queue[m] # <<>>
  <2>1. PICK n : n = Head(z2.queue[m])
    OBVIOUS
  <2>2. Handed(z2, r, m, n)
    BY <1>3, <1>6, <2>1, HandOverFirst
  <2> HIDE DEF r
  <2>3. /\ n \in Thread /\ n \in ToSet(z.queue[m]) /\ SameClosed(z2.k, r.k)
        /\ r.owner = [z.owner EXCEPT ![m] = n] /\ r.pending = [z.pending EXCEPT ![n] = None]
    BY <1>3, <2>2 DEF Handed
  <2>4. z.pending[n] = m /\ m # None
    BY <2>3, MutexAssumption DEF QueuesOK
  <2>5. a[n] = m
    BY <2>3, <2>4 DEF Calling
  <2>6. u # n
    BY <1>4, <2>3, <2>5
  <2>7. z.owner[a[u]] # u
    BY <1>4, <2>3
  <2>8. z.k.stat[u] # "CLOSE"
    BY <1>3, <2>3 DEF SameClosed
  <2> QED BY <1>4, <2>3, <2>6, <2>7, <2>8 DEF Recalled
<1> QED BY <1>5, <1>6

(* And so does an exit.                                                     *)
LEMMA ReleaseAllKept ==
  ASSUME NEW z, QueuesOK(z), NEW t \in Thread,
         NEW l, Owned(z, l), NEW p, NEW a, NEW e, Calling(z, p, a, e), p[t] = "run",
         Bounded(z), Recalled(z, p, a)
  PROVE  LET r == ReleaseAll(z, t) IN QueuesOK(r) /\ Bounded(r) /\ Recalled(r, p, a)
<1> DEFINE q == z.taken[t]
           N == Len(q)
           P == [n \in 0 .. N |-> {x \in State : Bounded(x) /\ Recalled(x, p, a)}]
<1>1. q \in Seq(Mutex) /\ N \in Nat /\ N \in 0 .. N /\ \A n \in 1 .. N : q[n] \in Mutex
  <2>1. q \in Seq(Mutex)
    BY StateFields DEF QueuesOK
  <2> QED BY <2>1
<1>2. PICK f :
        /\ f[0] = z
        /\ \A n \in 1 .. N : f[n] = ReleaseLast(f[n - 1], t, q[n])
        /\ \A n \in 0 .. N : /\ QueuesOK(f[n]) /\ Owned(f[n], l) /\ Calling(f[n], p, a, e)
                             /\ ToSet(f[n].taken[t]) = {q[i] : i \in n + 1 .. N}
        /\ ReleaseAll(z, t) = f[N]
  <2>1. ReleaseTurns(z, t, l, p, a, e)
    BY ReleaseAllTurns
  <2> QED BY <2>1 DEF ReleaseTurns
<1> HIDE DEF q, N
<1>3. f[0] \in P[0]
  BY <1>1, <1>2 DEF QueuesOK
<1>4. ASSUME NEW n \in 1 .. N, f[n - 1] \in P[n - 1] PROVE f[n] \in P[n]
  <2> DEFINE x == f[n - 1]
             m == q[n]
  <2>1. n \in 0 .. N /\ n - 1 \in 0 .. N /\ n \in (n - 1) + 1 .. N /\ m \in Mutex
    BY <1>1
  <2>2. Bounded(x) /\ Recalled(x, p, a)
    BY <1>4, <2>1
  <2>3. /\ QueuesOK(x) /\ Owned(x, l) /\ Calling(x, p, a, e) /\ m \in ToSet(x.taken[t])
        /\ f[n] = ReleaseLast(x, t, m) /\ f[n] \in State
    <3>1. ToSet(x.taken[t]) = {q[i] : i \in (n - 1) + 1 .. N}
      BY <1>2, <2>1
    <3> QED BY <1>2, <2>1, <3>1 DEF QueuesOK
  <2> HIDE DEF x, m
  <2>4. x.owner[m] = t /\ m \in l /\ IsInjective(x.taken[t])
    BY <2>1, <2>3 DEF Owned
  <2>5. Bounded(f[n]) /\ Recalled(f[n], p, a)
    BY <2>1, <2>2, <2>3, <2>4, ReleaseBounded, ReleaseRecalled
  <2> QED BY <2>1, <2>3, <2>5
<1>5. f[N] \in P[N]
  <2> HIDE DEF P
  <2>1. \A n \in 0 .. N : f[n] \in P[n]
    BY <1>1, <1>3, <1>4, LoopKeeps
  <2> QED BY <1>1, <2>1
<1> QED BY <1>1, <1>2, <1>5

(* What the calls keep up beside the invariant.                             *)
Memory(z, p, a) == Bounded(z) /\ Recalled(z, p, a)

(* A change of the scheduler's records and of the CPU alone.                *)
LEMMA ReschedMemory ==
  ASSUME NEW z, QueuesOK(z), NEW p, NEW a, Memory(z, p, a)
  PROVE  Resched(z).owner = z.owner /\ Memory(Resched(z), p, a)
<1> DEFINE r == Resched(z)
<1>1. /\ r = [z EXCEPT !.k = r.k] /\ SameClosed(z.k, r.k)
      /\ r.k.cprio = z.k.cprio /\ r.k.iprio = z.k.iprio
  BY ReschedKeeps
<1> HIDE DEF r
<1>2. r.owner = z.owner /\ r.pending = z.pending
  BY <1>1 DEF QueuesOK, State
<1> QED BY <1>1, <1>2, RecalledKeeps DEF Memory, Bounded, r

(* No call but a take of a free mutex, a release and an exit gives a mutex  *)
(* another owner; the one that comes to wait has preemption disabled.       *)
LEMMA TakeBusyRemembers ==
  ASSUME MutexInv, Memory(s, pc, arg), NEW m \in Mutex, NEW w \in Waits, TakeBusy(m, w)
  PROVE  s'.owner = s.owner /\ Memory(s', pc', arg') /\ s'.k.nest = 1
<1> DEFINE t  == self
           k1 == SuspendThread(s.k, t)
           z1 == Joined(m)
           z2 == Inherit(z1, t, m)
<1>1. /\ s' = [z2 EXCEPT !.k.nest = 1] /\ QueuesOK(z1) /\ z1.owner = s.owner /\ z1.k = k1
      /\ z1.pending = [s.pending EXCEPT ![t] = m] /\ SameClosed(s.k, k1)
      /\ s.k.stat[t] = "RUNNING"
  BY JoinKeeps
<1>2. /\ t \in Thread /\ z1.owner[m] # None /\ s.pending \in [Thread -> Mutex \cup {None}]
      /\ pc \in [Thread -> Pc] /\ arg \in [Thread -> Mutex \cup {None}]
      /\ pc' = [pc EXCEPT ![t] = "block"] /\ arg' = [arg EXCEPT ![t] = m]
  BY <1>1, Facts, StateFields DEF TakeBusy
<1>3. k1.cprio = s.k.cprio /\ k1.iprio = s.k.iprio
  <2>1. s \in State /\ KernelOK(s.k) /\ Runnable(s.k, t)
    BY <1>1, Facts DEF Runnable, QueuesOK
  <2> HIDE DEF z1, z2
  <2> QED BY <1>2, <2>1, SuspendTyped
<1> HIDE DEF k1, z1, t
<1>4. Bounded(z1)
  BY <1>1, <1>3 DEF Memory, Bounded
<1>5. Adjusted(z1, z2) /\ Bounded(z2)
  BY <1>1, <1>2, <1>4, InheritAdjusts, InheritBounded
<1> HIDE DEF z2
<1>6. /\ z2 \in State /\ z2.owner = s.owner /\ z2.pending = z1.pending /\ z2.k.stat = k1.stat
      /\ z2.k \in KState
  BY <1>1, <1>5, StateFields DEF Adjusted, QueuesOK
<1> DEFINE r == s'
<1>7. /\ r.owner = s.owner /\ r.pending = z1.pending /\ r.k.stat = k1.stat
      /\ r.k.cprio = z2.k.cprio /\ r.k.iprio = z2.k.iprio /\ r.k.nest = 1
  BY <1>1, <1>6 DEF State, KState
<1>8. Bounded(r)
  BY <1>5, <1>7 DEF Bounded
<1>9. Recalled(r, pc', arg')
  <2> SUFFICES ASSUME NEW u \in Thread, r.k.stat[u] # "CLOSE", pc'[u] # "run",
                      r.owner[arg'[u]] # u
               PROVE  r.pending[u] = arg'[u]
    BY DEF Recalled
  <2>1. CASE u = t
    BY <1>1, <1>2, <1>7, <2>1
  <2>2. CASE u # t
    <3>1. s.k.stat[u] # "CLOSE" /\ pc[u] # "run" /\ s.owner[arg[u]] # u
      BY <1>1, <1>2, <1>7, <2>2 DEF SameClosed
    <3>2. s.pending[u] = arg[u]
      BY <3>1 DEF Memory, Recalled
    <3> QED BY <1>1, <1>2, <1>7, <2>2, <3>2
  <2> QED BY <2>1, <2>2
<1> QED BY <1>7, <1>8, <1>9 DEF Memory

(* A thread that goes to sleep waits for no mutex.                          *)
LEMMA SleepSuspends ==
  ASSUME MutexInv, Sleep
  PROVE  LET z == [s EXCEPT !.k = SuspendThread(s.k, self)]
         IN  /\ s' = Resched(z) /\ QueuesOK(z) /\ z.owner = s.owner /\ z.pending = s.pending
             /\ z.k.cprio = s.k.cprio /\ z.k.iprio = s.k.iprio /\ SameClosed(s.k, z.k)
<1> DEFINE k1 == SuspendThread(s.k, self)
           z == [s EXCEPT !.k = k1]
<1>1. s' = Resched(z)
  BY DEF Sleep
<1>2. /\ QueuesOK(s) /\ s \in State /\ self \in Thread /\ KernelOK(s.k) /\ Runnable(s.k, self)
      /\ s.pending[self] = None /\ None \notin Mutex
  <2>1. pc[self] = "run" /\ (s.pending[self] # None => pc[self] # "run")
    BY Facts DEF Sleep, Calls, Calling
  <2> QED BY <2>1, Facts, MutexAssumption DEF QueuesOK, Runnable
<1>3. /\ k1 \in KState /\ KernelOK(k1) /\ k1.cprio = s.k.cprio /\ k1.iprio = s.k.iprio
      /\ SameClosed(s.k, k1)
      /\ \A u \in Thread : IsSuspended(k1, u) <=> IsSuspended(s.k, u) \/ u = self
  <2> HIDE DEF z
  <2> QED BY <1>2, SuspendTyped
<1> HIDE DEF k1
<1>4. /\ z \in State /\ z.k = k1 /\ z.owner = s.owner /\ z.pending = s.pending
      /\ z.queue = s.queue
  BY <1>2, <1>3 DEF State
<1> HIDE DEF z
<1>5. QueuesOK(z)
  <2>1. ASSUME NEW l \in Mutex, NEW u \in Thread
        PROVE  u \in ToSet(s.queue[l]) <=> IsSuspended(k1, u) /\ s.pending[u] = l
    <3>1. u \in ToSet(s.queue[l]) <=> IsSuspended(s.k, u) /\ s.pending[u] = l
      BY <1>2 DEF QueuesOK
    <3> QED BY <1>2, <1>3, <3>1
  <2> QED BY <1>2, <1>3, <1>4, <2>1 DEF QueuesOK
<1> QED BY <1>1, <1>3, <1>4, <1>5 DEF z, k1

(* Another take of an owned mutex; the steps of a wait.                     *)
LEMMA WaitRemembers ==
  ASSUME MutexInv, Memory(s, pc, arg),
         (\E m \in Mutex : TakeAgain(m)) \/ TakeSchedule \/ TakeReturn \/ Sleep
  PROVE  s'.owner = s.owner /\ Memory(s', pc', arg')
<1>1. /\ QueuesOK(s) /\ s \in State /\ self \in Thread /\ s.pending \in [Thread -> Mutex \cup {None}]
      /\ pc \in [Thread -> Pc] /\ arg \in [Thread -> Mutex \cup {None}]
  BY Facts, StateFields
<1>2. ASSUME NEW m \in Mutex, TakeAgain(m) PROVE s'.owner = s.owner /\ Memory(s', pc', arg')
  <2>1. /\ s'.owner = s.owner /\ s'.k = s.k /\ s'.pending = s.pending /\ pc' = pc /\ arg' = arg
    BY <1>1, <1>2 DEF TakeAgain, State
  <2> QED BY <2>1 DEF Memory, Bounded, Recalled
<1>3. CASE TakeSchedule
  <2> DEFINE z == [s EXCEPT !.k.nest = 0, !.k.flag = FALSE]
  <2>1. s' = Resched(z) /\ pc' = [pc EXCEPT ![self] = "wait"] /\ arg' = arg /\ pc[self] = "block"
    BY <1>3 DEF TakeSchedule
  <2>2. \A u \in Thread : pc'[u] # "run" => pc[u] # "run"
    BY <1>1, <2>1
  <2>3. /\ QueuesOK(z) /\ z.k.cprio = s.k.cprio /\ z.k.iprio = s.k.iprio
        /\ z.k.stat = s.k.stat /\ z.owner = s.owner /\ z.pending = s.pending
    <3>1. 0 \in Nat /\ FALSE \in BOOLEAN
      OBVIOUS
    <3> QED BY <1>1, <3>1, ZenonT(40), NestKeeps
  <2> HIDE DEF z
  <2>4. Memory(z, pc', arg')
    BY <2>1, <2>2, <2>3 DEF Memory, Bounded, Recalled
  <2> QED BY <2>1, <2>3, <2>4, ReschedMemory
<1>4. CASE TakeReturn
  <2> DEFINE y == LeaveWaiters(s, self, arg[self])
             r == [y EXCEPT !.pending[self] = None]
  <2>1. s' \in {s, r} /\ pc' = [pc EXCEPT ![self] = "run"] /\ arg' = [arg EXCEPT ![self] = None]
    BY <1>4 DEF TakeReturn
  <2>2. arg[self] \in Mutex
    BY <1>1, <1>4, Facts DEF TakeReturn
  <2>3. Adjusted(s, y) /\ Bounded(y)
    BY <1>1, <2>2, LeaveWaitersAdjusts, LeaveWaitersBounded DEF Memory
  <2> HIDE DEF y
  <2>4. y \in State /\ y.owner = s.owner /\ y.pending = s.pending /\ y.k.stat = s.k.stat
    BY <2>3 DEF Adjusted, QueuesOK
  <2>5. /\ r.owner = s.owner /\ r.k = y.k /\ \A u \in Thread \ {self} : r.pending[u] = s.pending[u]
    BY <1>1, <2>4 DEF State
  <2> HIDE DEF r
  <2>6. \A u \in Thread : pc'[u] # "run" => u # self /\ pc[u] # "run" /\ arg'[u] = arg[u]
    BY <1>1, <2>1
  <2>7. Memory(s, pc', arg')
    BY <2>6 DEF Memory, Recalled
  <2>8. Memory(r, pc', arg')
    BY <2>3, <2>4, <2>5, <2>6 DEF Memory, Recalled, Bounded
  <2> QED BY <2>1, <2>5, <2>7, <2>8
<1>5. CASE Sleep
  <2> DEFINE z == [s EXCEPT !.k = SuspendThread(s.k, self)]
  <2>1. pc' = pc /\ arg' = arg
    BY <1>5 DEF Sleep
  <2>2. /\ s' = Resched(z) /\ QueuesOK(z) /\ z.owner = s.owner /\ z.pending = s.pending
        /\ z.k.cprio = s.k.cprio /\ z.k.iprio = s.k.iprio /\ SameClosed(s.k, z.k)
    BY <1>5, SleepSuspends
  <2> HIDE DEF z
  <2>3. Memory(z, pc, arg)
    BY <2>2, RecalledKeeps DEF Memory, Bounded
  <2> QED BY <2>1, <2>2, <2>3, ReschedMemory
<1> QED BY <1>2, <1>3, <1>4, <1>5

(* The calls that change a mutex from outside.                              *)
LEMMA OutsideRemembers ==
  ASSUME MutexInv, Memory(s, pc, arg), NEW m \in Mutex,
         Detach(m) \/ \E c \in Ceilings : SetCeiling(m, c)
  PROVE  s'.owner = s.owner /\ Memory(s', pc', arg')
<1>1. /\ QueuesOK(s) /\ s \in State /\ s.owner \in [Mutex -> Thread \cup {None}]
      /\ s.taken \in [Thread -> Seq(Mutex)]
  BY Facts, StateFields
<1> DEFINE o == s.owner[m]
<1>2. ASSUME NEW c \in Ceilings, SetCeiling(m, c) PROVE s'.owner = s.owner /\ Memory(s', pc', arg')
  <2> DEFINE z == [s EXCEPT !.ceil[m] = c]
  <2>1. s' = (IF o = None THEN z ELSE Refresh(z, o)) /\ pc' = pc /\ arg' = arg
    BY <1>2 DEF SetCeiling
  <2>2. z.owner = s.owner /\ z.k = s.k /\ z.queue = s.queue /\ z.pending = s.pending
    BY <1>1 DEF State
  <2>3. z \in State
    <3>1. [s.ceil EXCEPT ![m] = c] \in [Mutex -> Prio \cup {NoPrio}]
      BY <1>1, StateFields, MutexAssumption
    <3>2. z = [s EXCEPT !.ceil = [s.ceil EXCEPT ![m] = c]]
      OBVIOUS
    <3> HIDE DEF z
    <3> QED BY <1>1, <3>1, <3>2 DEF State
  <2> HIDE DEF z
  <2>4. QueuesOK(z) /\ Memory(z, pc, arg)
    BY <1>1, <2>2, <2>3 DEF QueuesOK, Memory, Bounded, Recalled
  <2>5. o # None => Adjusted(z, Refresh(z, o)) /\ Bounded(Refresh(z, o))
    BY <1>1, <2>4, RefreshAdjusts, RefreshBounded DEF Memory
  <2>6. o # None => Memory(Refresh(z, o), pc, arg)
    <3>1. o # None => SameClosed(z.k, Refresh(z, o).k)
      BY <2>5 DEF Adjusted, SameClosed
    <3> QED BY <2>4, <2>5, <3>1, RecalledKeeps DEF Memory, Adjusted
  <2> QED BY <2>1, <2>2, <2>4, <2>5, <2>6 DEF Adjusted
<1>3. CASE Detach(m)
  <2> DEFINE z1 == ReadyAll(s, m)
             z2 == IF o = None THEN z1 ELSE [z1 EXCEPT !.taken[o] = RemoveFirst(@, m)]
  <2>1. /\ s' = IF o # None /\ Restores(z2, o, m) THEN Resched(Restore(z2, o, m)) ELSE z2
        /\ pc' = pc /\ arg' = arg
    BY <1>3 DEF Detach
  <2>2. Woken(s, z1, ToSet(s.queue[m]))
    BY <1>1, ReadyAllKeeps
  <2> HIDE DEF z1
  <2>3. /\ QueuesOK(z1) /\ z1 \in State /\ z1.owner = s.owner /\ z1.pending = s.pending
        /\ SameClosed(s.k, z1.k) /\ z1.k.cprio = s.k.cprio /\ z1.k.iprio = s.k.iprio
        /\ z1.taken = s.taken
    BY <2>2 DEF Woken, QueuesOK
  <2>4. z2 \in State /\ z2.owner = s.owner /\ z2.pending = s.pending /\ z2.k = z1.k
        /\ z2.queue = z1.queue
    <3>1. CASE o = None
      BY <2>3, <3>1
    <3>2. CASE o # None
      <4> DEFINE f == RemoveFirst(s.taken[o], m)
      <4>1. f \in Seq(Mutex)
        BY <1>1, <3>2, RemoveFirstProperties, Facts DEF Owned
      <4> HIDE DEF f
      <4>2. [s.taken EXCEPT ![o] = f] \in [Thread -> Seq(Mutex)]
        BY <1>1, <3>2, <4>1
      <4>3. z2 = [z1 EXCEPT !.taken = [s.taken EXCEPT ![o] = f]]
        BY <2>3, <3>2 DEF f
      <4> HIDE DEF o, z2
      <4> QED BY <2>3, <4>2, <4>3 DEF State
    <3> QED BY <3>1, <3>2
  <2> HIDE DEF z2
  <2>5. QueuesOK(z2) /\ Memory(z2, pc, arg)
    <3>1. QueuesOK(z2)
      BY <2>3, <2>4 DEF QueuesOK
    <3>2. Bounded(z2)
      BY <2>3, <2>4 DEF Memory, Bounded
    <3>3. Recalled(z2, pc, arg)
      BY <2>3, <2>4, RecalledKeeps DEF Memory
    <3> QED BY <3>1, <3>2, <3>3 DEF Memory
  <2> DEFINE y == Restore(z2, o, m)
  <2>6. o # None => /\ QueuesOK(y) /\ y.owner = z2.owner /\ Memory(y, pc, arg)
    <3> SUFFICES ASSUME o # None PROVE QueuesOK(y) /\ y.owner = z2.owner /\ Memory(y, pc, arg)
      OBVIOUS
    <3>1. Adjusted(z2, y) /\ Bounded(y)
      BY <1>1, <2>5, RestoreAdjusts, RefreshBounded DEF Memory
    <3> HIDE DEF y, o
    <3>2. /\ QueuesOK(y) /\ y.owner = z2.owner /\ y.pending = z2.pending
          /\ SameClosed(z2.k, y.k)
      BY <3>1 DEF Adjusted, SameClosed
    <3> QED BY <2>5, <3>1, <3>2, RecalledKeeps DEF Memory
  <2> HIDE DEF y
  <2>7. o # None => Resched(y).owner = s.owner /\ Memory(Resched(y), pc, arg)
    BY <2>4, <2>6, ReschedMemory
  <2> HIDE DEF o
  <2>8. CASE s' = z2
    BY <2>1, <2>4, <2>5, <2>8
  <2>9. CASE o # None /\ s' = Resched(y)
    BY <2>1, <2>7, <2>9
  <2> QED BY <2>1, <2>8, <2>9 DEF y
<1> QED BY <1>2, <1>3

(* Those that change a thread.                                              *)
LEMMA ThreadRemembers ==
  ASSUME MutexInv, Memory(s, pc, arg), NEW t \in Thread, Delete(t) \/ Resume(t) \/ Timeout(t)
  PROVE  s'.owner = s.owner /\ Memory(s', pc', arg')
<1>1. QueuesOK(s) /\ s \in State /\ s.pending \in [Thread -> Mutex \cup {None}]
      /\ s.k.stat \in [Thread -> Stat]
  BY Facts, StateFields
<1>2. CASE Delete(t)
  <2> DEFINE m  == s.pending[t]
             z1 == Close(s, t)
             y  == LeaveWaiters(z1, t, m)
             z2 == IF m = None THEN z1 ELSE [y EXCEPT !.pending[t] = None]
             h  == [j \in Mutex |-> IF j \in ToSet(s.taken[t]) THEN 1 ELSE z2.hold[j]]
  <2>1. s' = [z2 EXCEPT !.hold = h] /\ pc' = pc /\ arg' = arg
    BY <1>2 DEF Delete
  <2>2. TakenOut(s, z1, t)
    <3>1. s.k.stat[t] \notin {"INIT", "CLOSE"}
      BY <1>2, Facts DEF Delete, Started
    <3> HIDE DEF z2, y
    <3> QED BY <1>1, <3>1, CloseKeeps
  <2> HIDE DEF z1
  <2>3. /\ QueuesOK(z1) /\ z1 \in State /\ z1.owner = s.owner /\ z1.pending = s.pending
        /\ z1.k.stat = [s.k.stat EXCEPT ![t] = "CLOSE"] /\ Bounded(z1)
    BY <2>2 DEF TakenOut, Memory, Bounded, QueuesOK
  <2>4. m # None => Adjusted(z1, y) /\ Bounded(y)
    BY <1>1, <2>3, LeaveWaitersAdjusts, LeaveWaitersBounded
  <2> HIDE DEF y, m
  <2>5. m # None => /\ y \in State /\ y.owner = s.owner /\ y.pending = s.pending
                    /\ y.k.stat = z1.k.stat
    BY <2>3, <2>4 DEF Adjusted, QueuesOK
  <2>6. /\ z2.owner = s.owner /\ z2.k.stat = z1.k.stat /\ Bounded(z2)
        /\ \A u \in Thread \ {t} : z2.pending[u] = s.pending[u]
    <3>1. CASE m = None
      BY <2>3, <3>1
    <3>2. CASE m # None
      <4>1. z2 = [y EXCEPT !.pending[t] = None]
        BY <3>2
      <4> HIDE DEF z2
      <4>2. /\ z2.owner = s.owner /\ z2.k = y.k
            /\ \A u \in Thread \ {t} : z2.pending[u] = s.pending[u]
        BY <1>1, <2>5, <3>2, <4>1 DEF State
      <4> QED BY <2>4, <2>5, <3>2, <4>2 DEF Bounded
    <3> QED BY <3>1, <3>2
  <2>7. {"k", "owner", "pending"} \subseteq DOMAIN z2
    BY <2>3, <2>5 DEF State
  <2> HIDE DEF z2, h
  <2>8. s'.owner = s.owner /\ s'.k = z2.k /\ s'.pending = z2.pending
    BY <2>1, <2>6, <2>7
  <2>9. Recalled(s', pc, arg)
    <3> SUFFICES ASSUME NEW u \in Thread, s'.k.stat[u] # "CLOSE", pc[u] # "run",
                        s'.owner[arg[u]] # u
                 PROVE  s'.pending[u] = arg[u]
      BY DEF Recalled
    <3>1. s'.k.stat[t] = "CLOSE" /\ \A v \in Thread \ {t} : s'.k.stat[v] = s.k.stat[v]
      BY <1>1, <2>3, <2>6, <2>8
    <3>2. u # t /\ s.k.stat[u] # "CLOSE" /\ s.owner[arg[u]] # u
      BY <2>8, <3>1
    <3> QED BY <2>6, <2>8, <3>2 DEF Memory, Recalled
  <2> QED BY <2>1, <2>6, <2>8, <2>9 DEF Memory, Bounded
<1>3. ASSUME s' = Resched(Ready(s, t)), pc' = pc, arg' = arg
      PROVE  s'.owner = s.owner /\ Memory(s', pc', arg')
  <2> DEFINE z == Ready(s, t)
  <2>1. Wakes(s, z, t)
    BY <1>1, WakeKeeps
  <2> HIDE DEF z
  <2>2. QueuesOK(z) /\ z.owner = s.owner /\ Memory(z, pc, arg)
    BY <2>1, RecalledKeeps DEF Wakes, Memory, Bounded
  <2> QED BY <1>3, <2>2, ReschedMemory DEF z
<1>4. CASE Resume(t)
  BY <1>3, <1>4 DEF Resume
<1>5. CASE Timeout(t)
  <2>1. IsSuspended(s.k, t)
    BY <1>5, Facts DEF Timeout
  <2>2. Dequeue(s, t).k = s.k
    BY <1>1 DEF Dequeue, State
  <2>3. Ready(s, t) = [Dequeue(s, t) EXCEPT !.k = InsertThread(@, t)]
    BY <2>1, <2>2 DEF Ready, ReadyThread
  <2> QED BY <1>3, <1>5, <2>3 DEF Timeout
<1> QED BY <1>2, <1>4, <1>5

(* The three calls that give a mutex to another thread.                     *)
LEMMA TakeFreeRemembers ==
  ASSUME MutexInv, Memory(s, pc, arg), NEW m \in Mutex, TakeFree(m)
  PROVE  /\ Memory(s', pc', arg') /\ s.owner[m] = None
         /\ \A j \in Mutex : j # m => s'.owner[j] = s.owner[j]
<1> DEFINE t  == self
           z1 == Seized(m)
           z2 == IF s.ceil[m] < s.k.cprio[t] THEN UpdatePriority(z1, t, s.ceil[m]) ELSE z1
<1>1. s.owner[m] = None /\ s' = [z2 EXCEPT !.taken[t] = Cons(m, @)] /\ pc' = pc /\ arg' = arg
      /\ pc[t] = "run"
  BY DEF TakeFree, Seized, Calls
<1>2. /\ QueuesOK(z1) /\ z1.owner = [s.owner EXCEPT ![m] = t] /\ z1.k = s.k
      /\ z1.pending = s.pending
  BY SeizeKeeps
<1>3. /\ t \in Thread /\ s.owner \in [Mutex -> Thread \cup {None}]
      /\ s.ceil[m] \in Prio \cup {NoPrio} /\ s.k.cprio[t] \in Prio /\ s.k.iprio[t] \in Prio
  BY Facts, StateFields
<1> HIDE DEF z1, t
<1>4. s.ceil[m] < s.k.cprio[t] => s.ceil[m] \in Prio /\ s.ceil[m] <= s.k.iprio[t]
  <2>1. s.k.cprio[t] \in Nat /\ NoPrio \in Nat /\ s.k.cprio[t] < NoPrio /\ s.k.iprio[t] \in Nat
        /\ s.k.cprio[t] <= s.k.iprio[t]
    BY <1>3, PrioNat DEF Memory, Bounded
  <2>2. CASE s.ceil[m] = NoPrio
    BY <2>1, <2>2
  <2>3. CASE s.ceil[m] \in Prio
    <3>1. s.ceil[m] \in Nat
      BY <2>3, PrioNat
    <3> QED BY <2>1, <2>3, <3>1
  <2> QED BY <1>3, <2>2, <2>3
<1>5. Bounded(z1)
  BY <1>2 DEF Memory, Bounded
<1>6. Adjusted(z1, z2) /\ Bounded(z2)
  BY <1>2, <1>3, <1>4, <1>5, UpdatePriorityAdjusts, UpdatePriorityBounded, AdjustedSelf
<1> HIDE DEF z2
<1>7. z2 \in State /\ z2.owner = z1.owner /\ z2.pending = s.pending /\ z2.k.stat = s.k.stat
  BY <1>2, <1>6 DEF Adjusted, QueuesOK
<1>8. s'.owner = [s.owner EXCEPT ![m] = t] /\ s'.k = z2.k /\ s'.pending = s.pending
  BY <1>1, <1>2, <1>7 DEF State
<1>9. Recalled(s', pc, arg)
  <2> SUFFICES ASSUME NEW u \in Thread, s'.k.stat[u] # "CLOSE", pc[u] # "run",
                      s'.owner[arg[u]] # u
               PROVE  s'.pending[u] = arg[u]
    BY DEF Recalled
  <2>1. s.owner[arg[u]] # u
    <3>1. u # None /\ (arg[u] \in Mutex)
      BY MutexAssumption, Facts
    <3> QED BY <1>1, <1>3, <1>8, <3>1
  <2> QED BY <1>7, <1>8, <2>1 DEF Memory, Recalled
<1>10. \A j \in Mutex : j # m => s'.owner[j] = s.owner[j]
  BY <1>3, <1>8
<1> QED BY <1>1, <1>6, <1>8, <1>9, <1>10 DEF Memory, Bounded

(* A release gives the mutex to a thread and may end a boost.               *)
LEMMA ReleaseRemembers ==
  ASSUME MutexInv, Memory(s, pc, arg), NEW m \in Mutex, Release(m)
  PROVE  Memory(s', pc', arg')
<1> DEFINE t == self
           z == ReleaseLast(s, t, m)
<1>1. /\ pc[t] = "run" /\ s.owner[m] = t /\ m \in live /\ pc' = pc /\ arg' = arg
  BY DEF Release, Calls
<1>2. /\ t \in Thread /\ s \in State /\ QueuesOK(s) /\ Owned(s, live) /\ Calling(s, pc, arg, err)
      /\ IsInjective(s.taken[t])
  BY Facts DEF Owned
<1>3. CASE s.hold[m] > 1
  <2>1. s'.k = s.k /\ s'.owner = s.owner /\ s'.pending = s.pending
    BY <1>2, <1>3 DEF Release, State
  <2> QED BY <1>1, <2>1 DEF Memory, Bounded, Recalled
<1>4. CASE ~ s.hold[m] > 1
  <2>1. s' \in {z, Resched(z)}
    BY <1>4 DEF Release
  <2> HIDE DEF t
  <2>2. Bounded(z) /\ Recalled(z, pc, arg)
    BY <1>1, <1>2, ReleaseBounded, ReleaseRecalled DEF Memory
  <2>3. QueuesOK(z)
    BY <1>1, <1>2, ReleaseKeeps
  <2> HIDE DEF z
  <2>4. Memory(z, pc, arg) /\ Memory(Resched(z), pc, arg)
    BY <2>2, <2>3, ReschedMemory DEF Memory
  <2> QED BY <1>1, <2>1, <2>4
<1> QED BY <1>3, <1>4

(* And so does an exit, mutex by mutex.                                     *)
LEMMA ExitRemembers ==
  ASSUME MutexInv, Memory(s, pc, arg), Exit
  PROVE  Memory(s', pc', arg')
<1> DEFINE t  == self
           z1 == Close(s, t)
           z2 == ReleaseAll(z1, t)
<1>1. s' = Resched(z2) /\ pc' = pc /\ arg' = arg /\ pc[t] = "run"
  BY DEF Exit, Calls
<1>2. t \in Thread /\ QueuesOK(s) /\ s.k.stat \in [Thread -> Stat] /\ s.k.stat[t] = "RUNNING"
  BY <1>1, Facts, StateFields
<1>3. QueuesOK(z1) /\ Owned(z1, live) /\ Calling(z1, pc, arg, err)
  <2> HIDE DEF z2
  <2> QED BY ExitCloses
<1> HIDE DEF t
<1>4. TakenOut(s, z1, t)
  <2> HIDE DEF z2
  <2> QED BY <1>2, CloseKeeps
<1> HIDE DEF z1
<1>5. Bounded(z1)
  BY <1>4 DEF TakenOut, Memory, Bounded
<1>6. Recalled(z1, pc, arg)
  <2>1. \A u \in Thread : z1.k.stat[u] # "CLOSE" => s.k.stat[u] # "CLOSE"
    BY <1>2, <1>4 DEF TakenOut
  <2> QED BY <1>4, <2>1 DEF TakenOut, Memory, Recalled
<1>7. QueuesOK(z2) /\ Memory(z2, pc, arg)
  BY <1>1, <1>2, <1>3, <1>5, <1>6, ReleaseAllKept DEF Memory
<1> HIDE DEF z2
<1> QED BY <1>1, <1>7, ReschedMemory

(* At first nobody waits or has a boost.                                    *)
LEMMA InitRemembers == Init => Memory(s, pc, arg)
<1> SUFFICES ASSUME Init PROVE Memory(s, pc, arg)
  OBVIOUS
<1>1. s.k.cprio = InitPrio /\ s.k.iprio = InitPrio /\ pc = [t \in Thread |-> "run"]
  BY DEF Init
<1>2. \A t \in Thread : InitPrio[t] <= InitPrio[t]
  BY KernelAssumption
<1> QED BY <1>1, <1>2 DEF Memory, Bounded, Recalled

(* Every step remembers.                                                    *)
LEMMA NextRemembers ==
  ASSUME MutexInv, Memory(s, pc, arg), [Next]_vars
  PROVE  Memory(s', pc', arg')
<1>1. CASE UNCHANGED vars
  BY <1>1 DEF vars, Memory, Bounded, Recalled
<1>2. CASE Next
  <2>1. ASSUME NEW m \in Mutex,
               \/ TakeAgain(m) \/ TakeFree(m) \/ Release(m) \/ Detach(m)
               \/ \E w \in Waits : TakeBusy(m, w)
               \/ \E p \in Ceilings : SetCeiling(m, p)
        PROVE  Memory(s', pc', arg')
    BY <2>1, WaitRemembers, TakeFreeRemembers, ReleaseRemembers, OutsideRemembers, TakeBusyRemembers
  <2>2. ASSUME NEW t \in Thread, Delete(t) \/ Resume(t) \/ Timeout(t)
        PROVE  Memory(s', pc', arg')
    BY <2>2, ThreadRemembers
  <2> QED BY <1>2, <2>1, <2>2, WaitRemembers, ExitRemembers DEF Next
<1> QED BY <1>1, <1>2

-----------------------------------------------------------------------------
(* Hand-overs. *)

(* A mutex that changes its owner from z to r goes to one of the most       *)
(* urgent of its waiters.                                                   *)
Hands(z, r) ==
  \A m \in Mutex :
    LET n == r.owner[m]
    IN  n \notin {None, z.owner[m]} /\ z.owner[m] # None =>
          n \in ToSet(z.queue[m]) /\ \A w \in ToSet(z.queue[m]) : z.k.cprio[n] <= z.k.cprio[w]

(* That is so if it is the first waiter, and the waiters are in order.      *)
LEMMA FirstHanded ==
  ASSUME NEW z, z \in State, Boosted(z), NEW r,
         \A m \in Mutex : r.owner[m] \in {None, z.owner[m]} \cup First(z, m)
  PROVE  Hands(z, r)
<1> SUFFICES ASSUME NEW m \in Mutex, r.owner[m] \notin {None, z.owner[m]}
             PROVE  /\ r.owner[m] \in ToSet(z.queue[m])
                    /\ \A w \in ToSet(z.queue[m]) : z.k.cprio[r.owner[m]] <= z.k.cprio[w]
  BY DEF Hands
<1>1. z.queue[m] # <<>> /\ r.owner[m] = Head(z.queue[m])
  BY DEF First
<1>2. z.queue[m] \in Seq(Thread) /\ z.k.cprio \in [Thread -> Prio]
  BY StateFields
<1>3. SortedBut(z.queue[m], z.k.cprio, None)
  BY DEF Boosted, Loose, Ordered
<1> QED BY <1>1, <1>2, <1>3, HeadUrgent, EmptyList

(* The last release of a mutex passes on that mutex alone.                  *)
LEMMA ReleaseHands ==
  ASSUME NEW z, QueuesOK(z), NEW m \in Mutex, NEW t \in Thread, IsInjective(z.taken[t])
  PROVE  LET r == ReleaseLast(z, t, m)
         IN  /\ r.owner[m] \in {None} \cup First(z, m)
             /\ \A j \in Mutex : j # m => r.owner[j] = z.owner[j]
<1> DEFINE z1 == Unheld(z, t, m)
           z2 == Restore(z1, t, m)
           r == HandOver(z2, m)
<1>1. r = ReleaseLast(z, t, m)
  BY DEF ReleaseLast, Unheld
<1>2. QueuesOK(z1) /\ z1.queue = z.queue /\ z1.owner = z.owner
  BY UnheldFrame
<1> HIDE DEF z1
<1>3. QueuesOK(z2) /\ z2.queue = z.queue /\ z2.owner = z.owner
  BY <1>2, RestoreAdjusts DEF Adjusted
<1>4. z2.owner \in [Mutex -> Thread \cup {None}]
  BY <1>3, StateFields DEF QueuesOK
<1> HIDE DEF z2
<1>5. CASE z2.queue[m] = <<>>
  <2>1. LeftFree(z2, r, m)
    BY <1>3, <1>5, HandOverNobody
  <2> HIDE DEF r
  <2> QED BY <1>1, <1>3, <1>4, <2>1 DEF LeftFree
<1>6. CASE z2.queue[m] # <<>>
  <2>1. PICK n : n = Head(z2.queue[m])
    OBVIOUS
  <2>2. Handed(z2, r, m, n)
    BY <1>3, <1>6, <2>1, HandOverFirst
  <2> HIDE DEF r
  <2>3. r.owner = [z2.owner EXCEPT ![m] = n]
    BY <2>2 DEF Handed
  <2>4. n \in First(z, m)
    BY <1>3, <1>6, <2>1 DEF First
  <2> QED BY <1>1, <1>3, <1>4, <2>3, <2>4
<1> QED BY <1>5, <1>6

(* The exit of a thread passes each of its mutexes to the waiter that was   *)
(* the first: the earlier turns of the loop do not touch its list.          *)
LEMMA ReleaseAllHands ==
  ASSUME NEW z, QueuesOK(z), NEW t \in Thread,
         NEW l, Owned(z, l), NEW p, NEW a, NEW e, Calling(z, p, a, e)
  PROVE  \A m \in Mutex : ReleaseAll(z, t).owner[m] \in {None, z.owner[m]} \cup First(z, m)
<1> DEFINE q == z.taken[t]
           N == Len(q)
           D(n) == {q[i] : i \in 1 .. n}
<1>1. q \in Seq(Mutex) /\ N \in Nat /\ IsInjective(q) /\ \A n \in 1 .. N : q[n] \in Mutex
  BY StateFields DEF QueuesOK, Owned
<1>2. PICK f :
        /\ f[0] = z
        /\ \A n \in 1 .. N : f[n] = ReleaseLast(f[n - 1], t, q[n])
        /\ \A n \in 0 .. N : QueuesOK(f[n]) /\ Owned(f[n], l) /\ Given(z, f[n], D(n))
        /\ ReleaseAll(z, t) = f[N]
  <2>1. ReleaseTurns(z, t, l, p, a, e)
    BY ReleaseAllTurns
  <2> QED BY <2>1 DEF ReleaseTurns
<1>3. \A i, j \in 1 .. N : q[i] = q[j] => i = j
  BY <1>1 DEF IsInjective
<1> HIDE DEF q, N
<1> DEFINE Passes(x, n) ==
             /\ \A m \in Mutex \ D(n) : x.owner[m] = z.owner[m]
             /\ \A m \in Mutex \cap D(n) : x.owner[m] \in {None} \cup First(z, m)
           P == [n \in 0 .. N |-> {x \in State : Passes(x, n)}]
<1>4. f[0] \in P[0]
  <2>1. D(0) = {} /\ f[0] \in State /\ 0 \in 0 .. N
    BY <1>1, <1>2 DEF QueuesOK
  <2> HIDE DEF D
  <2> QED BY <1>2, <2>1
<1>5. ASSUME NEW n \in 1 .. N, f[n - 1] \in P[n - 1] PROVE f[n] \in P[n]
  <2> DEFINE x == f[n - 1]
             y == f[n]
             m == q[n]
  <2>1. n \in 0 .. N /\ n - 1 \in 0 .. N /\ m \in Mutex
    BY <1>1
  <2>2. D(n) = D(n - 1) \cup {m} /\ m \notin D(n - 1)
    <3>1. 1 .. n = (1 .. n - 1) \cup {n} /\ \A i \in 1 .. n - 1 : i \in 1 .. N /\ i # n
      BY <1>1
    <3> QED BY <1>3, <3>1
  <2>3. Passes(x, n - 1)
    BY <1>5, <2>1
  <2>4. /\ QueuesOK(x) /\ IsInjective(x.taken[t]) /\ x.queue[m] = z.queue[m]
        /\ y = ReleaseLast(x, t, m) /\ y \in State
    BY <1>2, <2>1, <2>2 DEF QueuesOK, Owned, Given
  <2> HIDE DEF D, x, y, m
  <2>5. /\ y.owner[m] \in {None} \cup First(x, m)
        /\ \A j \in Mutex : j # m => y.owner[j] = x.owner[j]
    BY <2>1, <2>4, ReleaseHands
  <2>6. First(x, m) = First(z, m)
    BY <2>4 DEF First
  <2>7. Passes(y, n)
    BY <2>2, <2>3, <2>5, <2>6
  <2> HIDE DEF Passes
  <2> QED BY <2>1, <2>4, <2>7 DEF y
<1>6. N \in 0 .. N
  BY <1>1
<1> HIDE DEF D, Passes
<1>7. f[N] \in P[N]
  <2> HIDE DEF P
  <2> QED BY <1>1, <1>4, <1>5, <1>6, LoopKeeps
<1>8. Passes(f[N], N)
  BY <1>6, <1>7
<1> QED BY <1>2, <1>8 DEF Passes

(* A step that changes an owner hands over to the first waiter.             *)
LEMMA NextHands ==
  ASSUME InheritInv, Memory(s, pc, arg), live = Mutex, [Next]_vars
  PROVE  Hands(s, s')
<1>1. MutexInv /\ s \in State /\ QueuesOK(s) /\ Owned(s, live) /\ Calling(s, pc, arg, err)
      /\ self \in Thread /\ Boosted(s)
  BY Facts DEF InheritInv, Kept
<1>2. CASE s'.owner = s.owner
  BY <1>2 DEF Hands
<1>3. ASSUME NEW m \in Mutex, TakeFree(m) PROVE Hands(s, s')
  BY <1>1, <1>3, TakeFreeRemembers DEF Hands
<1>4. ASSUME NEW m \in Mutex, Release(m) PROVE Hands(s, s')
  <2> DEFINE z == ReleaseLast(s, self, m)
  <2>1. s'.owner = s.owner \/ s' = z \/ s' = Resched(z)
    BY <1>1, <1>4 DEF Release, State
  <2>2. IsInjective(s.taken[self])
    BY <1>1 DEF Owned
  <2>3. \A j \in Mutex : z.owner[j] \in {None, s.owner[j]} \cup First(s, j)
    BY <1>1, <2>2, ReleaseHands
  <2>4. Hands(s, z)
    BY <1>1, <2>3, FirstHanded
  <2>5. QueuesOK(z)
    BY <1>1, <1>4, ReleaseKeeps DEF Release
  <2> HIDE DEF z
  <2>6. Resched(z).owner = z.owner
    BY <2>5 DEF Resched, QueuesOK, State
  <2> QED BY <1>2, <2>1, <2>4, <2>6 DEF Hands
<1>5. CASE Exit
  <2> DEFINE z1 == Close(s, self)
             z  == ReleaseAll(z1, self)
  <2>1. s' = Resched(z)
    BY <1>5 DEF Exit
  <2>2. /\ QueuesOK(z1) /\ Owned(z1, live) /\ Calling(z1, pc, arg, err)
        /\ z1.queue = s.queue /\ z1.owner = s.owner
    BY <1>1, <1>5, ExitCloses
  <2> HIDE DEF z1
  <2>3. \A j \in Mutex : z.owner[j] \in {None, z1.owner[j]} \cup First(z1, j)
    BY <1>1, <2>2, ReleaseAllHands
  <2>4. QueuesOK(z)
    <3> HIDE DEF z
    <3>1. ReleaseTurns(z1, self, live, pc, arg, err)
      BY <1>1, <2>2, ReleaseAllTurns
    <3>2. Len(z1.taken[self]) \in 0 .. Len(z1.taken[self])
      <4>1. z1.taken[self] \in Seq(Mutex)
        BY <1>1, <2>2, StateFields DEF QueuesOK
      <4> QED BY <4>1
    <3> QED BY <3>1, <3>2 DEF ReleaseTurns, z
  <2> HIDE DEF z
  <2>5. s'.owner = z.owner
    BY <2>1, <2>4 DEF Resched, QueuesOK, State
  <2>6. \A j \in Mutex : s'.owner[j] \in {None, s.owner[j]} \cup First(s, j)
    BY <2>2, <2>3, <2>5 DEF First
  <2> QED BY <1>1, <2>6, FirstHanded
<1>6. CASE UNCHANGED vars
  BY <1>2, <1>6 DEF vars
<1>7. ASSUME NEW m \in Mutex, NEW w \in Waits, TakeBusy(m, w) PROVE s'.owner = s.owner
  BY <1>1, <1>7, TakeBusyRemembers
<1>8. ASSUME NEW m \in Mutex, Detach(m) \/ \E c \in Ceilings : SetCeiling(m, c)
      PROVE  s'.owner = s.owner
  BY <1>1, <1>8, OutsideRemembers
<1>9. ASSUME NEW t \in Thread, Delete(t) \/ Resume(t) \/ Timeout(t)
      PROVE  s'.owner = s.owner
  BY <1>1, <1>9, ThreadRemembers
<1>10. ASSUME (\E m \in Mutex : TakeAgain(m)) \/ TakeSchedule \/ TakeReturn \/ Sleep
       PROVE  s'.owner = s.owner
  BY <1>1, <1>10, WaitRemembers
<1> QED BY <1>2, <1>3, <1>4, <1>5, <1>6, <1>7, <1>8, <1>9, <1>10 DEF Next

(* With mutexes taken in a strict order, a mutex passed on before any is    *)
(* detached goes to a waiter of the highest priority: rt_mutex_release and  *)
(* _thread_exit hand over to the first of a list that inheritance has kept  *)
(* in order (HandedToHighest).                                              *)
THEOREM HandedWell == ASSUME StrictRank PROVE Spec => HandedToHighest
<1> DEFINE Inv == InheritInv /\ Memory(s, pc, arg)
<1>1. Init => Inv
  BY InitInherit, InitRemembers
<1>2. Inv /\ [Next]_vars => Inv'
  BY NextInherits, NextRemembers DEF InheritInv
<1>3. ASSUME Inv, [Next]_vars
      PROVE  live = Mutex =>
               \A m \in Mutex : LET n == s'.owner[m]
                                IN  n \notin {None, s.owner[m]} /\ s.owner[m] # None =>
                                      n \in Waiters(m) /\ \A w \in Waiters(m) : s.k.cprio[n] <= s.k.cprio[w]
  BY <1>3, NextHands DEF Hands, Waiters
<1> QED BY <1>1, <1>2, <1>3, PTL DEF Spec, HandedToHighest

-----------------------------------------------------------------------------
(* The end of a boost. *)

(* No thread is more urgent in y than in z, and no mutex has recorded a     *)
(* more urgent waiter.                                                      *)
Sunk(z, y) ==
  /\ \A u \in Thread : z.k.cprio[u] <= y.k.cprio[u]
  /\ \A j \in Mutex : z.prio[j] <= y.prio[j]

(* t owns a mutex of at least the rank of m: so does every thread of the    *)
(* chain that starts with the owner of m.                                   *)
Behind(z, t, m) == \E j \in ToSet(z.taken[t]) : Rank[m] <= Rank[j]

(* The chain never comes back to a thread that waits for m.                 *)
LEMMA BehindOther ==
  ASSUME NEW z, z \in State, Climbing(z), NEW c \in Thread, z.pending[c] # None,
         NEW t \in Thread, Behind(z, t, z.pending[c])
  PROVE  t # c
<1>1. z.pending[c] \in Mutex /\ Rank \in [Mutex -> Nat]
  BY StateFields, MutexAssumption
<1>2. PICK j \in ToSet(z.taken[t]) : Rank[z.pending[c]] <= Rank[j]
  BY DEF Behind
<1>3. j \in Mutex
  <2>1. ToSet(z.taken[t]) \subseteq Mutex
    BY StateFields, EmptyList
  <2> QED BY <2>1
<1>4. t = c => Rank[j] < Rank[z.pending[c]]
  BY <1>2 DEF Climbing
<1>5. Rank[j] \in Nat /\ Rank[z.pending[c]] \in Nat
  BY <1>1, <1>3
<1> QED BY <1>2, <1>4, <1>5

(* The state z in which a boost ends: everything is in order, and there are *)
(* no ceilings.                                                             *)
Level(z) ==
  QueuesOK(z) /\ Chains(z) /\ Boosted(z) /\ Bounded(z) /\ \A j \in Mutex : z.ceil[j] = NoPrio

(* What a thread's mutexes call for is then no more urgent than it was.     *)
LEMMA MutexPrioritySinks ==
  ASSUME NEW z, Level(z), NEW y, Adjusted(z, y), Sunk(z, y), NEW t \in Thread
  PROVE  MutexPriority(y, t) \in Prio /\ z.k.cprio[t] <= MutexPriority(y, t)
<1> DEFINE p == z.k.cprio[t]
<1>1. /\ z \in State /\ y \in State /\ p \in Prio /\ y.taken = z.taken /\ y.ceil = z.ceil
      /\ y.k.iprio = z.k.iprio
  BY StateFields DEF Level, Adjusted, QueuesOK
<1>2. p <= y.k.iprio[t]
  BY <1>1 DEF Level, Bounded
<1>3. ASSUME NEW j \in ToSet(y.taken[t]) PROVE p <= y.prio[j] /\ p <= y.ceil[j]
  <2>1. j \in Mutex
    <3>1. ToSet(y.taken[t]) \subseteq Mutex
      BY <1>1, StateFields, EmptyList
    <3> QED BY <3>1
  <2>2. p <= z.prio[j]
    <3>1. t # None
      BY MutexAssumption
    <3> QED BY <1>1, <3>1 DEF Level, Boosted, Loose, Passed
  <2>3. z.prio[j] <= y.prio[j] /\ y.ceil[j] = NoPrio
    BY <1>1, <2>1 DEF Sunk, Level
  <2>4. p \in Nat /\ p < NoPrio /\ NoPrio \in Nat
    BY <1>1, PrioNat
  <2>5. z.prio[j] \in Nat /\ y.prio[j] \in Nat
    <3>1. z.prio[j] \in Prio \cup {NoPrio} /\ y.prio[j] \in Prio \cup {NoPrio}
      BY <1>1, <2>1, StateFields
    <3> QED BY <3>1, RecordedNat
  <2> HIDE DEF p
  <2> QED BY <2>2, <2>3, <2>4, <2>5
<1> HIDE DEF p
<1>4. p <= MutexPriority(y, t)
  BY <1>1, <1>2, <1>3, MutexPriorityLeast
<1>5. MutexPriority(y, t) \in Prio
  BY <1>1, MutexPriorityLeast
<1> QED BY <1>4, <1>5 DEF p

(* The first waiter is no more urgent than what was recorded.               *)
LEMMA UpdateMutexSinks ==
  ASSUME NEW z, Level(z), NEW y, Adjusted(z, y), Sunk(z, y), NEW m \in Mutex
  PROVE  Sunk(z, UpdateMutex(y, m))
<1> DEFINE r == UpdateMutex(y, m)
<1>1. /\ QueuesOK(y) /\ z \in State /\ y \in State /\ ToSet(y.queue[m]) = ToSet(z.queue[m])
  BY DEF Level, Adjusted, QueuesOK
<1>2. /\ r.k = y.k /\ \A j \in Mutex : j # m => r.prio[j] = y.prio[j]
      /\ r.prio[m] = IF y.queue[m] = <<>> THEN NoPrio ELSE y.k.cprio[Head(y.queue[m])]
  BY <1>1, UpdateMutexAdjusts
<1> HIDE DEF r
<1>3. z.prio[m] <= r.prio[m]
  <2>1. z.prio[m] \in Nat /\ z.prio[m] <= NoPrio
    BY <1>1, StateFields, RecordedNat
  <2>2. CASE y.queue[m] = <<>>
    BY <1>2, <2>1, <2>2
  <2>3. CASE y.queue[m] # <<>>
    <3> DEFINE h == Head(y.queue[m])
    <3>1. h \in Thread /\ h \in ToSet(z.queue[m]) /\ h # None
      BY <1>1, <2>3, StateFields, EmptyList
    <3> HIDE DEF h
    <3>2. z.prio[m] <= z.k.cprio[h]
      BY <3>1 DEF Level, Boosted, Loose, Recorded
    <3>3. z.k.cprio[h] <= y.k.cprio[h]
      BY <3>1 DEF Sunk
    <3>4. z.k.cprio[h] \in Nat /\ y.k.cprio[h] \in Nat
      BY <1>1, <3>1, StateFields, PrioNat
    <3>5. z.prio[m] <= y.k.cprio[h]
      BY <2>1, <3>2, <3>3, <3>4
    <3> QED BY <1>2, <2>3, <3>5 DEF h
  <2> QED BY <2>2, <2>3
<1> QED BY <1>2, <1>3 DEF Sunk, r

(* How a turn of _thread_update_priority leaves z when a boost ends that    *)
(* has nothing to do with c.                                                *)
Sinks(z, l, c) ==
  /\ Adjusted(z, l.z) /\ Sunk(z, l.z) /\ l.z.k.cprio[c] = z.k.cprio[c]
  /\ l.changed => Behind(z, l.t, z.pending[c])

(* The next turn leaves it so.                                              *)
LEMMA PropagateSinks ==
  ASSUME NEW z, Level(z), NEW c \in Thread, z.pending[c] # None,
         NEW l \in Turn, QueuesOK(l.z), Sinks(z, l, c)
  PROVE  Sinks(z, Propagate(l), c)
<1> DEFINE m  == l.z.pending[l.t]
           o  == l.z.owner[m]
           z0 == Enqueue(Dequeue(l.z, l.t), m, l.t)
           z1 == UpdateMutex(z0, m)
           p  == MutexPriority(z1, o)
           z2 == SetThread(z1, o, p)
<1>1. z \in State /\ QueuesOK(z) /\ Climbing(z)
  BY DEF Level, QueuesOK, Chains, Climbing
<1>2. Adjusted(z, l.z) /\ Sunk(z, l.z) /\ l.z.k.cprio[c] = z.k.cprio[c]
  BY DEF Sinks
<1>3. CASE l.changed /\ IsSuspended(l.z.k, l.t) /\ l.z.pending[l.t] # None
  <2>1. l.t \in Thread /\ m \in Mutex /\ l.t \in ToSet(l.z.queue[m]) /\ o \in Thread
    BY <1>3, OwnerOfPending DEF Turn
  <2>2. m = z.pending[l.t] /\ o = z.owner[m] /\ z.pending[l.t] # None
    BY <1>2, <1>3 DEF Adjusted
  <2>3. Behind(z, o, z.pending[c])
    <3>1. m \in ToSet(z.taken[o])
      <4>1. l.t \in ToSet(z.queue[m]) /\ z.queue[m] \in Seq(Thread)
        BY <1>1, <1>2, <2>1, StateFields DEF Adjusted
      <4>2. z.queue[m] # <<>>
        BY <4>1, EmptyList
      <4> QED BY <2>1, <2>2, <4>2 DEF Level, Chains
    <3>2. PICK j \in ToSet(z.taken[l.t]) : Rank[z.pending[c]] <= Rank[j]
      BY <1>3 DEF Sinks, Behind
    <3>3. Rank[j] < Rank[m]
      BY <2>1, <2>2, <3>2 DEF Level, Chains
    <3>4. j \in Mutex
      <4>1. ToSet(z.taken[l.t]) \subseteq Mutex
        BY <1>1, <2>1, StateFields, EmptyList
      <4> QED BY <4>1
    <3>5. Rank[j] \in Nat /\ Rank[m] \in Nat /\ Rank[z.pending[c]] \in Nat
      BY <1>1, <2>1, <3>4, StateFields, MutexAssumption
    <3> HIDE DEF m, o
    <3>6. Rank[z.pending[c]] <= Rank[m]
      BY <3>2, <3>3, <3>5
    <3> QED BY <3>1, <3>6 DEF Behind
  <2>4. o # c
    BY <1>1, <2>1, <2>3, BehindOther
  <2>5. Propagate(l) = IF p # z1.k.cprio[o]
                       THEN [z |-> z2, t |-> o, changed |-> TRUE]
                       ELSE [z |-> z1, t |-> o, changed |-> FALSE]
    BY <1>3 DEF Propagate
  <2> HIDE DEF m, o
  <2>6. Adjusted(l.z, z0) /\ z0.k = l.z.k /\ z0.prio = l.z.prio
    BY <2>1, ResortAdjusts
  <2> HIDE DEF z0
  <2>7. QueuesOK(z0) /\ Adjusted(z, z0) /\ Sunk(z, z0)
    BY <1>2, <2>6, AdjustedTwice DEF Adjusted, Sunk
  <2>8. QueuesOK(z1) /\ Adjusted(z, z1) /\ z1.k = l.z.k
    <3>1. Adjusted(z0, z1) /\ z1.k = z0.k
      BY <2>1, <2>7, UpdateMutexAdjusts
    <3> QED BY <2>6, <2>7, <3>1, AdjustedTwice DEF Adjusted
  <2>9. Sunk(z, z1)
    BY <2>1, <2>7, UpdateMutexSinks
  <2> HIDE DEF z1
  <2>10. p \in Prio /\ z.k.cprio[o] <= p
    BY <2>1, <2>8, <2>9, MutexPrioritySinks
  <2> HIDE DEF p
  <2>11. Adjusted(z1, z2) /\ z2.prio = z1.prio /\ z2.k.cprio = [z1.k.cprio EXCEPT ![o] = p]
    BY <2>1, <2>8, <2>10, SetThreadAdjusts
  <2> HIDE DEF z2
  <2>12. z1.k.cprio \in [Thread -> Prio]
    BY <2>8, StateFields DEF QueuesOK
  <2>13. Adjusted(z, z2) /\ Sunk(z, z2) /\ z2.k.cprio[c] = z.k.cprio[c]
    BY <1>2, <2>4, <2>8, <2>9, <2>10, <2>11, <2>12, AdjustedTwice DEF Sunk
  <2> QED BY <1>2, <2>3, <2>5, <2>8, <2>9, <2>13 DEF Sinks
<1>4. CASE ~ (l.changed /\ IsSuspended(l.z.k, l.t) /\ l.z.pending[l.t] # None)
  <2>1. Propagate(l) = [l EXCEPT !.changed = FALSE]
    BY <1>4 DEF Propagate
  <2>2. Propagate(l).z = l.z /\ Propagate(l).changed = FALSE
    BY <2>1 DEF Turn
  <2> QED BY <1>2, <2>2 DEF Sinks
<1> QED BY <1>3, <1>4

(* The whole loop.                                                          *)
LEMMA UpdatePrioritySinks ==
  ASSUME NEW z, Level(z), NEW c \in Thread, z.pending[c] # None,
         NEW t \in Thread, Behind(z, t, z.pending[c]), NEW p \in Prio, z.k.cprio[t] <= p
  PROVE  LET r == UpdatePriority(z, t, p)
         IN  r.k.cprio[c] = z.k.cprio[c] /\ \A u \in Thread : z.k.cprio[u] <= r.k.cprio[u]
<1> DEFINE N == Cardinality(Mutex)
           P == [n \in 0 .. N |-> {l \in Turn : Sinks(z, l, c)}]
<1>1. N \in Nat /\ N \in 0 .. N
  BY MutexAssumption, FS_CardinalityType
<1>2. QueuesOK(z) /\ z \in State /\ Climbing(z) /\ z.k.cprio \in [Thread -> Prio]
  BY StateFields DEF Level, QueuesOK, Chains, Climbing
<1>3. PICK f :
        /\ f[0] = [z |-> SetThread(z, t, p), t |-> t, changed |-> TRUE]
        /\ \A n \in 1 .. N : f[n] = Propagate(f[n - 1])
        /\ \A n \in 0 .. N : f[n] \in Turn /\ QueuesOK(f[n].z) /\ Adjusted(z, f[n].z)
        /\ UpdatePriority(z, t, p) = f[N].z
  BY <1>2, UpdatePriorityTurns
<1> HIDE DEF N
<1>4. f[0] \in P[0]
  <2> DEFINE r == SetThread(z, t, p)
  <2>1. Adjusted(z, r) /\ r.prio = z.prio /\ r.k.cprio = [z.k.cprio EXCEPT ![t] = p]
    BY <1>2, SetThreadAdjusts
  <2>2. t # c
    BY <1>2, BehindOther
  <2>3. f[0].z = r /\ f[0].t = t /\ 0 \in 0 .. N
    BY <1>1, <1>3
  <2> HIDE DEF r
  <2>4. ASSUME NEW u \in Thread PROVE z.k.cprio[u] <= r.k.cprio[u]
    <3>1. z.k.cprio[u] \in Nat
      BY <1>2, PrioNat
    <3>2. CASE u = t
      BY <1>2, <2>1, <3>2
    <3>3. CASE u # t
      BY <1>2, <2>1, <3>1, <3>3
    <3> QED BY <3>2, <3>3
  <2>5. ASSUME NEW j \in Mutex PROVE z.prio[j] <= r.prio[j]
    <3>1. z.prio[j] \in Prio \cup {NoPrio}
      BY <1>2, StateFields
    <3>2. z.prio[j] \in Nat
      BY <3>1, RecordedNat
    <3> QED BY <2>1, <3>2
  <2>6. r.k.cprio[c] = z.k.cprio[c]
    BY <1>2, <2>1, <2>2
  <2>7. Sinks(z, f[0], c)
    BY <2>1, <2>3, <2>4, <2>5, <2>6 DEF Sinks, Sunk
  <2> QED BY <1>3, <2>3, <2>7
<1>5. ASSUME NEW n \in 1 .. N, f[n - 1] \in P[n - 1] PROVE f[n] \in P[n]
  <2>1. n \in 0 .. N /\ n - 1 \in 0 .. N
    BY <1>1
  <2>2. f[n - 1] \in Turn /\ Sinks(z, f[n - 1], c) /\ QueuesOK(f[n - 1].z)
    BY <1>3, <1>5, <2>1
  <2>3. Sinks(z, f[n], c)
    BY <1>3, <2>2, PropagateSinks
  <2> QED BY <1>3, <2>1, <2>3
<1> HIDE DEF P
<1>6. \A n \in 0 .. N : f[n] \in P[n]
  BY <1>1, <1>4, <1>5, LoopKeeps
<1>7. Sinks(z, f[N], c)
  BY <1>1, <1>6 DEF P
<1> QED BY <1>3, <1>7 DEF Sinks, Sunk

(* Who stops waiting for m lowers others at most, and keeps its priority.   *)
LEMMA LeaveWaitersSinks ==
  ASSUME NEW z, Level(z), NEW c \in Thread, NEW m \in Mutex, z.pending[c] = m,
         z.owner[m] # None => m \in ToSet(z.taken[z.owner[m]])
  PROVE  LET r == LeaveWaiters(z, c, m)
         IN  r.k.cprio[c] = z.k.cprio[c] /\ \A u \in Thread : z.k.cprio[u] <= r.k.cprio[u]
<1> DEFINE z1 == UpdateMutex(z, m)
           o  == z.owner[m]
           p  == MutexPriority(z1, o)
           r  == LeaveWaiters(z, c, m)
<1>1. /\ QueuesOK(z) /\ z \in State /\ z.k.cprio \in [Thread -> Prio] /\ m # None
      /\ (o # None => o \in Thread) /\ Ordered(z, None) /\ Recorded(z, None) /\ Passed(z, None)
  BY StateFields, MutexAssumption DEF Level, QueuesOK, Boosted, Loose
<1>2. /\ Adjusted(z, z1) /\ QueuesOK(z1) /\ Chains(z1) /\ z1.k = z.k /\ z1.taken = z.taken
      /\ z1.pending = z.pending /\ z1.ceil = z.ceil
  BY <1>1, UpdateMutexAdjusts, AdjustedChains DEF Level, Adjusted
<1>3. Boosted(z1)
  <2>1. ASSUME NEW l \in Mutex, NEW w \in ToSet(z.queue[l]) PROVE z.prio[l] <= z.k.cprio[w]
    <3>1. z.queue[l] \in Seq(Thread)
      BY <1>1, StateFields
    <3>2. w # None
      BY <3>1, EmptyList, MutexAssumption
    <3> QED BY <1>1, <3>2 DEF Recorded
  <2> QED BY <1>1, <2>1, UpdateMutexRecords DEF Boosted, Loose
<1> HIDE DEF z1
<1>4. Level(z1)
  BY <1>2, <1>3 DEF Level, Bounded
<1>5. ASSUME NEW u \in Thread PROVE z.k.cprio[u] <= z.k.cprio[u]
  <2>1. z.k.cprio[u] \in Nat
    BY <1>1, PrioNat
  <2> QED BY <2>1
<1>6. ASSUME o # None PROVE p \in Prio /\ z.k.cprio[o] <= p
  <2>1. Sunk(z1, z1) /\ Adjusted(z1, z1)
    <3>1. \A u \in Thread : z1.k.cprio[u] <= z1.k.cprio[u]
      BY <1>2, <1>5
    <3>2. ASSUME NEW j \in Mutex PROVE z1.prio[j] <= z1.prio[j]
      <4>1. z1.prio[j] \in Prio \cup {NoPrio}
        BY <1>2, StateFields DEF QueuesOK
      <4> QED BY <4>1, RecordedNat
    <3> QED BY <1>2, <3>1, <3>2, AdjustedSelf DEF Sunk
  <2> QED BY <1>1, <1>2, <1>4, <1>6, <2>1, MutexPrioritySinks
<1>7. ASSUME o # None PROVE Behind(z1, o, z1.pending[c])
  <2>1. Rank[m] <= Rank[m]
    BY MutexAssumption
  <2> QED BY <1>2, <1>7, <2>1 DEF Behind
<1> DEFINE y == UpdatePriority(z1, o, p)
<1>8. ASSUME o # None
      PROVE  y.k.cprio[c] = z.k.cprio[c] /\ \A u \in Thread : z.k.cprio[u] <= y.k.cprio[u]
  <2> HIDE DEF p, o
  <2> QED BY <1>1, <1>2, <1>4, <1>6, <1>7, <1>8, UpdatePrioritySinks
<1>9. r = z1 \/ (o # None /\ r = y)
  BY <1>2 DEF LeaveWaiters, Refresh, z1
<1> HIDE DEF y, r
<1> QED BY <1>2, <1>8, <1>9, <1>5 DEF r

(* A thread whose wait has failed runs on.                                  *)
LEMMA TakeReturnHighest ==
  ASSUME InheritInv, Memory(s, pc, arg), TakeReturn, ~ Unboosted, HighestRuns
  PROVE  HighestRuns'
<1> DEFINE t == self
           m == arg[t]
           y == LeaveWaiters(s, t, m)
           r == [y EXCEPT !.pending[t] = None]
<1>1. pc[t] = "wait" /\ s' = (IF s.owner[m] = t THEN s ELSE r)
  BY DEF TakeReturn
<1>2. /\ t \in Thread /\ t = s.k.cur /\ m \in Mutex /\ QueuesOK(s) /\ Owned(s, live)
      /\ s.k.nest = 0 /\ s.k.stat[t] = "RUNNING" /\ s.owner \in [Mutex -> Thread \cup {None}]
      /\ s.k.cprio \in [Thread -> Prio]
  BY <1>1, Facts, StateFields DEF InheritInv, self
<1>3. HighestCurrent(s.k)
  BY <1>2 DEF HighestRuns
<1>4. CASE s.owner[m] = t
  BY <1>1, <1>3, <1>4 DEF HighestRuns
<1>5. CASE s.owner[m] # t
  <2>1. s.pending[t] = m
    BY <1>1, <1>2, <1>5 DEF Memory, Recalled
  <2>2. live = Mutex /\ \A j \in Mutex : s.ceil[j] = NoPrio
    BY DEF Unboosted
  <2>3. Level(s)
    BY <1>2, <2>2, ChainsOfOwned DEF Level, InheritInv, Kept, Memory
  <2>4. s.owner[m] # None => m \in ToSet(s.taken[s.owner[m]])
    BY <1>2, <2>2 DEF Owned
  <2> HIDE DEF t, m
  <2>5. y.k.cprio[t] = s.k.cprio[t] /\ \A u \in Thread : s.k.cprio[u] <= y.k.cprio[u]
    BY <1>2, <2>1, <2>3, <2>4, LeaveWaitersSinks
  <2>6. Adjusted(s, y)
    BY <1>2, LeaveWaitersAdjusts
  <2> HIDE DEF y
  <2>7. y \in State /\ y.k.cur = s.k.cur /\ y.k.stat = s.k.stat /\ y.k.cprio \in [Thread -> Prio]
    BY <2>6, StateFields DEF Adjusted, QueuesOK
  <2>8. s'.k = y.k
    BY <1>1, <1>5, <2>7 DEF State
  <2>9. ASSUME NEW u \in Thread, Runnable(y.k, u) PROVE y.k.cprio[t] <= y.k.cprio[u]
    <3>1. s.k.cprio[t] <= s.k.cprio[u]
      BY <1>2, <1>3, <2>7, <2>9 DEF HighestCurrent, Runnable
    <3>2. s.k.cprio[t] \in Nat /\ s.k.cprio[u] \in Nat /\ y.k.cprio[u] \in Nat
      BY <1>2, <2>7, PrioNat
    <3>3. s.k.cprio[u] <= y.k.cprio[u]
      BY <2>5
    <3> QED BY <2>5, <3>1, <3>2, <3>3
  <2>10. HighestCurrent(y.k)
    BY <1>2, <2>7, <2>9 DEF HighestCurrent
  <2> QED BY <2>8, <2>10 DEF HighestRuns
<1> QED BY <1>4, <1>5

(* The owner of a free mutex, which has the CPU, gets more urgent still.    *)
LEMMA TakeFreeHighest ==
  ASSUME MutexInv, NEW m \in Mutex, TakeFree(m), HighestRuns
  PROVE  HighestRuns'
<1> DEFINE t  == self
           c  == s.ceil[m]
           z1 == Seized(m)
           y  == SetThread(z1, t, c)
           z2 == IF c < s.k.cprio[t] THEN UpdatePriority(z1, t, c) ELSE z1
<1>1. s' = [z2 EXCEPT !.taken[t] = Cons(m, @)] /\ pc[t] = "run"
  BY DEF TakeFree, Seized, Calls
<1>2. QueuesOK(z1) /\ z1.k = s.k /\ z1.pending = s.pending
  <2> HIDE DEF y, z2, c, t
  <2> QED BY SeizeKeeps
<1>3. /\ t \in Thread /\ t = s.k.cur /\ s.k.nest = 0 /\ s.k.stat[t] = "RUNNING"
      /\ c \in Prio \cup {NoPrio} /\ s.k.cprio \in [Thread -> Prio] /\ s.pending[t] = None
  <2>1. t \in Thread => (s.pending[t] # None => pc[t] # "run")
    BY Facts DEF Calling
  <2> QED BY <1>1, <2>1, Facts, StateFields DEF self
<1> HIDE DEF z1, t, c
<1>4. HighestCurrent(s.k)
  BY <1>3 DEF HighestRuns
<1>5. ASSUME c < s.k.cprio[t]
      PROVE  z2 = y /\ QueuesOK(y) /\ HighestCurrent(y.k)
  <2>1. s.k.cprio[t] \in Nat /\ NoPrio \in Nat /\ s.k.cprio[t] < NoPrio
    BY <1>3, PrioNat
  <2>2. c \in Prio
    <3>1. c # NoPrio
      BY <1>5, <2>1
    <3> QED BY <1>3, <3>1
  <2>3. z2 = y
    BY <1>2, <1>3, <1>5, <2>2, UpdatePriorityAlone
  <2>4. Adjusted(z1, y) /\ y.k.cprio = [s.k.cprio EXCEPT ![t] = c]
    BY <1>2, <1>3, <2>2, SetThreadAdjusts
  <2> HIDE DEF y
  <2>5. y.k.cur = t /\ y.k.stat = s.k.stat /\ QueuesOK(y)
    BY <1>2, <1>3, <2>4 DEF Adjusted
  <2>6. ASSUME NEW u \in Thread, Runnable(y.k, u) PROVE y.k.cprio[t] <= y.k.cprio[u]
    <3>1. s.k.cprio[t] <= s.k.cprio[u] /\ s.k.cprio[u] \in Nat /\ c \in Nat
      BY <1>3, <1>4, <2>2, <2>5, <2>6, PrioNat DEF HighestCurrent, Runnable
    <3>2. y.k.cprio[t] = c /\ y.k.cprio[u] \in {c, s.k.cprio[u]}
      BY <1>3, <2>4
    <3> QED BY <1>5, <2>1, <3>1, <3>2
  <2>7. HighestCurrent(y.k)
    BY <1>3, <2>5, <2>6 DEF HighestCurrent
  <2> QED BY <2>3, <2>5, <2>7
<1>6. QueuesOK(z2) /\ HighestCurrent(z2.k)
  BY <1>2, <1>4, <1>5
<1> HIDE DEF z2
<1>7. s'.k = z2.k
  BY <1>1, <1>6 DEF QueuesOK, State
<1> QED BY <1>6, <1>7 DEF HighestRuns

(* The call ends with rt_schedule.                                          *)
Rescheduled == \E z : QueuesOK(z) /\ s' = Resched(z)

(* Which gives the CPU to the most urgent thread, and the idle thread can   *)
(* always run.                                                              *)
LEMMA RescheduledHighest ==
  ASSUME MutexInv', Rescheduled
  PROVE  HighestRuns'
<1>1. PICK z : QueuesOK(z) /\ s' = Resched(z)
  BY DEF Rescheduled
<1>2. /\ s'.k.nest = z.k.nest
      /\ \A u \in Thread : Runnable(s'.k, u) <=> Runnable(z.k, u)
      /\ (z.k.nest = 0 /\ \E u \in Thread : Runnable(z.k, u)) => HighestCurrent(s'.k)
  BY <1>1, ReschedKeeps
<1>3. Idle \in Thread /\ Runnable(s'.k, Idle)
  BY MutexAssumption DEF MutexInv, Settles, Consistent, Sched
<1> QED BY <1>2, <1>3 DEF HighestRuns

(* The calls that always reschedule.                                        *)
LEMMA WaitReschedules ==
  ASSUME MutexInv, TakeSchedule \/ Sleep
  PROVE  Rescheduled
<1>1. /\ QueuesOK(s) /\ s \in State /\ self \in Thread /\ s.pending \in [Thread -> Mutex \cup {None}]
  BY Facts, StateFields
<1>2. CASE TakeSchedule
  <2> DEFINE z == [s EXCEPT !.k.nest = 0, !.k.flag = FALSE]
  <2>1. s' = Resched(z)
    BY <1>2 DEF TakeSchedule
  <2>2. QueuesOK(z)
    <3>1. 0 \in Nat /\ FALSE \in BOOLEAN
      OBVIOUS
    <3> QED BY <1>1, <3>1, ZenonT(40), NestKeeps
  <2> HIDE DEF z
  <2> QED BY <2>1, <2>2 DEF Rescheduled
<1>3. CASE Sleep
  <2> DEFINE z == [s EXCEPT !.k = SuspendThread(s.k, self)]
  <2>1. QueuesOK(z) /\ s' = Resched(z)
    BY <1>3, SleepSuspends
  <2> HIDE DEF z
  <2> QED BY <2>1 DEF Rescheduled
<1> QED BY <1>2, <1>3

(* As do those that wake a thread.                                          *)
LEMMA WakeReschedules ==
  ASSUME MutexInv, NEW t \in Thread, Resume(t) \/ Timeout(t)
  PROVE  Rescheduled
<1>1. QueuesOK(s) /\ s \in State
  BY Facts
<1>2. IsSuspended(s.k, t)
  BY Facts DEF Resume, Timeout
<1>3. s' = Resched(Ready(s, t))
  <2>1. Dequeue(s, t).k = s.k
    BY <1>1 DEF Dequeue, State
  <2>2. Ready(s, t) = [Dequeue(s, t) EXCEPT !.k = InsertThread(@, t)]
    BY <1>2, <2>1 DEF Ready, ReadyThread
  <2> QED BY <2>2 DEF Resume, Timeout
<1>4. QueuesOK(Ready(s, t))
  BY <1>1, <1>2, WakeKeeps DEF Wakes
<1> QED BY <1>3, <1>4 DEF Rescheduled

(* And an exit.                                                             *)
LEMMA ExitReschedules ==
  ASSUME MutexInv, Exit
  PROVE  Rescheduled
<1> DEFINE z1 == Close(s, self)
           z  == ReleaseAll(z1, self)
<1>1. s' = Resched(z)
  BY DEF Exit
<1>2. QueuesOK(z1) /\ Owned(z1, live) /\ Calling(z1, pc, arg, err)
  BY ExitCloses
<1>3. self \in Thread
  BY Facts
<1> HIDE DEF z1
<1>4. QueuesOK(z)
  <2> HIDE DEF z
  <2>1. ReleaseTurns(z1, self, live, pc, arg, err)
    BY <1>2, <1>3, ReleaseAllTurns
  <2>2. Len(z1.taken[self]) \in 0 .. Len(z1.taken[self])
    <3>1. z1.taken[self] \in Seq(Mutex)
      BY <1>2, <1>3, StateFields DEF QueuesOK
    <3> QED BY <3>1
  <2> QED BY <2>1, <2>2 DEF ReleaseTurns, z
<1> HIDE DEF z
<1> QED BY <1>1, <1>4 DEF Rescheduled

(* A release does so unless neither the owner's priority nor the list of    *)
(* the threads ready to run has changed.                                    *)
LEMMA ReleaseReschedules ==
  ASSUME MutexInv, NEW m \in Mutex, Release(m)
  PROVE  Rescheduled \/ s'.k = s.k
<1> DEFINE t  == self
           z1 == Unheld(s, t, m)
           z2 == Restore(z1, t, m)
           z  == ReleaseLast(s, t, m)
<1>1. /\ t \in Thread /\ s \in State /\ QueuesOK(s) /\ Owned(s, live) /\ Calling(s, pc, arg, err)
      /\ IsInjective(s.taken[t]) /\ s.owner[m] = t /\ m \in live
  BY Facts DEF Release, Owned
<1>2. CASE s.hold[m] > 1
  <2>1. s'.k = s.k
    BY <1>1, <1>2 DEF Release, State
  <2> QED BY <2>1
<1>3. CASE ~ s.hold[m] > 1
  <2>1. s' = IF s.queue[m] # <<>> \/ Restores(s, t, m) THEN Resched(z) ELSE z
    BY <1>3 DEF Release
  <2>2. QueuesOK(z)
    <3> HIDE DEF t
    <3> QED BY <1>1, ReleaseKeeps
  <2>3. z = HandOver(z2, m)
    BY DEF ReleaseLast, Unheld
  <2>4. /\ QueuesOK(z1) /\ z1.k = s.k /\ z1.queue = s.queue /\ z1.ceil = s.ceil
        /\ z1.prio = s.prio
    <3> HIDE DEF t, z, z2
    <3>1. LET x == Unheld(s, t, m)
          IN  /\ QueuesOK(x)
              /\ x.k = s.k /\ x.queue = s.queue /\ x.owner = s.owner /\ x.prio = s.prio
              /\ x.ceil = s.ceil /\ x.pending = s.pending
              /\ x.hold = [s.hold EXCEPT ![m] = 0]
              /\ x.taken = [s.taken EXCEPT ![t] = RemoveFirst(s.taken[t], m)]
      BY <1>1, UnheldKeeps
    <3> QED BY <3>1
  <2> HIDE DEF z, z1, t
  <2>5. CASE s.queue[m] # <<>> \/ Restores(s, t, m)
    BY <2>1, <2>2, <2>5 DEF Rescheduled
  <2>6. CASE ~ (s.queue[m] # <<>> \/ Restores(s, t, m))
    <3>1. z2 = z1
      BY <2>4, <2>6 DEF Restore, Restores
    <3>2. z.k = s.k
      BY <2>3, <2>4, <2>6, <3>1 DEF HandOver, QueuesOK, State
    <3> QED BY <2>1, <2>6, <3>2
  <2> QED BY <2>5, <2>6
<1> QED BY <1>2, <1>3

(* No step but the ones that change priorities or wake threads without      *)
(* rescheduling takes the CPU from the most urgent thread.                  *)
LEMMA NextHighest ==
  ASSUME InheritInv, Memory(s, pc, arg), InheritInv', [Next]_vars, HighestRuns
  PROVE  HighestRuns' \/ Unscheduled
<1>1. MutexInv /\ MutexInv' /\ s \in State
  BY Facts DEF InheritInv
<1>2. CASE s'.k = s.k
  BY <1>2 DEF HighestRuns
<1>3. CASE Rescheduled
  BY <1>1, <1>3, RescheduledHighest
<1>4. ASSUME NEW m \in Mutex,
             \/ TakeAgain(m) \/ TakeFree(m) \/ Release(m) \/ Detach(m)
             \/ \E w \in Waits : TakeBusy(m, w)
             \/ \E p \in Ceilings : SetCeiling(m, p)
      PROVE  HighestRuns' \/ Unscheduled
  <2>1. CASE TakeAgain(m)
    BY <1>1, <1>2, <2>1 DEF TakeAgain, State
  <2>2. CASE TakeFree(m)
    BY <1>1, <2>2, TakeFreeHighest
  <2>3. CASE Release(m)
    BY <1>1, <1>2, <1>3, <2>3, ReleaseReschedules
  <2>4. CASE Detach(m) \/ \E p \in Ceilings : SetCeiling(m, p)
    BY <2>4 DEF Unscheduled
  <2>5. ASSUME NEW w \in Waits, TakeBusy(m, w) PROVE HighestRuns'
    <3>1. s'.k.nest = 1
      BY <1>1, <2>5, TakeBusyRemembers
    <3> QED BY <3>1 DEF HighestRuns
  <2> QED BY <1>4, <2>1, <2>2, <2>3, <2>4, <2>5
<1>5. ASSUME NEW t \in Thread, Delete(t) \/ Resume(t) \/ Timeout(t)
      PROVE  HighestRuns' \/ Unscheduled
  BY <1>1, <1>3, <1>5, WakeReschedules DEF Unscheduled
<1>6. CASE TakeReturn
  BY <1>6, TakeReturnHighest DEF Unscheduled
<1>7. CASE TakeSchedule \/ Sleep \/ Exit
  BY <1>1, <1>3, <1>7, WaitReschedules, ExitReschedules
<1>8. CASE UNCHANGED vars
  BY <1>2, <1>8 DEF vars
<1> QED BY <1>4, <1>5, <1>6, <1>7, <1>8 DEF Next

(* With mutexes taken in a strict order, the thread in its own code stays a *)
(* runnable one of the highest priority, whatever boosts begin and end,     *)
(* except where the code does not reschedule: rt_mutex_setprioceiling,      *)
(* rt_mutex_detach, rt_thread_delete, and the end of a wait that gives the  *)
(* owner a boost it lacked (HighestKept).                                   *)
THEOREM HighestRunsOn == ASSUME StrictRank PROVE Spec => HighestKept
<1> DEFINE Inv == InheritInv /\ Memory(s, pc, arg)
<1>1. Init => Inv
  BY InitInherit, InitRemembers
<1>2. Inv /\ [Next]_vars => Inv'
  BY NextInherits, NextRemembers DEF InheritInv
<1>3. ASSUME Inv, Inv', [Next]_vars PROVE HighestRuns => HighestRuns' \/ Unscheduled
  BY <1>3, NextHighest
<1> QED BY <1>1, <1>2, <1>3, PTL DEF Spec, HighestKept
=============================================================================
