------------------------------ MODULE IpcProofs ------------------------------
(***************************************************************************)
(* The objects threads wait for, for any number of threads and handlers of *)
(* which none interrupts the tick interrupt: what waking and suspending do *)
(* to the wait lists, and for each object the invariant that leaves nobody *)
(* asleep beside what it waits for.                                        *)
(***************************************************************************)
EXTENDS Ipc, QueueLemmas

INSTANCE Waiting

(* The wait lists hold suspended threads, each in one place; a timer runs   *)
(* only for a suspended thread.                                             *)
ListsOK(v) ==
  /\ v \in WState
  /\ \A l \in List : IsInjective(v.list[l]) /\ ToSet(v.list[l]) \subseteq v.susp
  /\ \A l, m \in List : l # m => ToSet(v.list[l]) \cap ToSet(v.list[m]) = {}
  /\ \A t \in Thread : v.timer[t] # "off" => t \in v.susp

(* No time-out is under way.                                                *)
Calm(v) == \A t \in Thread : v.timer[t] \in {"off", "armed"}

(* The thread t is taken from v, and nobody else is touched.                *)
Freed(v, r, t) ==
  /\ ListsOK(r)
  /\ r.susp = v.susp \ {t}
  /\ r.timer = [v.timer EXCEPT ![t] = "off"]
  /\ \A l \in List : ToSet(r.list[l]) = ToSet(v.list[l]) \ {t}

(* The thread t is suspended, in whatever list it is.                       *)
Suspended(v, r, t, e, wait) ==
  /\ ListsOK(r)
  /\ r.susp = v.susp \cup {t} /\ r.list = v.list
  /\ r.err = [v.err EXCEPT ![t] = e]
  /\ r.timer = [v.timer EXCEPT ![t] = IF wait = "finite" THEN "armed" ELSE "off"]
  /\ Calm(v) => Calm(r)

(* The thread t sleeps in the list l of v, with the error e.                *)
Slept(v, r, t, l, e) ==
  /\ ListsOK(r)
  /\ r.susp = v.susp \cup {t}
  /\ r.err = [v.err EXCEPT ![t] = e]
  /\ Calm(v) => Calm(r)
  /\ ToSet(r.list[l]) = ToSet(v.list[l]) \cup {t}
  /\ \A m \in List \ {l} : r.list[m] = v.list[m]

(* The first thread of the list l has been woken with the error e.          *)
Dequeued(v, r, t, e) ==
  /\ Freed(v, r, t) /\ Calm(r) /\ r.err = [v.err EXCEPT ![t] = e]
  /\ \A m \in List : r.list[m] = RemoveFirst(v.list[m], t)

(* The threads of the list l of v have been woken with the error e.         *)
Emptied(v, r, l, e) ==
  /\ ListsOK(r) /\ Calm(r)
  /\ r.susp = v.susp \ ToSet(v.list[l])
  /\ r.err = [t \in Thread |-> IF t \in ToSet(v.list[l]) THEN e ELSE v.err[t]]
  /\ r.list[l] = <<>>
  /\ \A m \in List \ {l} : r.list[m] = v.list[m]

(* The fields of the record.                                                *)
LEMMA WFields ==
  ASSUME NEW v \in WState
  PROVE  /\ v.list \in [List -> Seq(Thread)] /\ v.susp \in SUBSET Thread
         /\ v.err \in [Thread -> Error]
         /\ v.timer \in [Thread -> {"off", "armed", "firing", "missed"}]
  BY DEF WState

(* A thread is taken from the lists.                                        *)
LEMMA UnlinkKeeps ==
  ASSUME NEW v, ListsOK(v), NEW t \in Thread
  PROVE  LET r == Unlink(v, t)
         IN  /\ r \in WState
             /\ r.susp = v.susp /\ r.err = v.err /\ r.timer = v.timer
             /\ \A l \in List : /\ r.list[l] = RemoveFirst(v.list[l], t)
                                /\ IsInjective(r.list[l])
                                /\ ToSet(r.list[l]) = ToSet(v.list[l]) \ {t}
<1> DEFINE f == [l \in List |-> RemoveFirst(v.list[l], t)]
           r == Unlink(v, t)
<1>1. v \in WState /\ v.list \in [List -> Seq(Thread)]
  BY DEF ListsOK, WState
<1>2. \A l \in List : /\ RemoveFirst(v.list[l], t) \in Seq(Thread)
                      /\ IsInjective(RemoveFirst(v.list[l], t))
                      /\ ToSet(RemoveFirst(v.list[l], t)) = ToSet(v.list[l]) \ {t}
  BY <1>1, RemoveFirstProperties DEF ListsOK
<1>3. f \in [List -> Seq(Thread)]
  BY <1>2
<1>4. r = [v EXCEPT !.list = f]
  BY DEF Unlink
<1> HIDE DEF r, f
<1>5. r \in WState /\ r.list = f /\ r.susp = v.susp /\ r.err = v.err /\ r.timer = v.timer
  BY <1>1, <1>3, <1>4 DEF WState
<1>6. \A l \in List : r.list[l] = RemoveFirst(v.list[l], t)
  BY <1>5 DEF f
<1> QED BY <1>2, <1>5, <1>6 DEF r

(* A record in which t has left the lists, is not suspended and has no      *)
(* timer.                                                                   *)
LEMMA FreedKeeps ==
  ASSUME NEW v, ListsOK(v), NEW t \in Thread, NEW r \in WState,
         r.susp = v.susp \ {t}, r.timer = [v.timer EXCEPT ![t] = "off"],
         \A l \in List : /\ IsInjective(r.list[l])
                         /\ ToSet(r.list[l]) = ToSet(v.list[l]) \ {t}
  PROVE  Freed(v, r, t)
<1>1. v.timer \in [Thread -> {"off", "armed", "firing", "missed"}]
  BY DEF ListsOK, WState
<1>2. \A u \in Thread : r.timer[u] # "off" => u \in r.susp
  BY <1>1 DEF ListsOK
<1>3. ListsOK(r)
  BY <1>2 DEF ListsOK
<1> QED BY <1>3 DEF Freed

(* rt_sched_thread_ready of a thread whose time-out is not under way.       *)
LEMMA ReadyFrees ==
  ASSUME NEW v, ListsOK(v), NEW t \in v.susp, v.timer[t] \in {"off", "armed"}
  PROVE  LET r == Ready(v, t)
         IN  /\ t \in Thread /\ Freed(v, r, t) /\ r.err = v.err
             /\ \A l \in List : r.list[l] = RemoveFirst(v.list[l], t)
<1> DEFINE u == Unlink(v, t)
           r == Ready(v, t)
<1>1. t \in Thread /\ v.timer \in [Thread -> {"off", "armed", "firing", "missed"}]
  BY DEF ListsOK, WState
<1>2. /\ u \in WState
      /\ u.susp = v.susp /\ u.err = v.err /\ u.timer = v.timer
      /\ \A l \in List : /\ u.list[l] = RemoveFirst(v.list[l], t)
                         /\ IsInjective(u.list[l])
                         /\ ToSet(u.list[l]) = ToSet(v.list[l]) \ {t}
  BY <1>1, UnlinkKeeps
<1>3. CanReady(v, t)
  BY DEF CanReady
<1>4. r = [u EXCEPT !.susp = u.susp \ {t}, !.timer[t] = "off"]
  <2>1. u.timer[t] # "missed"
    BY <1>2
  <2> QED BY <1>3, <2>1 DEF Ready
<1> HIDE DEF u, r
<1>5. r = [u EXCEPT !.susp = u.susp \ {t}, !.timer = [u.timer EXCEPT ![t] = "off"]]
  BY <1>4
<1>6. /\ r \in WState /\ r.susp = v.susp \ {t} /\ r.timer = [v.timer EXCEPT ![t] = "off"]
      /\ r.list = u.list /\ r.err = u.err
  <2>1. [v.timer EXCEPT ![t] = "off"] \in [Thread -> {"off", "armed", "firing", "missed"}]
    BY <1>1
  <2>2. u.susp \ {t} \in SUBSET Thread
    BY <1>2, WFields
  <2> QED BY <1>2, <1>5, <2>1, <2>2 DEF WState
<1>7. Freed(v, r, t)
  <2>1. \A l \in List : /\ IsInjective(r.list[l])
                        /\ ToSet(r.list[l]) = ToSet(v.list[l]) \ {t}
    BY <1>2, <1>6
  <2> QED BY <1>1, <1>6, <2>1, FreedKeeps
<1> QED BY <1>1, <1>2, <1>6, <1>7 DEF r

-----------------------------------------------------------------------------
(* Suspending. *)

(* rt_susp_list_enqueue puts the thread somewhere into the list.            *)
LEMMA EnqueueAdds ==
  ASSUME NEW list \in Seq(Thread), IsInjective(list),
         NEW t \in Thread, t \notin ToSet(list), NEW flag
  PROVE  /\ Enqueue(list, t, flag) \in Seq(Thread)
         /\ IsInjective(Enqueue(list, t, flag))
         /\ ToSet(Enqueue(list, t, flag)) = ToSet(list) \cup {t}
<1> DEFINE lower == {i \in DOMAIN list : flag = "PRIO" /\ Priority[t] < Priority[list[i]]}
           G == lower \cup {Len(list) + 1}
<1>1. G \in SUBSET Nat /\ G # {} /\ G \subseteq 1 .. Len(list) + 1
  OBVIOUS
<1>2. PICK p \in G : \A q \in G : p <= q
  <2> HIDE DEF G
  <2> QED BY <1>1, LeastPrio
<1> HIDE DEF G
<1>3. Min(G) \in G
  BY <1>2 DEF Min
<1>4. Min(G) \in 1 .. Len(list) + 1
  BY <1>1, <1>3
<1>5. Enqueue(list, t, flag) = InsertAt(list, Min(G), t)
  BY DEF Enqueue, G
<1> QED BY <1>4, <1>5, InsertAtProperties, InsertAtInjective

(* rt_thread_suspend_with_flag of a running thread.                         *)
LEMMA SuspendSleeps ==
  ASSUME NEW v, ListsOK(v), NEW t \in Thread, NEW e \in Error, NEW wait
  PROVE  Suspended(v, Suspend(v, t, e, wait), t, e, wait)
<1> DEFINE r == Suspend(v, t, e, wait)
           T == {"off", "armed", "firing", "missed"}
           s == [v.timer EXCEPT ![t] = IF wait = "finite" THEN "armed" ELSE "off"]
<1>1. /\ v \in WState /\ v.timer \in [Thread -> T] /\ v.susp \in SUBSET Thread
      /\ v.err \in [Thread -> Error]
  BY WFields DEF ListsOK
<1>2. s \in [Thread -> T] /\ [v.err EXCEPT ![t] = e] \in [Thread -> Error]
  BY <1>1
<1>3. r = [v EXCEPT !.err = [v.err EXCEPT ![t] = e], !.susp = v.susp \cup {t}, !.timer = s]
  BY DEF Suspend
<1>4. \A u \in Thread : s[u] # "off" => u \in v.susp \cup {t}
  BY <1>1 DEF ListsOK
<1>5. Calm(v) => \A u \in Thread : s[u] \in {"off", "armed"}
  BY <1>1 DEF Calm
<1> HIDE DEF r, s
<1>6. /\ r \in WState /\ r.susp = v.susp \cup {t} /\ r.list = v.list
      /\ r.err = [v.err EXCEPT ![t] = e] /\ r.timer = s
  BY <1>1, <1>2, <1>3 DEF WState
<1>7. ListsOK(r)
  BY <1>1, <1>4, <1>6 DEF ListsOK
<1>8. Calm(v) => Calm(r)
  BY <1>5, <1>6 DEF Calm
<1> QED BY <1>6, <1>7, <1>8 DEF Suspended, r, s

(* rt_thread_suspend_to_list of a running thread.                           *)
LEMMA SuspendToSleeps ==
  ASSUME NEW v, ListsOK(v), NEW t \in Thread, t \notin v.susp, NEW l \in List,
         NEW flag, NEW e \in Error, NEW wait
  PROVE  Slept(v, SuspendTo(v, t, l, flag, e, wait), t, l, e)
<1> DEFINE u == Suspend(v, t, e, wait)
           q == Enqueue(u.list[l], t, flag)
           r == SuspendTo(v, t, l, flag, e, wait)
<1>0. Suspended(v, u, t, e, wait)
  BY SuspendSleeps
<1>3. r = [u EXCEPT !.list = [u.list EXCEPT ![l] = q]]
  BY DEF SuspendTo
<1> HIDE DEF r, u
<1>1. /\ ListsOK(u) /\ u.susp = v.susp \cup {t} /\ u.list = v.list
      /\ u.err = [v.err EXCEPT ![t] = e] /\ (Calm(v) => Calm(u))
  BY <1>0 DEF Suspended
<1>2. /\ v.list[l] \in Seq(Thread) /\ t \notin ToSet(v.list[l]) /\ IsInjective(v.list[l])
      /\ \A m \in List : t \notin ToSet(v.list[m])
  BY WFields DEF ListsOK
<1>4. q \in Seq(Thread) /\ IsInjective(q) /\ ToSet(q) = ToSet(v.list[l]) \cup {t}
  BY <1>1, <1>2, EnqueueAdds
<1> HIDE DEF q
<1>5. u \in WState /\ u.list \in [List -> Seq(Thread)]
  BY <1>1, WFields DEF ListsOK
<1>6. [u.list EXCEPT ![l] = q] \in [List -> Seq(Thread)]
  BY <1>4, <1>5
<1>7. /\ r \in WState /\ r.list = [u.list EXCEPT ![l] = q] /\ r.susp = u.susp
      /\ r.err = u.err /\ r.timer = u.timer
  BY <1>3, <1>5, <1>6 DEF WState
<1>8. r.list[l] = q /\ \A m \in List \ {l} : r.list[m] = v.list[m]
  BY <1>1, <1>5, <1>7
<1>9. ListsOK(r)
  <2>1. \A m \in List : IsInjective(r.list[m]) /\ ToSet(r.list[m]) \subseteq r.susp
    <3> SUFFICES ASSUME NEW m \in List
                 PROVE  IsInjective(r.list[m]) /\ ToSet(r.list[m]) \subseteq r.susp
      OBVIOUS
    <3>1. CASE m = l
      BY <1>1, <1>4, <1>7, <1>8, <3>1 DEF ListsOK
    <3>2. CASE m # l
      BY <1>1, <1>7, <1>8, <3>2 DEF ListsOK
    <3> QED BY <3>1, <3>2
  <2>2. \A m, n \in List : m # n => ToSet(r.list[m]) \cap ToSet(r.list[n]) = {}
    <3>1. \A m \in List \ {l} : ToSet(r.list[m]) \cap ToSet(q) = {}
      BY <1>2, <1>4, <1>8 DEF ListsOK
    <3>2. \A m, n \in List \ {l} : m # n => ToSet(r.list[m]) \cap ToSet(r.list[n]) = {}
      BY <1>8 DEF ListsOK
    <3> QED BY <1>8, <3>1, <3>2
  <2>3. \A x \in Thread : r.timer[x] # "off" => x \in r.susp
    BY <1>1, <1>7 DEF ListsOK
  <2> QED BY <1>7, <2>1, <2>2, <2>3 DEF ListsOK
<1>10. Calm(v) => Calm(r)
  BY <1>1, <1>7 DEF Calm
<1> QED BY <1>1, <1>4, <1>7, <1>8, <1>9, <1>10 DEF Slept, r

-----------------------------------------------------------------------------
(* Waking. *)

(* rt_susp_list_dequeue of a list with threads.                             *)
LEMMA DequeueFrees ==
  ASSUME NEW v, ListsOK(v), Calm(v), NEW l \in List, v.list[l] # <<>>, NEW e \in Error
  PROVE  /\ Head(v.list[l]) \in ToSet(v.list[l]) /\ Head(v.list[l]) \in v.susp
         /\ Head(v.list[l]) \in Thread
         /\ Dequeued(v, Dequeue(v, l, e), Head(v.list[l]), e)
<1> DEFINE t == Head(v.list[l])
           u == Ready(v, t)
           r == Dequeue(v, l, e)
<1>1. v \in WState /\ v.list[l] \in Seq(Thread)
      /\ v.timer \in [Thread -> {"off", "armed", "firing", "missed"}]
  BY WFields DEF ListsOK
<1>2. t \in ToSet(v.list[l]) /\ t \in v.susp /\ t \in Thread
  BY <1>1, EmptyList DEF ListsOK
<1>3. v.timer[t] \in {"off", "armed"}
  BY <1>2 DEF Calm
<1>4. CanReady(v, t)
  BY <1>2, <1>3 DEF CanReady
<1>5. r = [u EXCEPT !.err[t] = e]
  BY <1>4 DEF Dequeue
<1> HIDE DEF r, u, t
<1>6. /\ Freed(v, u, t) /\ u.err = v.err /\ \A m \in List : u.list[m] = RemoveFirst(v.list[m], t)
  BY <1>2, <1>3, ReadyFrees DEF u
<1>7. u \in WState /\ u.err \in [Thread -> Error]
  BY <1>6, WFields DEF Freed, ListsOK
<1>8. r = [u EXCEPT !.err = [u.err EXCEPT ![t] = e]]
  BY <1>5
<1>9. /\ r \in WState /\ r.list = u.list /\ r.susp = u.susp /\ r.timer = u.timer
      /\ r.err = [u.err EXCEPT ![t] = e]
  <2>1. [u.err EXCEPT ![t] = e] \in [Thread -> Error]
    BY <1>7
  <2> QED BY <1>7, <1>8, <2>1 DEF WState
<1>10. ListsOK(r)
  BY <1>6, <1>9 DEF Freed, ListsOK
<1>11. Freed(v, r, t)
  BY <1>6, <1>9, <1>10 DEF Freed
<1>12. Calm(r)
  BY <1>1, <1>6, <1>9 DEF Freed, Calm
<1>13. Dequeued(v, r, t, e)
  BY <1>6, <1>9, <1>11, <1>12 DEF Dequeued
<1> QED BY <1>2, <1>13 DEF r, t

(* What is left of a list when its first threads are gone.                  *)
Rest(q, n) == SubSeq(q, n + 1, Len(q))
First(q, n) == {q[i] : i \in 1 .. n}

(* Taking the first of the rest leaves the rest behind it.                  *)
LEMMA RestShrinks ==
  ASSUME NEW S, NEW q \in Seq(S), IsInjective(q), NEW n \in 1 .. Len(q)
  PROVE  /\ Rest(q, n - 1) \in Seq(S) /\ IsInjective(Rest(q, n - 1))
         /\ Rest(q, n - 1) # <<>> /\ Head(Rest(q, n - 1)) = q[n]
         /\ RemoveFirst(Rest(q, n - 1), q[n]) = Rest(q, n)
<1> DEFINE s == Rest(q, n - 1)
           r == Rest(q, n)
           x == RemoveFirst(s, s[1])
<1>1. n \in Nat /\ 1 <= n /\ n <= Len(q) /\ Len(q) \in Nat /\ DOMAIN q = 1 .. Len(q)
  OBVIOUS
<1>2. /\ s \in Seq(S) /\ Len(s) = Len(q) - n + 1
      /\ \A j \in 1 .. Len(q) - n + 1 : s[j] = q[n + j - 1]
  BY <1>1 DEF Rest
<1>3. /\ r \in Seq(S) /\ Len(r) = Len(q) - n
      /\ \A j \in 1 .. Len(q) - n : r[j] = q[n + j]
  <2> DEFINE N == Len(q)
  <2>1. r = SubSeq(q, n + 1, N)
    BY DEF Rest
  <2>2. n + 1 \in Int /\ N \in Int /\ \A j \in n + 1 .. N : q[j] \in S
    BY <1>1
  <2>3. Len(SubSeq(q, n + 1, N)) = N - n /\ SubSeq(q, n + 1, N) \in Seq(S)
    <3>1. /\ SubSeq(q, n + 1, N) \in Seq(S)
          /\ Len(SubSeq(q, n + 1, N)) = IF n + 1 <= N THEN N - (n + 1) + 1 ELSE 0
      BY <2>2, SubSeqProperties
    <3>2. n <= N /\ n \in Nat /\ N \in Nat
      BY <1>1
    <3> HIDE DEF N
    <3>3. (IF n + 1 <= N THEN N - (n + 1) + 1 ELSE 0) = N - n
      BY <3>2
    <3> QED BY <3>1, <3>3
  <2>4. \A j \in 1 .. N - n : SubSeq(q, n + 1, N)[j] = q[n + j]
    BY <1>1, <2>2
  <2> HIDE DEF r
  <2> QED BY <2>1, <2>3, <2>4
<1> HIDE DEF s, r
<1>4. IsInjective(s)
  <2> SUFFICES ASSUME NEW i \in 1 .. Len(q) - n + 1, NEW j \in 1 .. Len(q) - n + 1, s[i] = s[j]
               PROVE  i = j
    BY <1>2 DEF IsInjective
  <2>1. n + i - 1 \in DOMAIN q /\ n + j - 1 \in DOMAIN q /\ q[n + i - 1] = q[n + j - 1]
    BY <1>1, <1>2
  <2>2. n + i - 1 = n + j - 1
    BY <2>1 DEF IsInjective
  <2> QED BY <1>1, <2>2
<1>5. s # <<>> /\ Head(s) = q[n] /\ s[1] = q[n] /\ 1 \in 1 .. Len(s)
  BY <1>1, <1>2
<1>6. /\ x \in Seq(S) /\ Len(x) = Len(s) - 1
      /\ \A j \in 1 .. Len(s) - 1 : x[j] = IF j < 1 THEN s[j] ELSE s[j + 1]
  BY <1>2, <1>4, <1>5, RemoveFirstPlaces
<1> HIDE DEF x
<1>7. x = r
  <2>1. Len(x) = Len(r) /\ \A j \in 1 .. Len(r) : x[j] = r[j]
    BY <1>1, <1>2, <1>3, <1>6
  <2>2. x \in Seq(S) /\ r \in Seq(S)
    BY <1>3, <1>6
  <2> QED BY <2>1, <2>2, SeqEqual
<1> QED BY <1>2, <1>4, <1>5, <1>7 DEF s, r, x

(* The first n threads of the list have been woken with the error e.        *)
Walked(v, l, e, n) ==
  {u \in WState :
    /\ ListsOK(u) /\ Calm(u)
    /\ u.list[l] = Rest(v.list[l], n)
    /\ \A m \in List \ {l} : u.list[m] = v.list[m]
    /\ u.susp = v.susp \ First(v.list[l], n)
    /\ u.err = [t \in Thread |-> IF t \in First(v.list[l], n) THEN e ELSE v.err[t]]}

(* A round of rt_susp_list_resume_all.                                      *)
LEMMA RoundWakes ==
  ASSUME NEW v, ListsOK(v), NEW l \in List, NEW e \in Error,
         NEW n \in 1 .. Len(v.list[l]), NEW u \in Walked(v, l, e, n - 1)
  PROVE  /\ u.list[l] # <<>> /\ Head(u.list[l]) = v.list[l][n]
         /\ Dequeue(u, l, e) \in Walked(v, l, e, n)
<1> DEFINE q == v.list[l]
           t == q[n]
           r == Dequeue(u, l, e)
<1>1. /\ v \in WState /\ q \in Seq(Thread) /\ IsInjective(q) /\ v.err \in [Thread -> Error]
  BY WFields DEF ListsOK
<1>2. /\ ListsOK(u) /\ Calm(u) /\ u \in WState
      /\ u.list[l] = Rest(q, n - 1)
      /\ \A m \in List \ {l} : u.list[m] = v.list[m]
      /\ u.susp = v.susp \ First(q, n - 1)
      /\ u.err = [x \in Thread |-> IF x \in First(q, n - 1) THEN e ELSE v.err[x]]
  BY DEF Walked
<1> HIDE DEF q
<1>3. n \in 1 .. Len(q)
  BY DEF q
<1>4. u.list[l] # <<>> /\ Head(u.list[l]) = t /\ RemoveFirst(u.list[l], t) = Rest(q, n)
  BY <1>1, <1>2, <1>3, RestShrinks
<1>a. t \in Thread /\ t \in ToSet(u.list[l]) /\ Dequeued(u, r, t, e)
  <2>1. /\ Head(u.list[l]) \in ToSet(u.list[l]) /\ Head(u.list[l]) \in Thread
        /\ Dequeued(u, r, Head(u.list[l]), e)
    BY <1>2, <1>4, DequeueFrees
  <2> HIDE DEF r, t
  <2> QED BY <1>4, <2>1
<1> HIDE DEF r, t
<1>5. /\ t \in Thread /\ t \in ToSet(u.list[l])
      /\ Freed(u, r, t) /\ Calm(r) /\ r.err = [u.err EXCEPT ![t] = e]
      /\ \A m \in List : r.list[m] = RemoveFirst(u.list[m], t)
  BY <1>a DEF Dequeued
<1>6. First(q, n) = First(q, n - 1) \cup {t}
  <2>1. n \in Nat /\ 1 .. n = (1 .. n - 1) \cup {n}
    BY <1>1, <1>3
  <2> QED BY <2>1 DEF First, t
<1>7. r \in WState /\ ListsOK(r) /\ r.susp = v.susp \ First(q, n)
  BY <1>2, <1>5, <1>6 DEF Freed, ListsOK
<1>8. r.list[l] = Rest(q, n)
  BY <1>4, <1>5
<1>9. \A m \in List \ {l} : r.list[m] = v.list[m]
  <2> SUFFICES ASSUME NEW m \in List \ {l} PROVE r.list[m] = v.list[m]
    OBVIOUS
  <2>1. u.list[m] \in Seq(Thread)
    BY <1>2, WFields
  <2>3. t \notin ToSet(u.list[m])
    <3>1. ToSet(u.list[m]) \cap ToSet(u.list[l]) = {}
      BY <1>2 DEF ListsOK
    <3> QED BY <1>5, <3>1
  <2>2. RemoveFirst(u.list[m], t) = u.list[m]
    BY <2>1, <2>3, RemoveAbsent
  <2> QED BY <1>2, <1>5, <2>2
<1>10. r.err = [x \in Thread |-> IF x \in First(q, n) THEN e ELSE v.err[x]]
  BY <1>1, <1>2, <1>5, <1>6
<1>11. r \in Walked(v, l, e, n)
  BY <1>5, <1>7, <1>8, <1>9, <1>10 DEF Walked, q
<1> QED BY <1>4, <1>11 DEF r, t, q

(* A walk of N rounds that starts with a; its round n takes what is in      *)
(* P[n - 1] to what is in P[n].                                             *)
WalkEnds(N, a, g, P) ==
  \E f : /\ f = [n \in 0 .. N |-> f[n]] /\ f[0] = a
         /\ \A n \in 1 .. N : f[n] = g[n][f[n - 1]]
         /\ \A n \in 0 .. N : f[n] \in P[n]

(* There is one, if each round keeps to P.                                  *)
LEMMA WalkExists ==
  ASSUME NEW N \in Nat, NEW a, NEW g, NEW P, a \in P[0],
         \A n \in 1 .. N : \A u \in P[n - 1] : g[n][u] \in P[n]
  PROVE  WalkEnds(N, a, g, P)
<1>1. LoopRuns(N, a, g)
  BY LoopExists
<1>2. PICK f : /\ f = [n \in 0 .. N |-> f[n]] /\ f[0] = a
               /\ \A n \in 1 .. N : f[n] = g[n][f[n - 1]]
  BY <1>1 DEF LoopRuns
<1>3. f[0] \in P[0] /\ \A n \in 1 .. N : f[n - 1] \in P[n - 1] => f[n] \in P[n]
  BY <1>2
<1>4. \A n \in 0 .. N : f[n] \in P[n]
  BY <1>3, LoopKeeps
<1> QED BY <1>2, <1>4 DEF WalkEnds

(* The whole walk.                                                          *)
LEMMA ResumeAllEmpties ==
  ASSUME NEW v, ListsOK(v), Calm(v), NEW l \in List, NEW e \in Error
  PROVE  Emptied(v, ResumeAll(v, l, e), l, e)
<1> DEFINE q == v.list[l]
           N == Len(q)
           one(u, t) == IF u.list[l] # <<>> /\ Head(u.list[l]) = t THEN Dequeue(u, l, e) ELSE u
           P == [n \in 0 .. N |-> Walked(v, l, e, n)]
           g == [n \in 1 .. N |-> [u \in P[n - 1] |-> one(u, q[n])]]
           IsWalk(f) == f = [n \in 0 .. N |-> IF n = 0 THEN v ELSE one(f[n - 1], q[n])]
           walk == CHOOSE f : IsWalk(f)
<1>1. v \in WState /\ q \in Seq(Thread) /\ N \in Nat /\ v.err \in [Thread -> Error]
  BY WFields DEF ListsOK
<1>2. v \in P[0]
  <2>1. First(q, 0) = {} /\ Rest(q, 0) = q
    BY <1>1 DEF First, Rest
  <2>2. v.err = [t \in Thread |-> v.err[t]]
    BY <1>1
  <2>3. v \in Walked(v, l, e, 0)
    BY <1>1, <2>1, <2>2 DEF Walked
  <2> QED BY <1>1, <2>3
<1>3. \A n \in 1 .. N : \A u \in P[n - 1] : one(u, q[n]) \in P[n]
  <2> SUFFICES ASSUME NEW n \in 1 .. N, NEW u \in P[n - 1] PROVE one(u, q[n]) \in P[n]
    OBVIOUS
  <2>1. n - 1 \in 0 .. N /\ n \in 0 .. N
    BY <1>1
  <2>2. u \in Walked(v, l, e, n - 1)
    BY <2>1
  <2>3. /\ u.list[l] # <<>> /\ Head(u.list[l]) = v.list[l][n]
        /\ Dequeue(u, l, e) \in Walked(v, l, e, n)
    BY <2>2, RoundWakes
  <2> QED BY <2>1, <2>3
<1>4. ResumeAll(v, l, e) = walk[N]
  BY DEF ResumeAll, ForEach
<1> HIDE DEF N, P, one
<1>5. \E f : IsWalk(f) /\ f[N] \in P[N]
  <2>1. \A n \in 1 .. N : \A u \in P[n - 1] : g[n][u] = one(u, q[n])
    OBVIOUS
  <2>2. \A n \in 1 .. N : \A u \in P[n - 1] : g[n][u] \in P[n]
    BY <1>3, <2>1
  <2> HIDE DEF g
  <2>3. WalkEnds(N, v, g, P)
    BY <1>1, <1>2, <2>2, WalkExists
  <2>4. PICK f : /\ f = [n \in 0 .. N |-> f[n]] /\ f[0] = v
                 /\ \A n \in 1 .. N : f[n] = g[n][f[n - 1]]
                 /\ \A n \in 0 .. N : f[n] \in P[n]
    BY <2>3 DEF WalkEnds
  <2>5. \A n \in 1 .. N : f[n] = one(f[n - 1], q[n])
    <3> SUFFICES ASSUME NEW n \in 1 .. N PROVE f[n] = one(f[n - 1], q[n])
      OBVIOUS
    <3>1. n - 1 \in 0 .. N
      BY <1>1
    <3>2. f[n - 1] \in P[n - 1] /\ f[n] = g[n][f[n - 1]]
      BY <2>4, <3>1
    <3> QED BY <2>1, <3>2
  <2> DEFINE h == [n \in 0 .. N |-> IF n = 0 THEN v ELSE one(f[n - 1], q[n])]
  <2>6. h = [n \in 0 .. N |-> h[n]] /\ \A n \in 0 .. N : h[n] = f[n]
    BY <1>1, <2>4, <2>5
  <2>7. f = h
    <3> HIDE DEF h
    <3> QED BY <2>4, <2>6
  <2>8. IsWalk(f)
    BY <2>7
  <2>9. f[N] \in P[N]
    BY <1>1, <2>4
  <2> HIDE DEF IsWalk
  <2> QED BY <2>8, <2>9
<1>6. IsWalk(walk)
  <2> HIDE DEF IsWalk
  <2> QED BY <1>5
<1>7. /\ walk[0] = v
      /\ \A n \in 1 .. N : walk[n] = one(walk[n - 1], q[n])
  <2> DEFINE h == [n \in 0 .. N |-> IF n = 0 THEN v ELSE one(walk[n - 1], q[n])]
  <2>1. walk = h
    BY <1>6
  <2> HIDE DEF walk
  <2>2. h[0] = v /\ \A n \in 1 .. N : h[n] = one(walk[n - 1], q[n])
    BY <1>1
  <2> HIDE DEF h
  <2> QED BY <2>1, <2>2
<1> HIDE DEF walk
<1>8. \A n \in 1 .. N : walk[n - 1] \in P[n - 1] => walk[n] \in P[n]
  BY <1>3, <1>7
<1>9. walk[N] \in P[N]
  <2>1. walk[0] \in P[0]
    BY <1>2, <1>7
  <2>2. \A n \in 0 .. N : walk[n] \in P[n]
    BY <1>1, <1>8, <2>1, LoopKeeps
  <2> QED BY <1>1, <2>2
<1>10. walk[N] \in Walked(v, l, e, N)
  BY <1>1, <1>9 DEF P
<1>11. First(q, N) = ToSet(q) /\ Rest(q, N) = <<>>
  BY <1>1 DEF First, Rest, ToSet, N
<1>12. Emptied(v, walk[N], l, e)
  BY <1>10, <1>11 DEF Walked, Emptied
<1> QED BY <1>4, <1>12

-----------------------------------------------------------------------------
(* Who runs, and what happens to a waiting thread. *)

(* The threads of a set are counted one by one.                             *)
LEMMA CountOne ==
  ASSUME NEW A \in SUBSET Thread, NEW t \in Thread
  PROVE  /\ Cardinality(A) \in Nat
         /\ t \notin A => Cardinality(A \cup {t}) = Cardinality(A) + 1
         /\ t \in A => Cardinality(A \ {t}) = Cardinality(A) - 1 /\ Cardinality(A) > 0
<1>1. IsFiniteSet(A)
  BY IpcAssumption, FS_Subset DEF Sem!WaitingAssumption, Sem!IsFiniteSet, IsFiniteSet
<1>2. Cardinality(A) \in Nat /\ Cardinality(A \ {t}) \in Nat
  BY <1>1, FS_CardinalityType, FS_Subset
<1>3. t \notin A => Cardinality(A \cup {t}) = Cardinality(A) + 1
  BY <1>1, FS_AddElement
<1>4. t \in A => Cardinality(A \ {t}) = Cardinality(A) - 1
  BY <1>1, FS_RemoveElement
<1> QED BY <1>2, <1>3, <1>4

(* A set of threads has a number of members.                                *)
LEMMA CardinalityNat ==
  ASSUME NEW A \in SUBSET Thread
  PROVE  Cardinality(A) \in Nat
<1>1. IsFiniteSet(A)
  BY IpcAssumption, FS_Subset DEF Sem!WaitingAssumption, Sem!IsFiniteSet, IsFiniteSet
<1> QED BY <1>1, FS_CardinalityType

(* While no handler interrupts the tick interrupt, whoever runs finds no    *)
(* time-out under way.                                                      *)
LEMMA RunsCalm ==
  ASSUME Nested = FALSE, ListsOK(w), NEW a \in Actor, CanRun(a)
  PROVE  Calm(w) /\ (a \in Thread => a \notin w.susp)
<1>1. ~ InCallback
  BY DEF CanRun
<1>2. w.timer \in [Thread -> {"off", "armed", "firing", "missed"}]
  BY WFields DEF ListsOK
<1> QED BY <1>1, <1>2 DEF InCallback, Calm, CanRun

(* A time-out expires, or the thread t leaves the lists by its time-out or  *)
(* because some code resumed it.                                            *)
Left(v, r, t) ==
  /\ Freed(v, r, t)
  /\ \A l \in List : r.list[l] = RemoveFirst(v.list[l], t)
  /\ r.err = v.err \/ r.err = [v.err EXCEPT ![t] = "-ETIMEOUT"]

Waited(v, r) ==
  \/ ListsOK(r) /\ r.list = v.list /\ r.susp = v.susp /\ r.err = v.err
  \/ \E t \in v.susp : Left(v, r, t)

(* The timer of a thread runs out.                                          *)
LEMMA ExpireWaits ==
  ASSUME ListsOK(w), NEW t \in Thread, Expire(t)
  PROVE  /\ ListsOK(w') /\ w'.list = w.list /\ w'.susp = w.susp /\ w'.err = w.err
         /\ w'.timer = [w.timer EXCEPT ![t] = "firing"]
<1> DEFINE s == [w.timer EXCEPT ![t] = "firing"]
<1>1. w \in WState /\ w.timer \in [Thread -> {"off", "armed", "firing", "missed"}]
  BY WFields DEF ListsOK
<1>2. s \in [Thread -> {"off", "armed", "firing", "missed"}]
  BY <1>1
<1>3. w' = [w EXCEPT !.timer = s]
  BY DEF Expire
<1>4. \A u \in Thread : s[u] # "off" => u \in w.susp
  BY <1>1 DEF Expire, ListsOK
<1> HIDE DEF s
<1>5. /\ w' \in WState /\ w'.timer = s
      /\ w'.list = w.list /\ w'.susp = w.susp /\ w'.err = w.err
  BY <1>1, <1>2, <1>3 DEF WState
<1>6. ListsOK(w')
  BY <1>4, <1>5 DEF ListsOK
<1> QED BY <1>5, <1>6 DEF s

(* Its callback runs.                                                       *)
LEMMA TimeoutWaits ==
  ASSUME ListsOK(w), NEW t \in Thread, Timeout(t)
  PROVE  t \in w.susp /\ Left(w, w', t)
<1> DEFINE u == Unlink(w, t)
<1>1. /\ u \in WState
      /\ u.susp = w.susp /\ u.err = w.err /\ u.timer = w.timer
      /\ \A l \in List : /\ u.list[l] = RemoveFirst(w.list[l], t)
                         /\ IsInjective(u.list[l])
                         /\ ToSet(u.list[l]) = ToSet(w.list[l]) \ {t}
  BY UnlinkKeeps
<1>2. w' = [u EXCEPT !.susp = u.susp \ {t}, !.timer = [u.timer EXCEPT ![t] = "off"],
                     !.err = [u.err EXCEPT ![t] = "-ETIMEOUT"]]
  BY DEF Timeout
<1> HIDE DEF u
<1>3. /\ [u.timer EXCEPT ![t] = "off"] \in [Thread -> {"off", "armed", "firing", "missed"}]
      /\ [u.err EXCEPT ![t] = "-ETIMEOUT"] \in [Thread -> Error]
      /\ u.susp \ {t} \in SUBSET Thread
  BY <1>1, WFields DEF Error
<1>4. /\ w' \in WState /\ w'.susp = u.susp \ {t} /\ w'.list = u.list
      /\ w'.timer = [u.timer EXCEPT ![t] = "off"] /\ w'.err = [u.err EXCEPT ![t] = "-ETIMEOUT"]
  BY <1>1, <1>2, <1>3 DEF WState
<1>5. Freed(w, w', t)
  <2>1. \A l \in List : /\ IsInjective(w'.list[l])
                        /\ ToSet(w'.list[l]) = ToSet(w.list[l]) \ {t}
    BY <1>1, <1>4
  <2>2. w'.susp = w.susp \ {t} /\ w'.timer = [w.timer EXCEPT ![t] = "off"]
    BY <1>1, <1>4
  <2> QED BY <1>4, <2>1, <2>2, FreedKeeps
<1> QED BY <1>1, <1>4, <1>5 DEF Left, Timeout

(* Some code resumes a waiting thread.                                      *)
LEMMA ResumeWaits ==
  ASSUME Nested = FALSE, ListsOK(w), NEW t \in Thread, Resume(t)
  PROVE  t \in w.susp /\ Left(w, w', t) /\ w'.err = w.err
<1>1. t \in w.susp /\ w' = Ready(w, t) /\ \E a \in Actor : CanRun(a)
  BY DEF Resume
<1>2. w.timer[t] \in {"off", "armed"}
  BY <1>1, RunsCalm DEF Calm
<1>3. Freed(w, w', t) /\ w'.err = w.err /\ \A l \in List : w'.list[l] = RemoveFirst(w.list[l], t)
  BY <1>1, <1>2, ReadyFrees
<1> QED BY <1>1, <1>3 DEF Left

(* One of these.                                                            *)
LEMMA WaitStepWaits ==
  ASSUME Nested = FALSE, ListsOK(w), WaitStep
  PROVE  Waited(w, w') /\ UNCHANGED <<pc, arg>>
<1>1. PICK t \in Thread : Expire(t) \/ Timeout(t) \/ Resume(t)
  BY DEF WaitStep
<1>2. UNCHANGED <<pc, arg>>
  BY <1>1 DEF Expire, Timeout, Resume
<1>3. CASE Expire(t)
  BY <1>2, <1>3, ExpireWaits DEF Waited
<1>4. CASE Timeout(t)
  BY <1>2, <1>4, TimeoutWaits DEF Waited
<1>5. CASE Resume(t)
  BY <1>2, <1>5, ResumeWaits DEF Waited
<1> QED BY <1>1, <1>3, <1>4, <1>5

-----------------------------------------------------------------------------
(* The threads on their way. *)

(* Those that were woken in a call that stands at p, the calls being at c.  *)
WokenIn(v, c, p) == {t \in Thread : c[t] = p /\ t \notin v.susp /\ v.err[t] = "EOK"}

(* A thread that sleeps is not on its way.                                  *)
LEMMA SleptLeaves ==
  ASSUME NEW v, ListsOK(v), NEW t \in Thread, NEW l, NEW e, NEW r, Slept(v, r, t, l, e),
         NEW c, NEW p
  PROVE  WokenIn(r, c, p) = WokenIn(v, c, p) \ {t}
<1>1. v.err \in [Thread -> Error] /\ r.susp = v.susp \cup {t} /\ r.err = [v.err EXCEPT ![t] = e]
  BY WFields DEF Slept, ListsOK
<1> QED BY <1>1 DEF WokenIn

(* A thread that is woken is, if nothing went wrong.                        *)
LEMMA DequeuedJoins ==
  ASSUME NEW v, ListsOK(v), NEW t \in v.susp, NEW e, NEW r, Dequeued(v, r, t, e),
         NEW c, NEW p
  PROVE  /\ t \in Thread /\ t \notin WokenIn(v, c, p)
         /\ e = "EOK" /\ c[t] = p => WokenIn(r, c, p) = WokenIn(v, c, p) \cup {t}
         /\ e # "EOK" \/ c[t] # p => WokenIn(r, c, p) = WokenIn(v, c, p)
<1>1. v.err \in [Thread -> Error] /\ r.susp = v.susp \ {t} /\ r.err = [v.err EXCEPT ![t] = e]
  BY WFields DEF Dequeued, Freed, ListsOK
<1>2. t \in Thread
  BY WFields DEF ListsOK
<1> QED BY <1>1, <1>2 DEF WokenIn

(* Those that an error woke are not.                                        *)
LEMMA EmptiedKeeps ==
  ASSUME NEW v, ListsOK(v), NEW l \in List, NEW e, e # "EOK", NEW r, Emptied(v, r, l, e),
         NEW c, NEW p
  PROVE  WokenIn(r, c, p) = WokenIn(v, c, p)
<1>1. /\ r.susp = v.susp \ ToSet(v.list[l])
      /\ r.err = [t \in Thread |-> IF t \in ToSet(v.list[l]) THEN e ELSE v.err[t]]
      /\ ToSet(v.list[l]) \subseteq v.susp
  BY DEF Emptied, ListsOK
<1> QED BY <1>1 DEF WokenIn

(* Time-outs and resumptions bring nobody on the way but who slept with no  *)
(* error.                                                                   *)
LEMMA WaitedKeeps ==
  ASSUME NEW v, ListsOK(v), NEW r, Waited(v, r), NEW c, NEW p
  PROVE  /\ WokenIn(v, c, p) \subseteq WokenIn(r, c, p)
         /\ (\A t \in v.susp : v.err[t] # "EOK") => WokenIn(r, c, p) = WokenIn(v, c, p)
<1>1. v.err \in [Thread -> Error] /\ v.susp \in SUBSET Thread
  BY WFields DEF ListsOK
<1>2. CASE r.susp = v.susp /\ r.err = v.err
  BY <1>2 DEF WokenIn
<1>3. ASSUME NEW t \in v.susp, Left(v, r, t)
      PROVE  /\ WokenIn(v, c, p) \subseteq WokenIn(r, c, p)
             /\ (\A u \in v.susp : v.err[u] # "EOK") => WokenIn(r, c, p) = WokenIn(v, c, p)
  <2>1. r.susp = v.susp \ {t} /\ (r.err = v.err \/ r.err = [v.err EXCEPT ![t] = "-ETIMEOUT"])
    BY <1>3 DEF Left, Freed
  <2> QED BY <1>1, <2>1 DEF WokenIn
<1> QED BY <1>2, <1>3 DEF Waited

(* Nor do they add anybody to a list.                                       *)
LEMMA WaitedShortens ==
  ASSUME NEW v, ListsOK(v), NEW r, Waited(v, r)
  PROVE  /\ ListsOK(r) /\ r.susp \subseteq v.susp
         /\ \A l \in List : ToSet(r.list[l]) \subseteq ToSet(v.list[l])
         /\ \A l \in List : r.list[l] # <<>> => v.list[l] # <<>>
         /\ \A t \in r.susp : r.err[t] = v.err[t]
<1>1. v.err \in [Thread -> Error] /\ v.list \in [List -> Seq(Thread)] /\ v.susp \in SUBSET Thread
  BY WFields DEF ListsOK
<1>2. CASE ListsOK(r) /\ r.list = v.list /\ r.susp = v.susp /\ r.err = v.err
  BY <1>2
<1>3. ASSUME NEW t \in v.susp, Left(v, r, t)
      PROVE  /\ ListsOK(r) /\ r.susp \subseteq v.susp
             /\ \A l \in List : ToSet(r.list[l]) \subseteq ToSet(v.list[l])
             /\ \A u \in r.susp : r.err[u] = v.err[u]
  BY <1>1, <1>3 DEF Left, Freed
<1>4. /\ ListsOK(r) /\ r.susp \subseteq v.susp
      /\ \A l \in List : ToSet(r.list[l]) \subseteq ToSet(v.list[l])
      /\ \A u \in r.susp : r.err[u] = v.err[u]
  BY <1>2, <1>3 DEF Waited
<1>5. r.list \in [List -> Seq(Thread)]
  BY <1>4, WFields DEF ListsOK
<1>6. \A l \in List : r.list[l] # <<>> => v.list[l] # <<>>
  <2> SUFFICES ASSUME NEW l \in List, v.list[l] = <<>> PROVE r.list[l] = <<>>
    OBVIOUS
  <2>1. ToSet(v.list[l]) = {}
    BY <1>1, EmptyList
  <2>2. ToSet(r.list[l]) = {}
    BY <1>4, <2>1
  <2>3. r.list[l] \in Seq(Thread)
    BY <1>5
  <2> QED BY <2>2, <2>3, EmptyList
<1> QED BY <1>4, <1>6

(* A call that goes elsewhere takes its thread out.                         *)
LEMMA MovedLeaves ==
  ASSUME NEW v, NEW c, NEW d, NEW a, NEW p, d[a] # p, \A u \in Thread \ {a} : d[u] = c[u]
  PROVE  WokenIn(v, d, p) = WokenIn(v, c, p) \ {a}
BY DEF WokenIn

(* Initially nobody waits.                                                  *)
LEMMA InitialLists ==
  ASSUME w = InitW
  PROVE  ListsOK(w) /\ Calm(w) /\ w.susp = {} /\ \A l \in List : w.list[l] = <<>>
<1> DEFINE T == {"off", "armed", "firing", "missed"}
           f == [l \in List |-> <<>>]
           e == [t \in Thread |-> "EOK"]
           r == [t \in Thread |-> "off"]
<1>1. f \in [List -> Seq(Thread)] /\ e \in [Thread -> Error] /\ r \in [Thread -> T]
  BY DEF Error
<1>2. w = [list |-> f, susp |-> {}, err |-> e, timer |-> r]
  BY DEF InitW
<1>3. (\A l \in List : f[l] = <<>>) /\ \A t \in Thread : r[t] = "off"
  OBVIOUS
<1> HIDE DEF f, e, r
<1>4. w \in WState /\ w.list = f /\ w.susp = {} /\ w.timer = r
  BY <1>1, <1>2 DEF WState
<1>5. IsInjective(<<>>) /\ ToSet(<<>>) = {}
  BY DEF IsInjective, ToSet
<1>6. ListsOK(w)
  BY <1>3, <1>4, <1>5 DEF ListsOK
<1> QED BY <1>3, <1>4, <1>6 DEF Calm

-----------------------------------------------------------------------------
(* The semaphore. *)

(* The semaphore suspends and wakes by these operators.                     *)
LEMMA SemWaiting ==
  /\ \A v, t, l, flag, e, wait :
       Sem!SuspendTo(v, t, l, flag, e, wait)
         = SuspendTo(v, t, l, flag, e, wait)
  /\ \A v, l, e : Sem!Dequeue(v, l, e) = Dequeue(v, l, e)
  /\ \A v, l, e : Sem!ResumeAll(v, l, e) = ResumeAll(v, l, e)
  /\ Sem!WaitStep <=> WaitStep
<1> USE DEF Sem!Suspend, Suspend, Sem!Enqueue, Enqueue, Sem!InsertAt,
            InsertAt, Sem!Ready, Ready, Sem!Unlink, Unlink, Sem!CanReady,
            CanReady, Sem!List, List, Sem!RemoveFirst, RemoveFirst,
            Sem!RemoveAt, RemoveAt, Sem!SelectInSeq, SelectInSeq,
            Sem!SelectInSubSeq, SelectInSubSeq, Sem!Min, Min, Sem!Dequeue,
            Dequeue, Sem!SuspendTo, SuspendTo, Sem!ResumeAll, ResumeAll,
            Sem!ForEach, ForEach
<1>1. ASSUME NEW v, NEW t, NEW l, NEW flag, NEW e, NEW wait
     PROVE  Sem!SuspendTo(v, t, l, flag, e, wait) = SuspendTo(v, t, l, flag, e, wait)
  BY ZenonT(30)
<1>2. ASSUME NEW v, NEW l, NEW e
     PROVE  Sem!Dequeue(v, l, e) = Dequeue(v, l, e)
  BY ZenonT(30)
<1>3. ASSUME NEW v, NEW l, NEW e
     PROVE  Sem!ResumeAll(v, l, e) = ResumeAll(v, l, e)
  BY ZenonT(30)
<1>4. Sem!WaitStep <=> WaitStep
  BY ZenonT(30) DEF Sem!WaitStep, WaitStep, Sem!Expire, Expire, Sem!Timeout,
                    Timeout, Sem!Resume, Resume, Sem!InCallback, InCallback,
                    Sem!CanRun, CanRun, Sem!Actor, Actor
<1> HIDE DEF Sem!Suspend, Suspend, Sem!Enqueue, Enqueue, Sem!InsertAt,
             InsertAt, Sem!Ready, Ready, Sem!Unlink, Unlink, Sem!CanReady,
             CanReady, Sem!List, List, Sem!RemoveFirst, RemoveFirst,
             Sem!RemoveAt, RemoveAt, Sem!SelectInSeq, SelectInSeq,
             Sem!SelectInSubSeq, SelectInSubSeq, Sem!Min, Min, Sem!Dequeue,
             Dequeue, Sem!SuspendTo, SuspendTo, Sem!ResumeAll, ResumeAll,
             Sem!ForEach, ForEach
<1> QED BY <1>1, <1>2, <1>3, <1>4

(* The fields of the object.                                                *)
SemFields == [value : Nat, max : 0 .. ValueMax, live : BOOLEAN, era : BOOLEAN, owed : Nat]

(* A thread sleeps in a take, with an error, and only beside a value of 0;  *)
(* the tokens released and not yet taken are in the value, or given to      *)
(* threads that are on their way.                                           *)
SemInv ==
  /\ ListsOK(w)
  /\ pc \in [Actor -> {"run", "take"}]
  /\ obj \in SemFields
  /\ \A t \in w.susp : pc[t] = "take" /\ w.err[t] # "EOK"
  /\ w.list["main"] # <<>> => obj.value = 0 /\ obj.live
  /\ obj.owed = obj.value + Cardinality(WokenIn(w, pc, "take"))

(* Whoever enters a call is not in one, and is awake.                       *)
LEMMA SemEnters ==
  ASSUME Nested = FALSE, SemInv, NEW a \in Actor, Sem!Free(a)
  PROVE  Calm(w) /\ pc[a] = "run" /\ (a \in Thread => a \notin w.susp)
<1>1. CanRun(a) /\ pc[a] = "run"
  BY DEF Sem!Free, Sem!CanRun, CanRun, Sem!InCallback, InCallback
<1> QED BY <1>1, RunsCalm DEF SemInv

(* Initially.                                                               *)
LEMMA SemStarts ==
  ASSUME Sem!Init
  PROVE  SemInv
<1>1. /\ w = InitW /\ pc = [a \in Actor |-> "run"]
      /\ \E v \in 0 .. ValueMax :
           obj = [value |-> v, max |-> ValueMax, live |-> TRUE, era |-> FALSE, owed |-> v]
  BY DEF Sem!Init, Sem!InitW, InitW, Sem!List, List, Sem!Actor, Actor
<1>2. ListsOK(w) /\ w.susp = {} /\ w.list["main"] = <<>>
  BY <1>1, InitialLists DEF List
<1>3. WokenIn(w, pc, "take") = {}
  BY <1>1 DEF WokenIn, Actor
<1>4. ValueMax \in Nat /\ Cardinality({}) = 0
  BY IpcAssumption, FS_EmptySet DEF Sem!SemaphoreAssumption
<1>5. obj \in SemFields /\ obj.owed = obj.value
  BY <1>1, <1>4 DEF SemFields
<1>6. pc \in [Actor -> {"run", "take"}]
  BY <1>1
<1>7. obj.owed = obj.value + Cardinality(WokenIn(w, pc, "take"))
  BY <1>3, <1>4, <1>5 DEF SemFields
<1> QED BY <1>2, <1>5, <1>6, <1>7 DEF SemInv, SemFields

(* rt_sem_take                                                              *)
LEMMA TakeKeeps ==
  ASSUME Nested = FALSE, SemInv, NEW t \in Thread, Sem!Take(t)
  PROVE  SemInv'
<1>1. Calm(w) /\ pc[t] = "run" /\ t \notin w.susp /\ t \in Actor /\ ListsOK(w)
  BY SemEnters DEF Sem!Take, Actor, SemInv
<1>2. CASE /\ obj.value > 0 /\ obj' = [obj EXCEPT !.value = @ - 1, !.owed = @ - 1]
           /\ UNCHANGED <<w, pc>>
  <2> DEFINE n == Cardinality(WokenIn(w, pc, "take"))
  <2>1. n \in Nat
    BY <1>1, CountOne DEF WokenIn
  <2>2. w' = w /\ pc' = pc /\ WokenIn(w', pc', "take") = WokenIn(w, pc, "take")
    BY <1>2
  <2>3. obj \in SemFields /\ obj.owed = obj.value + n
    BY DEF SemInv, SemFields
  <2> HIDE DEF n
  <2>4. obj.value - 1 \in Nat /\ obj.owed - 1 \in Nat /\ obj.owed - 1 = obj.value - 1 + n
    BY <1>2, <2>1, <2>3 DEF SemFields
  <2>5. obj' \in SemFields /\ obj'.owed = obj'.value + n
    BY <1>2, <2>3, <2>4 DEF SemFields
  <2> QED BY <1>2, <2>2, <2>5 DEF SemInv, SemFields, n
<1>3. ASSUME NEW wait, w' = SuspendTo(w, t, "main", Flag, "+EINTR", wait),
             obj.value = 0, obj.live, pc' = [pc EXCEPT ![t] = "take"], UNCHANGED obj
      PROVE  SemInv'
  <2>1. Slept(w, w', t, "main", "+EINTR")
    BY <1>1, <1>3, SuspendToSleeps DEF List, Error
  <2>2. WokenIn(w', pc', "take") = WokenIn(w, pc', "take") \ {t}
    BY <1>1, <2>1, SleptLeaves
  <2>3. WokenIn(w, pc', "take") \ {t} = WokenIn(w, pc, "take")
    BY <1>1, <1>3 DEF WokenIn, SemInv, Actor
  <2>4. ListsOK(w') /\ w'.susp = w.susp \cup {t} /\ w'.err = [w.err EXCEPT ![t] = "+EINTR"]
    BY <2>1 DEF Slept
  <2>5. \A u \in w'.susp : pc'[u] = "take" /\ w'.err[u] # "EOK"
    BY <1>1, <1>3, <2>4, WFields DEF SemInv, ListsOK, Actor
  <2>6. pc' \in [Actor -> {"run", "take"}]
    BY <1>3 DEF SemInv
  <2> QED BY <1>3, <2>2, <2>3, <2>4, <2>5, <2>6 DEF SemInv
<1> QED BY <1>2, <1>3, SemWaiting DEF Sem!Take

(* The end of a take that has waited.                                       *)
LEMMA TakeReturnKeeps ==
  ASSUME Nested = FALSE, SemInv, NEW t \in Thread, Sem!TakeReturn(t)
  PROVE  SemInv'
<1> DEFINE K == WokenIn(w, pc, "take")
<1>1. /\ pc[t] = "take" /\ CanRun(t) /\ pc' = [pc EXCEPT ![t] = "run"] /\ w' = w
      /\ obj' = [obj EXCEPT !.owed = IF w.err[t] = "EOK" THEN @ - 1 ELSE @]
  BY DEF Sem!TakeReturn, Sem!CanRun, CanRun, Sem!InCallback, InCallback
<1>2. t \notin w.susp
  BY <1>1, RunsCalm DEF SemInv, Actor
<1>3. WokenIn(w', pc', "take") = K \ {t}
  <2>1. pc'[t] # "take" /\ \A u \in Thread \ {t} : pc'[u] = pc[u]
    BY <1>1 DEF SemInv, Actor
  <2>2. WokenIn(w, pc', "take") = K \ {t}
    BY <2>1, MovedLeaves
  <2> QED BY <1>1, <2>2
<1>4. t \in K <=> w.err[t] = "EOK"
  BY <1>1, <1>2 DEF WokenIn
<1>5. K \in SUBSET Thread
  BY DEF WokenIn
<1> HIDE DEF K
<1>6. /\ Cardinality(K) \in Nat
      /\ t \in K => Cardinality(K \ {t}) = Cardinality(K) - 1 /\ Cardinality(K) > 0
  BY <1>5, CountOne
<1>7. t \notin K => K \ {t} = K
  OBVIOUS
<1>8. obj \in SemFields /\ obj.owed = obj.value + Cardinality(K)
  BY DEF SemInv, SemFields, K
<1>9. obj' \in SemFields /\ obj'.value = obj.value /\ obj'.owed = obj'.value + Cardinality(K \ {t})
  <2>1. CASE t \in K
    <3>1. obj.owed - 1 \in Nat /\ obj.owed - 1 = obj.value + Cardinality(K \ {t})
      BY <1>6, <1>8, <2>1 DEF SemFields
    <3>2. obj' = [obj EXCEPT !.owed = obj.owed - 1]
      BY <1>1, <1>4, <2>1
    <3> QED BY <1>8, <3>1, <3>2 DEF SemFields
  <2>2. CASE t \notin K
    <3>1. obj' = [obj EXCEPT !.owed = obj.owed]
      BY <1>1, <1>4, <2>2
    <3> QED BY <1>7, <1>8, <2>2, <3>1 DEF SemFields
  <2> QED BY <2>1, <2>2
<1>10. pc' \in [Actor -> {"run", "take"}] /\ \A u \in w'.susp : pc'[u] = "take" /\ w'.err[u] # "EOK"
  <2>1. \A u \in w.susp : u \in Actor /\ u # t
    BY <1>2, WFields DEF SemInv, ListsOK, Actor
  <2> QED BY <1>1, <2>1 DEF SemInv
<1> QED BY <1>1, <1>3, <1>9, <1>10 DEF SemInv, SemFields

(* rt_sem_release                                                           *)
LEMMA ReleaseKeeps ==
  ASSUME Nested = FALSE, SemInv, NEW a \in Actor, Sem!Release(a)
  PROVE  SemInv'
<1> DEFINE K == WokenIn(w, pc, "take")
<1>1. Calm(w) /\ ListsOK(w) /\ UNCHANGED pc /\ "main" \in List
  BY SemEnters DEF Sem!Release, SemInv, List
<1>2. K \in SUBSET Thread /\ obj \in SemFields /\ obj.owed = obj.value + Cardinality(K)
  BY DEF WokenIn, SemInv
<1>3. CASE /\ w.list["main"] # <<>> /\ w' = Dequeue(w, "main", "EOK")
           /\ obj' = [obj EXCEPT !.owed = @ + 1]
  <2> DEFINE h == Head(w.list["main"])
  <2>1. /\ w.list["main"] # <<>> /\ "EOK" \in Error
    BY <1>3 DEF Error
  <2>2. h \in w.susp /\ h \in Thread /\ Dequeued(w, Dequeue(w, "main", "EOK"), h, "EOK")
    BY <1>1, <2>1, DequeueFrees
  <2> HIDE DEF h, K
  <2>3. Dequeued(w, w', h, "EOK")
    BY <1>3, <2>2
  <2>4. pc[h] = "take"
    BY <2>2 DEF SemInv
  <2>5. h \notin K /\ WokenIn(w', pc, "take") = K \cup {h}
    BY <1>1, <2>2, <2>3, <2>4, DequeuedJoins DEF K
  <2>6. Cardinality(K) \in Nat /\ Cardinality(K \cup {h}) = Cardinality(K) + 1
    BY <1>2, <2>2, <2>5, CountOne
  <2>7. obj.owed + 1 \in Nat /\ obj.owed + 1 = obj.value + Cardinality(K \cup {h})
    BY <1>2, <2>6 DEF SemFields
  <2>8. /\ obj' \in SemFields /\ obj'.value = obj.value /\ obj'.live = obj.live
        /\ obj'.owed = obj'.value + Cardinality(K \cup {h})
    BY <1>2, <1>3, <2>7 DEF SemFields
  <2>9. ListsOK(w') /\ w'.susp = w.susp \ {h} /\ w'.err = [w.err EXCEPT ![h] = "EOK"]
    BY <2>3 DEF Dequeued, Freed
  <2>10. \A u \in w'.susp : pc'[u] = "take" /\ w'.err[u] # "EOK"
    BY <1>1, <2>9, WFields DEF SemInv, ListsOK
  <2>11. obj.value = 0 /\ obj.live
    BY <1>3 DEF SemInv
  <2> QED BY <1>1, <2>5, <2>8, <2>9, <2>10, <2>11 DEF SemInv
<1>4. CASE /\ w.list["main"] = <<>> /\ w' = w
           /\ obj' = [obj EXCEPT !.value = @ + 1, !.owed = @ + 1]
  <2>1. WokenIn(w', pc', "take") = K
    BY <1>1, <1>4
  <2> HIDE DEF K
  <2>2. Cardinality(K) \in Nat
    BY <1>2, CardinalityNat
  <2>3. obj.value + 1 \in Nat /\ obj.owed + 1 \in Nat
        /\ obj.owed + 1 = obj.value + 1 + Cardinality(K)
    BY <1>2, <2>2 DEF SemFields
  <2>4. obj' \in SemFields /\ obj'.owed = obj'.value + Cardinality(K)
    BY <1>2, <1>4, <2>3 DEF SemFields
  <2> QED BY <1>1, <1>4, <2>1, <2>4 DEF SemInv
<1> QED BY <1>3, <1>4, SemWaiting DEF Sem!Release

(* All that wait are woken with an error, and nobody is on his way who was  *)
(* not before.                                                              *)
LEMMA SemEmpties ==
  ASSUME Nested = FALSE, SemInv, Calm(w), UNCHANGED pc, w' = ResumeAll(w, "main", "+ERROR"),
         obj' \in SemFields, obj'.owed = obj'.value + Cardinality(WokenIn(w, pc, "take"))
  PROVE  SemInv'
<1>1. ListsOK(w) /\ "main" \in List /\ "+ERROR" \in Error
  BY DEF SemInv, List, Error
<1>2. Emptied(w, w', "main", "+ERROR")
  BY <1>1, ResumeAllEmpties
<1>3. WokenIn(w', pc', "take") = WokenIn(w, pc, "take")
  BY <1>1, <1>2, EmptiedKeeps
<1>4. /\ ListsOK(w') /\ w'.list["main"] = <<>> /\ w'.susp \subseteq w.susp
      /\ \A t \in w'.susp : w'.err[t] = w.err[t]
  <2>1. /\ ListsOK(w') /\ w'.list["main"] = <<>>
        /\ w'.susp = w.susp \ ToSet(w.list["main"])
        /\ w'.err = [t \in Thread |-> IF t \in ToSet(w.list["main"]) THEN "+ERROR" ELSE w.err[t]]
    BY <1>2 DEF Emptied
  <2> QED BY <1>1, <2>1, WFields DEF ListsOK
<1> QED BY <1>3, <1>4 DEF SemInv

(* RT_IPC_CMD_RESET, RT_IPC_CMD_SET_VLIMIT, rt_sem_detach, rt_sem_delete.   *)
LEMMA SemControlKeeps ==
  ASSUME Nested = FALSE, SemInv, NEW a \in Actor,
         \/ \E v \in 0 .. ValueMax : Sem!Reset(a, v) \/ Sem!Reinit(a, v)
         \/ \E m \in 1 .. ValueMax : Sem!SetLimit(a, m)
         \/ Sem!Detach(a)
  PROVE  SemInv'
<1> DEFINE n == Cardinality(WokenIn(w, pc, "take"))
<1>1. Calm(w)
  BY SemEnters DEF Sem!Reset, Sem!Reinit, Sem!SetLimit, Sem!Detach
<1>2. obj \in SemFields /\ obj.owed = obj.value + n /\ ValueMax \in Nat
  BY IpcAssumption DEF SemInv, Sem!SemaphoreAssumption
<1>3. n \in Nat
  BY CardinalityNat DEF WokenIn
<1> HIDE DEF n
<1>4. ASSUME NEW v \in 0 .. ValueMax
      PROVE  /\ Sem!Revalue(v) \in SemFields
             /\ Sem!Revalue(v).owed = Sem!Revalue(v).value + n
  <2>1. v \in Nat /\ (obj.owed - obj.value) + v = v + n /\ v + n \in Nat
    BY <1>2, <1>3 DEF SemFields
  <2>2. Sem!Revalue(v) = [obj EXCEPT !.value = v, !.era = ~ obj.era, !.owed = v + n]
    BY <2>1 DEF Sem!Revalue
  <2>3. (~ obj.era) \in BOOLEAN
    OBVIOUS
  <2> QED BY <1>2, <2>1, <2>2, <2>3 DEF SemFields
<1>5. ASSUME NEW v \in 0 .. ValueMax, Sem!Reset(a, v) PROVE SemInv'
  <2>1. obj' \in SemFields /\ obj'.owed = obj'.value + n
    BY <1>4, <1>5 DEF Sem!Reset
  <2> QED BY <1>1, <1>5, <2>1, SemEmpties, SemWaiting DEF Sem!Reset, n
<1>6. ASSUME NEW v \in 0 .. ValueMax, Sem!Reinit(a, v) PROVE SemInv'
  <2> DEFINE q == Sem!Revalue(v)
  <2>1. q \in SemFields /\ q.owed = q.value + n
    BY <1>4
  <2>2. obj' = [q EXCEPT !.max = ValueMax, !.live = TRUE] /\ w' = w /\ pc' = pc
    BY <1>6 DEF Sem!Reinit
  <2>3. w.list["main"] = <<>>
    BY <1>6 DEF SemInv, Sem!Reinit
  <2> HIDE DEF q
  <2>4. obj' \in SemFields /\ obj'.owed = obj'.value + n
    <3>1. ValueMax \in 0 .. ValueMax
      BY <1>2
    <3> QED BY <2>1, <2>2, <3>1 DEF SemFields
  <2> QED BY <2>2, <2>3, <2>4 DEF SemInv, n
<1>7. ASSUME NEW m \in 1 .. ValueMax, Sem!SetLimit(a, m) PROVE SemInv'
  <2>1. obj' = [obj EXCEPT !.max = m] /\ pc' = pc /\ m \in 0 .. ValueMax
    BY <1>2, <1>7 DEF Sem!SetLimit
  <2>2. obj' \in SemFields /\ obj'.value = obj.value /\ obj'.owed = obj'.value + n
    BY <1>2, <2>1 DEF SemFields
  <2>3. CASE w' = ResumeAll(w, "main", "+ERROR")
    BY <1>1, <2>1, <2>2, <2>3, SemEmpties DEF n
  <2>4. CASE w' = w
    BY <2>1, <2>2, <2>4 DEF SemInv, n
  <2> QED BY <1>7, <2>3, <2>4, SemWaiting DEF Sem!SetLimit
<1>8. CASE Sem!Detach(a)
  <2>1. obj' \in SemFields /\ obj'.owed = obj'.value + n
    BY <1>2, <1>8 DEF Sem!Detach, SemFields
  <2> QED BY <1>1, <1>8, <2>1, SemEmpties, SemWaiting DEF Sem!Detach, n
<1> QED BY <1>5, <1>6, <1>7, <1>8

(* Time-outs and resumptions.                                               *)
LEMMA SemWaits ==
  ASSUME Nested = FALSE, SemInv, Sem!WaitStep, UNCHANGED obj
  PROVE  SemInv'
<1>1. ListsOK(w) /\ \A t \in w.susp : w.err[t] # "EOK"
  BY DEF SemInv
<1>2. Waited(w, w') /\ UNCHANGED <<pc, arg>>
  BY <1>1, SemWaiting, WaitStepWaits
<1>3. WokenIn(w', pc, "take") = WokenIn(w, pc, "take")
  BY <1>1, <1>2, WaitedKeeps
<1>4. /\ ListsOK(w') /\ w'.susp \subseteq w.susp
      /\ (w'.list["main"] # <<>> => w.list["main"] # <<>>)
      /\ \A t \in w'.susp : w'.err[t] = w.err[t]
  BY <1>1, <1>2, WaitedShortens DEF List
<1> QED BY <1>2, <1>3, <1>4 DEF SemInv

(* No step of the semaphore breaks the invariant.                           *)
LEMMA SemKeeps ==
  ASSUME Nested = FALSE, SemInv, Sem!Next
  PROVE  SemInv'
BY TakeKeeps, TakeReturnKeeps, ReleaseKeeps, SemControlKeeps, SemWaits
DEF Sem!Next, Actor, Sem!Actor

(* It gives what the runs check.                                            *)
LEMMA SemServes ==
  ASSUME SemInv
  PROVE  Sem!NoneAsleep /\ Sem!TokensKept
BY DEF SemInv, Sem!NoneAsleep, Sem!TokensKept, Sem!Woken, WokenIn, Sem!Cardinality, Cardinality

(* The tokens that Tokens sees given are those of the threads on their way. *)
SemGiven == WokenIn(w, pc, "take")

(* Each step of the semaphore is one of Tokens, or leaves its tokens alone. *)
LEMMA SemRefines ==
  ASSUME Nested = FALSE, SemInv, Sem!Next
  PROVE  [Sem!Abstract!Next]_(Sem!Abstract!vars)
<1> DEFINE K == SemGiven
           Same == obj'.value = obj.value /\ obj'.era = obj.era /\ SemGiven' = K
<1>1. /\ Sem!Woken("take") = SemGiven /\ Sem!Woken("take")' = SemGiven'
      /\ SemGiven = WokenIn(w, pc, "take") /\ SemGiven' = WokenIn(w', pc', "take")
  BY DEF Sem!Woken, SemGiven, WokenIn
<1>2. ListsOK(w) /\ obj \in SemFields /\ ValueMax \in Nat /\ \A t \in w.susp : w.err[t] # "EOK"
  BY IpcAssumption DEF SemInv, Sem!SemaphoreAssumption
<1>3. ASSUME Same PROVE [Sem!Abstract!Next]_(Sem!Abstract!vars)
  <2>1. Sem!Woken("take")' = Sem!Woken("take")
    BY <1>1, <1>3
  <2> QED BY <1>3, <2>1 DEF Sem!Abstract!vars
<1>4. ASSUME UNCHANGED pc, w' = ResumeAll(w, "main", "+ERROR"), Calm(w)
      PROVE  SemGiven' = K
  <2>1. Emptied(w, w', "main", "+ERROR")
    BY <1>2, <1>4, ResumeAllEmpties DEF List, Error
  <2> QED BY <1>2, <1>4, <2>1, EmptiedKeeps, <1>1 DEF List
<1>5. ASSUME NEW t \in Thread, Sem!Take(t) PROVE [Sem!Abstract!Next]_(Sem!Abstract!vars)
  <2>1. Calm(w) /\ pc[t] = "run" /\ t \notin w.susp
    BY <1>5, SemEnters DEF Sem!Take, Actor
  <2>2. CASE obj.value > 0 /\ obj' = [obj EXCEPT !.value = @ - 1, !.owed = @ - 1]
             /\ UNCHANGED <<w, pc>>
    <3>1. /\ obj.value > 0 /\ obj'.value = obj.value - 1 /\ obj'.era = obj.era
          /\ Sem!Woken("take")' = Sem!Woken("take")
      BY <1>2, <2>2 DEF SemFields, Sem!Woken
    <3>2. Sem!Abstract!Take
      BY <3>1 DEF Sem!Abstract!Take
    <3> QED BY <3>1, <3>2 DEF Sem!Abstract!Next
  <2>3. ASSUME NEW wait, w' = SuspendTo(w, t, "main", Flag, "+EINTR", wait),
               pc' = [pc EXCEPT ![t] = "take"], UNCHANGED obj
        PROVE  Same
    <3>1. Slept(w, w', t, "main", "+EINTR")
      BY <1>2, <2>1, <2>3, SuspendToSleeps DEF List, Error
    <3>2. WokenIn(w', pc', "take") = WokenIn(w, pc', "take") \ {t}
      BY <1>2, <3>1, SleptLeaves
    <3>3. WokenIn(w, pc', "take") \ {t} = WokenIn(w, pc, "take")
      BY <2>1, <2>3 DEF WokenIn, SemInv, Actor
    <3> QED BY <2>3, <3>2, <3>3, <1>1
  <2> QED BY <1>3, <1>5, <2>2, <2>3, SemWaiting DEF Sem!Take
<1>6. ASSUME NEW t \in Thread, Sem!TakeReturn(t) PROVE [Sem!Abstract!Next]_(Sem!Abstract!vars)
  <2>1. /\ pc[t] = "take" /\ CanRun(t) /\ pc' = [pc EXCEPT ![t] = "run"] /\ w' = w
        /\ obj' = [obj EXCEPT !.owed = IF w.err[t] = "EOK" THEN @ - 1 ELSE @]
    BY <1>6 DEF Sem!TakeReturn, Sem!CanRun, CanRun, Sem!InCallback, InCallback
  <2>2. obj'.value = obj.value /\ obj'.era = obj.era
    BY <1>2, <2>1 DEF SemFields
  <2>3. SemGiven' = K \ {t}
    <3>1. pc'[t] # "take" /\ \A u \in Thread \ {t} : pc'[u] = pc[u]
      BY <2>1 DEF SemInv, Actor
    <3>2. WokenIn(w, pc', "take") = WokenIn(w, pc, "take") \ {t}
      BY <3>1, MovedLeaves
    <3> QED BY <1>1, <2>1, <3>2
  <2>4. CASE t \in K
    <3>1. Sem!Abstract!Collect(t)
      BY <1>1, <2>2, <2>3, <2>4 DEF Sem!Abstract!Collect
    <3> QED BY <2>2, <3>1 DEF Sem!Abstract!Next
  <2>5. CASE t \notin K
    BY <1>3, <2>2, <2>3, <2>5
  <2> QED BY <2>4, <2>5
<1>7. ASSUME NEW a \in Actor, Sem!Release(a) PROVE [Sem!Abstract!Next]_(Sem!Abstract!vars)
  <2>1. Calm(w) /\ UNCHANGED pc
    BY <1>7, SemEnters DEF Sem!Release
  <2>2. CASE w.list["main"] # <<>> /\ w' = Dequeue(w, "main", "EOK")
             /\ obj' = [obj EXCEPT !.owed = @ + 1]
    <3> DEFINE h == Head(w.list["main"])
    <3>1. w.list["main"] # <<>> /\ "EOK" \in Error /\ "main" \in List
      BY <2>2 DEF Error, List
    <3>2. h \in w.susp /\ h \in Thread /\ Dequeued(w, w', h, "EOK")
      BY <1>2, <2>1, <2>2, <3>1, DequeueFrees
    <3> HIDE DEF h
    <3>3. h \notin K /\ SemGiven' = K \cup {h}
      <4>1. pc[h] = "take"
        BY <3>2 DEF SemInv
      <4>2. /\ h \notin WokenIn(w, pc, "take")
            /\ WokenIn(w', pc, "take") = WokenIn(w, pc, "take") \cup {h}
        BY <1>2, <3>2, <4>1, DequeuedJoins
      <4> QED BY <1>1, <2>1, <4>2
    <3>4. obj.value = 0 /\ obj'.value = obj.value /\ obj'.era = obj.era
      BY <1>2, <2>2 DEF SemFields, SemInv
    <3>5. h \in Thread \ Sem!Woken("take") /\ Sem!Woken("take")' = Sem!Woken("take") \cup {h}
      BY <1>1, <3>2, <3>3
    <3>6. Sem!Abstract!Release
      BY <3>4, <3>5 DEF Sem!Abstract!Release
    <3> QED BY <3>4, <3>6 DEF Sem!Abstract!Next
  <2>3. CASE /\ w.list["main"] = <<>> /\ obj.value < obj.max /\ w' = w
             /\ obj' = [obj EXCEPT !.value = @ + 1, !.owed = @ + 1]
    <3>1. obj.value < ValueMax /\ obj'.value = obj.value + 1 /\ obj'.era = obj.era
      BY <1>2, <2>3 DEF SemFields
    <3>2. Sem!Woken("take")' = Sem!Woken("take")
      BY <2>1, <2>3 DEF Sem!Woken
    <3>3. Sem!Abstract!Release
      BY <3>1, <3>2 DEF Sem!Abstract!Release
    <3> QED BY <3>1, <3>3 DEF Sem!Abstract!Next
  <2> QED BY <1>7, <2>2, <2>3, SemWaiting DEF Sem!Release
<1>8. ASSUME NEW a \in Actor, NEW v \in 0 .. ValueMax, Sem!Reset(a, v) \/ Sem!Reinit(a, v)
      PROVE  [Sem!Abstract!Next]_(Sem!Abstract!vars)
  <2>1. Calm(w) /\ UNCHANGED pc
    BY <1>8, SemEnters DEF Sem!Reset, Sem!Reinit
  <2>2. SemGiven' = K
    <3>1. CASE Sem!Reset(a, v)
      BY <1>4, <2>1, <3>1, SemWaiting DEF Sem!Reset
    <3>2. CASE Sem!Reinit(a, v)
      BY <1>1, <3>2 DEF Sem!Reinit
    <3> QED BY <1>8, <3>1, <3>2
  <2>3. obj'.value = v /\ obj'.era = ~ obj.era
    BY <1>2, <1>8 DEF SemFields, Sem!Reset, Sem!Reinit, Sem!Revalue
  <2>4. Sem!Abstract!Reset
    BY <1>1, <2>2, <2>3 DEF Sem!Abstract!Reset
  <2> QED BY <2>4 DEF Sem!Abstract!Next
<1>9. ASSUME NEW a \in Actor, (\E m \in 1 .. ValueMax : Sem!SetLimit(a, m)) \/ Sem!Detach(a)
      PROVE  [Sem!Abstract!Next]_(Sem!Abstract!vars)
  <2>1. Calm(w) /\ UNCHANGED pc
    BY <1>9, SemEnters DEF Sem!SetLimit, Sem!Detach
  <2>2. SemGiven' = K
    <3>1. w' = w \/ w' = ResumeAll(w, "main", "+ERROR")
      BY <1>9, SemWaiting DEF Sem!SetLimit, Sem!Detach
    <3>2. w' = w => SemGiven' = K
      BY <1>1, <2>1
    <3> QED BY <1>4, <2>1, <3>1, <3>2
  <2>3. obj'.value = obj.value /\ obj'.era = obj.era
    BY <1>2, <1>9 DEF SemFields, Sem!SetLimit, Sem!Detach
  <2> QED BY <1>3, <2>2, <2>3
<1>10. CASE Sem!WaitStep /\ UNCHANGED obj
  <2>1. Waited(w, w') /\ UNCHANGED pc
    BY <1>2, <1>10, SemWaiting, WaitStepWaits
  <2>2. SemGiven' = K
    BY <1>2, <2>1, WaitedKeeps, <1>1
  <2> QED BY <1>3, <1>10, <2>2
<1> QED BY <1>5, <1>6, <1>7, <1>8, <1>9, <1>10 DEF Sem!Next, Actor, Sem!Actor

(* So do its first states.                                                  *)
LEMMA SemRefinesInit ==
  ASSUME Sem!Init
  PROVE  Sem!Abstract!Init
<1>1. Sem!Woken("take") = {}
  BY DEF Sem!Init, Sem!Woken, Sem!Actor
<1> QED BY <1>1 DEF Sem!Init, Sem!Abstract!Init

-----------------------------------------------------------------------------
(* The event set. *)

(* rt_event_send wakes those of the waiting threads that are in a set.      *)
Roused(v, threads) ==
  LET one(u, t) == IF t \in threads THEN [Ready(u, t) EXCEPT !.err[t] = "EOK"] ELSE u
  IN  ForEach(v, v.list["main"], one)

(* The threads of S, and no others, have been woken without an error.       *)
WokenUp(v, r, S) ==
  /\ ListsOK(r) /\ Calm(r)
  /\ r.susp = v.susp \ S
  /\ r.err = [t \in Thread |-> IF t \in S THEN "EOK" ELSE v.err[t]]
  /\ \A l \in List : ToSet(r.list[l]) = ToSet(v.list[l]) \ S

(* One of them.                                                             *)
LEMMA WakeOneUp ==
  ASSUME NEW v, ListsOK(v), NEW S, NEW u, WokenUp(v, u, S),
         NEW t \in v.susp, t \notin S
  PROVE  WokenUp(v, [Ready(u, t) EXCEPT !.err[t] = "EOK"], S \cup {t})
<1> DEFINE x == Ready(u, t)
           r == [x EXCEPT !.err[t] = "EOK"]
<1>1. /\ v \in WState /\ v.err \in [Thread -> Error] /\ t \in Thread
      /\ ListsOK(u) /\ Calm(u) /\ t \in u.susp
      /\ u.timer \in [Thread -> {"off", "armed", "firing", "missed"}]
  BY WFields DEF ListsOK, WokenUp
<1>2. u.timer[t] \in {"off", "armed"}
  BY <1>1 DEF Calm
<1>3. Freed(u, x, t) /\ x.err = u.err
  BY <1>1, <1>2, ReadyFrees
<1> HIDE DEF x
<1>4. x \in WState /\ x.err \in [Thread -> Error]
  BY <1>3, WFields DEF Freed, ListsOK
<1>5. [x.err EXCEPT ![t] = "EOK"] \in [Thread -> Error]
  BY <1>4 DEF Error
<1>6. r = [x EXCEPT !.err = [x.err EXCEPT ![t] = "EOK"]]
  BY Zenon
<1> HIDE DEF r
<1>7. /\ r \in WState /\ r.list = x.list /\ r.susp = x.susp /\ r.timer = x.timer
      /\ r.err = [x.err EXCEPT ![t] = "EOK"]
  BY <1>4, <1>5, <1>6 DEF WState
<1>8. ListsOK(r)
  BY <1>3, <1>7 DEF Freed, ListsOK
<1>9. Calm(r)
  <2>1. r.timer = [u.timer EXCEPT ![t] = "off"] /\ \A y \in Thread : u.timer[y] \in {"off", "armed"}
    BY <1>1, <1>3, <1>7 DEF Freed, Calm
  <2>2. \A y \in Thread : r.timer[y] = IF y = t THEN "off" ELSE u.timer[y]
    BY <1>1, <2>1
  <2> QED BY <2>1, <2>2 DEF Calm
<1>10. r.susp = v.susp \ (S \cup {t})
  BY <1>3, <1>7 DEF Freed, WokenUp
<1>11. r.err = [y \in Thread |-> IF y \in S \cup {t} THEN "EOK" ELSE v.err[y]]
  <2>1. u.err = [y \in Thread |-> IF y \in S THEN "EOK" ELSE v.err[y]]
    BY DEF WokenUp
  <2>2. r.err = [u.err EXCEPT ![t] = "EOK"]
    BY <1>3, <1>7
  <2> QED BY <1>1, <2>1, <2>2
<1>12. \A l \in List : ToSet(r.list[l]) = ToSet(v.list[l]) \ (S \cup {t})
  BY <1>3, <1>7 DEF Freed, WokenUp
<1>13. WokenUp(v, r, S \cup {t})
  BY <1>8, <1>9, <1>10, <1>11, <1>12 DEF WokenUp
<1> QED BY <1>13 DEF r, x

(* The walk.                                                                *)
LEMMA RousedWakes ==
  ASSUME NEW v, ListsOK(v), Calm(v), NEW S, S \subseteq ToSet(v.list["main"])
  PROVE  WokenUp(v, Roused(v, S), S)
<1> DEFINE q == v.list["main"]
           N == Len(q)
           one(u, t) == IF t \in S THEN [Ready(u, t) EXCEPT !.err[t] = "EOK"] ELSE u
           P == [n \in 0 .. N |-> {u \in WState : WokenUp(v, u, First(q, n) \cap S)}]
           g == [n \in 1 .. N |-> [u \in P[n - 1] |-> one(u, q[n])]]
           IsWalk(f) == f = [n \in 0 .. N |-> IF n = 0 THEN v ELSE one(f[n - 1], q[n])]
           walk == CHOOSE f : IsWalk(f)
<1>1. /\ v \in WState /\ q \in Seq(Thread) /\ N \in Nat /\ v.err \in [Thread -> Error]
      /\ IsInjective(q) /\ ToSet(q) \subseteq v.susp /\ DOMAIN q = 1 .. N
  BY WFields DEF ListsOK, List
<1>2. v \in P[0]
  <2>1. First(q, 0) \cap S = {}
    BY <1>1 DEF First
  <2>2. v.err = [t \in Thread |-> v.err[t]]
    BY <1>1
  <2>3. WokenUp(v, v, First(q, 0) \cap S)
    BY <1>1, <2>1, <2>2 DEF WokenUp
  <2> QED BY <1>1, <2>3
<1>3. \A n \in 1 .. N : \A u \in P[n - 1] : one(u, q[n]) \in P[n]
  <2> SUFFICES ASSUME NEW n \in 1 .. N, NEW u \in P[n - 1] PROVE one(u, q[n]) \in P[n]
    OBVIOUS
  <2> DEFINE A == First(q, n - 1) \cap S
             B == First(q, n) \cap S
  <2>1. n - 1 \in 0 .. N /\ n \in 0 .. N
    BY <1>1
  <2>2. u \in WState /\ WokenUp(v, u, A)
    BY <2>1
  <2>3. First(q, n) = First(q, n - 1) \cup {q[n]}
    <3>1. n \in Nat /\ 1 .. n = (1 .. n - 1) \cup {n}
      BY <1>1
    <3> QED BY <3>1 DEF First
  <2>4. q[n] \in v.susp /\ q[n] \notin First(q, n - 1)
    <3>1. n \in DOMAIN q /\ q[n] \in ToSet(q)
      BY <1>1 DEF ToSet
    <3>2. ASSUME NEW i \in 1 .. n - 1, q[i] = q[n] PROVE FALSE
      <4>1. i \in DOMAIN q /\ i # n
        BY <1>1
      <4> QED BY <1>1, <3>1, <3>2, <4>1 DEF IsInjective
    <3> QED BY <1>1, <3>1, <3>2 DEF First
  <2>5. CASE q[n] \in S
    <3>1. B = A \cup {q[n]} /\ q[n] \notin A
      BY <2>3, <2>4, <2>5
    <3> HIDE DEF A, B, q
    <3>2. WokenUp(v, one(u, q[n]), A \cup {q[n]})
      BY <2>2, <2>4, <2>5, <3>1, WakeOneUp
    <3>3. one(u, q[n]) \in WState
      BY <3>2 DEF WokenUp, ListsOK
    <3> HIDE DEF one
    <3> QED BY <2>1, <3>1, <3>2, <3>3 DEF B, q
  <2>6. CASE q[n] \notin S
    <3>1. B = A /\ one(u, q[n]) = u
      BY <2>3, <2>6
    <3> QED BY <2>1, <2>2, <3>1
  <2> QED BY <2>5, <2>6
<1>4. Roused(v, S) = walk[N]
  BY DEF Roused, ForEach
<1> HIDE DEF N, P, one
<1>5. \E f : IsWalk(f) /\ f[N] \in P[N]
  <2>1. \A n \in 1 .. N : \A u \in P[n - 1] : g[n][u] = one(u, q[n])
    OBVIOUS
  <2>2. \A n \in 1 .. N : \A u \in P[n - 1] : g[n][u] \in P[n]
    BY <1>3, <2>1
  <2> HIDE DEF g
  <2>3. WalkEnds(N, v, g, P)
    BY <1>1, <1>2, <2>2, WalkExists
  <2>4. PICK f : /\ f = [n \in 0 .. N |-> f[n]] /\ f[0] = v
                 /\ \A n \in 1 .. N : f[n] = g[n][f[n - 1]]
                 /\ \A n \in 0 .. N : f[n] \in P[n]
    BY <2>3 DEF WalkEnds
  <2>5. \A n \in 1 .. N : f[n] = one(f[n - 1], q[n])
    <3> SUFFICES ASSUME NEW n \in 1 .. N PROVE f[n] = one(f[n - 1], q[n])
      OBVIOUS
    <3>1. n - 1 \in 0 .. N
      BY <1>1
    <3>2. f[n - 1] \in P[n - 1] /\ f[n] = g[n][f[n - 1]]
      BY <2>4, <3>1
    <3> QED BY <2>1, <3>2
  <2> DEFINE h == [n \in 0 .. N |-> IF n = 0 THEN v ELSE one(f[n - 1], q[n])]
  <2>6. h = [n \in 0 .. N |-> h[n]] /\ \A n \in 0 .. N : h[n] = f[n]
    <3>1. h = [n \in 0 .. N |-> h[n]]
      OBVIOUS
    <3>2. \A n \in 0 .. N : h[n] = IF n = 0 THEN v ELSE one(f[n - 1], q[n])
      OBVIOUS
    <3> HIDE DEF h, q
    <3>3. \A n \in 0 .. N : n = 0 \/ n \in 1 .. N
      BY <1>1
    <3> QED BY <2>4, <2>5, <3>1, <3>2, <3>3
  <2>7. f = h
    <3> HIDE DEF h
    <3> QED BY <2>4, <2>6
  <2>8. IsWalk(f)
    BY <2>7
  <2>9. f[N] \in P[N]
    BY <1>1, <2>4
  <2> HIDE DEF IsWalk
  <2> QED BY <2>8, <2>9
<1>6. IsWalk(walk)
  <2> HIDE DEF IsWalk
  <2> QED BY <1>5
<1>7. /\ walk[0] = v
      /\ \A n \in 1 .. N : walk[n] = one(walk[n - 1], q[n])
  <2> DEFINE h == [n \in 0 .. N |-> IF n = 0 THEN v ELSE one(walk[n - 1], q[n])]
  <2>1. walk = h
    BY <1>6
  <2> HIDE DEF walk
  <2>2. h[0] = v /\ \A n \in 1 .. N : h[n] = one(walk[n - 1], q[n])
    BY <1>1
  <2> HIDE DEF h
  <2> QED BY <2>1, <2>2
<1> HIDE DEF walk
<1>8. \A n \in 1 .. N : walk[n - 1] \in P[n - 1] => walk[n] \in P[n]
  BY <1>3, <1>7
<1>9. walk[N] \in P[N]
  <2>1. walk[0] \in P[0]
    BY <1>2, <1>7
  <2>2. \A n \in 0 .. N : walk[n] \in P[n]
    BY <1>1, <1>8, <2>1, LoopKeeps
  <2> QED BY <1>1, <2>2
<1>10. WokenUp(v, walk[N], First(q, N) \cap S)
  BY <1>1, <1>9 DEF P
<1>11. First(q, N) \cap S = S
  BY <1>1 DEF First, ToSet, N
<1> QED BY <1>4, <1>10, <1>11

(* A thread is tried: woken if it sleeps, and told that nothing went wrong. *)
LEMMA TryWakes ==
  ASSUME NEW v, ListsOK(v), NEW S, NEW u, WokenUp(v, u, S), NEW t \in Thread
  PROVE  WokenUp(v, Try(u, t), S \cup {t})
<1>1. CASE t \in u.susp
  <2>1. t \in v.susp /\ t \notin S
    BY <1>1 DEF WokenUp
  <2> QED BY <2>1, WakeOneUp DEF Try
<1>2. CASE t \notin u.susp
  <2> DEFINE r == Try(u, t)
             e == [u.err EXCEPT ![t] = "EOK"]
  <2>1. /\ v \in WState /\ v.err \in [Thread -> Error] /\ ListsOK(u) /\ Calm(u) /\ u \in WState
        /\ u.timer \in [Thread -> {"off", "armed", "firing", "missed"}] /\ u.err \in [Thread -> Error]
    BY WFields DEF ListsOK, WokenUp
  <2>2. u.timer[t] = "off"
    BY <1>2, <2>1 DEF ListsOK
  <2>3. Ready(u, t) = [u EXCEPT !.timer = [u.timer EXCEPT ![t] = "off"]]
    BY <1>2, <2>2 DEF Ready, CanReady
  <2>4. [u.timer EXCEPT ![t] = "off"] = u.timer
    BY <2>1, <2>2
  <2>5. Ready(u, t) = u
    BY <2>1, <2>3, <2>4 DEF WState
  <2>6. r = [u EXCEPT !.err = e]
    BY <2>5 DEF Try
  <2>7. e \in [Thread -> Error]
    BY <2>1 DEF Error
  <2> HIDE DEF r, e
  <2>8. /\ r \in WState /\ r.list = u.list /\ r.susp = u.susp /\ r.timer = u.timer /\ r.err = e
    BY <2>1, <2>6, <2>7 DEF WState
  <2>9. ListsOK(r) /\ Calm(r)
    BY <2>1, <2>8 DEF ListsOK, Calm
  <2>10. r.susp = v.susp \ (S \cup {t})
    BY <1>2, <2>8 DEF WokenUp
  <2>11. r.err = [y \in Thread |-> IF y \in S \cup {t} THEN "EOK" ELSE v.err[y]]
    <3>1. u.err = [y \in Thread |-> IF y \in S THEN "EOK" ELSE v.err[y]]
      BY DEF WokenUp
    <3>2. e = [y \in Thread |-> IF y \in S \cup {t} THEN "EOK" ELSE v.err[y]]
      BY <3>1 DEF e
    <3> QED BY <2>8, <3>2
  <2>12. \A l \in List : ToSet(r.list[l]) = ToSet(v.list[l]) \ (S \cup {t})
    <3>1. \A l \in List : t \notin ToSet(u.list[l]) /\ ToSet(u.list[l]) = ToSet(v.list[l]) \ S
      BY <1>2, <2>1 DEF ListsOK, WokenUp
    <3> QED BY <2>8, <3>1
  <2>13. WokenUp(v, r, S \cup {t})
    BY <2>9, <2>10, <2>11, <2>12 DEF WokenUp
  <2> QED BY <2>13 DEF r
<1> QED BY <1>1, <1>2

(* rt_wqueue_wakeup_all                                                     *)
LEMMA WakeAllWakes ==
  ASSUME NEW v, ListsOK(v), Calm(v), NEW q \in Seq(Thread)
  PROVE  WokenUp(v, WakeAll(v, q), ToSet(q))
<1> DEFINE N == Len(q)
           P == [n \in 0 .. N |-> {u \in WState : WokenUp(v, u, First(q, n))}]
           g == [n \in 1 .. N |-> [u \in P[n - 1] |-> Try(u, q[n])]]
           IsWalk(f) == f = [n \in 0 .. N |-> IF n = 0 THEN v ELSE Try(f[n - 1], q[n])]
           walk == CHOOSE f : IsWalk(f)
<1>1. /\ v \in WState /\ N \in Nat /\ v.err \in [Thread -> Error]
      /\ DOMAIN q = 1 .. N /\ \A n \in 1 .. N : q[n] \in Thread
  BY WFields DEF ListsOK
<1>2. v \in P[0]
  <2>1. First(q, 0) = {}
    BY <1>1 DEF First
  <2>2. v.err = [t \in Thread |-> v.err[t]]
    BY <1>1
  <2>3. WokenUp(v, v, First(q, 0))
    BY <1>1, <2>1, <2>2 DEF WokenUp
  <2> QED BY <1>1, <2>3
<1>3. \A n \in 1 .. N : \A u \in P[n - 1] : Try(u, q[n]) \in P[n]
  <2> SUFFICES ASSUME NEW n \in 1 .. N, NEW u \in P[n - 1] PROVE Try(u, q[n]) \in P[n]
    OBVIOUS
  <2>1. n - 1 \in 0 .. N /\ n \in 0 .. N
    BY <1>1
  <2>2. u \in WState /\ WokenUp(v, u, First(q, n - 1))
    BY <2>1
  <2>3. First(q, n) = First(q, n - 1) \cup {q[n]}
    <3>1. n \in Nat /\ 1 .. n = (1 .. n - 1) \cup {n}
      BY <1>1
    <3> QED BY <3>1 DEF First
  <2>4. WokenUp(v, Try(u, q[n]), First(q, n))
    BY <1>1, <2>2, <2>3, TryWakes
  <2>5. Try(u, q[n]) \in WState
    BY <2>4 DEF WokenUp, ListsOK
  <2> QED BY <2>1, <2>4, <2>5
<1>4. WakeAll(v, q) = walk[N]
  BY DEF WakeAll, ForEach
<1> HIDE DEF N, P
<1>5. \E f : IsWalk(f) /\ f[N] \in P[N]
  <2>1. \A n \in 1 .. N : \A u \in P[n - 1] : g[n][u] = Try(u, q[n])
    OBVIOUS
  <2>2. \A n \in 1 .. N : \A u \in P[n - 1] : g[n][u] \in P[n]
    BY <1>3, <2>1
  <2> HIDE DEF g
  <2>3. WalkEnds(N, v, g, P)
    BY <1>1, <1>2, <2>2, WalkExists
  <2>4. PICK f : /\ f = [n \in 0 .. N |-> f[n]] /\ f[0] = v
                 /\ \A n \in 1 .. N : f[n] = g[n][f[n - 1]]
                 /\ \A n \in 0 .. N : f[n] \in P[n]
    BY <2>3 DEF WalkEnds
  <2>5. \A n \in 1 .. N : f[n] = Try(f[n - 1], q[n])
    <3> SUFFICES ASSUME NEW n \in 1 .. N PROVE f[n] = Try(f[n - 1], q[n])
      OBVIOUS
    <3>1. n - 1 \in 0 .. N
      BY <1>1
    <3>2. f[n - 1] \in P[n - 1] /\ f[n] = g[n][f[n - 1]]
      BY <2>4, <3>1
    <3> QED BY <2>1, <3>2
  <2> DEFINE h == [n \in 0 .. N |-> IF n = 0 THEN v ELSE Try(f[n - 1], q[n])]
  <2>6. h = [n \in 0 .. N |-> h[n]] /\ \A n \in 0 .. N : h[n] = f[n]
    <3>1. h = [n \in 0 .. N |-> h[n]]
      OBVIOUS
    <3>2. \A n \in 0 .. N : h[n] = IF n = 0 THEN v ELSE Try(f[n - 1], q[n])
      OBVIOUS
    <3> HIDE DEF h
    <3>3. \A n \in 0 .. N : n = 0 \/ n \in 1 .. N
      BY <1>1
    <3> QED BY <2>4, <2>5, <3>1, <3>2, <3>3
  <2>7. f = h
    <3> HIDE DEF h
    <3> QED BY <2>4, <2>6
  <2>8. IsWalk(f)
    BY <2>7
  <2>9. f[N] \in P[N]
    BY <1>1, <2>4
  <2> HIDE DEF IsWalk
  <2> QED BY <2>8, <2>9
<1>6. IsWalk(walk)
  <2> HIDE DEF IsWalk
  <2> QED BY <1>5
<1>7. /\ walk[0] = v
      /\ \A n \in 1 .. N : walk[n] = Try(walk[n - 1], q[n])
  <2> DEFINE h == [n \in 0 .. N |-> IF n = 0 THEN v ELSE Try(walk[n - 1], q[n])]
  <2>1. walk = h
    BY <1>6
  <2> HIDE DEF walk
  <2>2. h[0] = v /\ \A n \in 1 .. N : h[n] = Try(walk[n - 1], q[n])
    BY <1>1
  <2> HIDE DEF h
  <2> QED BY <2>1, <2>2
<1> HIDE DEF walk
<1>8. \A n \in 1 .. N : walk[n - 1] \in P[n - 1] => walk[n] \in P[n]
  BY <1>3, <1>7
<1>9. walk[N] \in P[N]
  <2>1. walk[0] \in P[0]
    BY <1>2, <1>7
  <2>2. \A n \in 0 .. N : walk[n] \in P[n]
    BY <1>1, <1>8, <2>1, LoopKeeps
  <2> QED BY <1>1, <2>2
<1>10. WokenUp(v, walk[N], First(q, N))
  BY <1>1, <1>9 DEF P
<1>11. First(q, N) = ToSet(q)
  BY <1>1 DEF First, ToSet, N
<1> QED BY <1>4, <1>10, <1>11

(* rt_wqueue_wakeup: nobody in the queue sleeps; or the k-th is the first   *)
(* that does, and it is woken and taken out.                                *)
WokenFirst(v, r, q, rest) ==
  \/ ToSet(q) \cap v.susp = {} /\ WokenUp(v, r, ToSet(q)) /\ rest = q
  \/ \E k \in DOMAIN q : /\ q[k] \in v.susp /\ \A i \in 1 .. k - 1 : q[i] \notin v.susp
                         /\ WokenUp(v, r, First(q, k)) /\ rest = RemoveAt(q, k)

(* rt_wqueue_wakeup wakes the first waiter it reaches.                     *)
LEMMA WakeOneWakes ==
  ASSUME NEW v, ListsOK(v), Calm(v), NEW q \in Seq(Thread)
  PROVE  WokenFirst(v, WakeOne(v, q), q, WithoutWoken(v, q))
<1> DEFINE N == Len(q)
           A == {i \in DOMAIN q : CanReady(v, q[i])}
           G == A \cup {N + 1}
           k == FirstReady(v, q)
           H == {k, N}
           m == Min(H)
<1>1. N \in Nat /\ DOMAIN q = 1 .. N /\ \A i \in 1 .. N : q[i] \in Thread
  OBVIOUS
<1>2. A = {i \in 1 .. N : q[i] \in v.susp}
  BY <1>1 DEF CanReady, Calm
<1>3. G \in SUBSET Nat /\ G # {}
  BY <1>1
<1>4. k = Min(G)
  BY DEF FirstReady
<1>5. k \in G /\ \A i \in G : k <= i
  <2> HIDE DEF G, k
  <2>1. PICK p \in G : \A i \in G : p <= i
    BY <1>3, LeastPrio
  <2>2. Min(G) \in G /\ \A i \in G : Min(G) <= i
    BY <2>1 DEF Min
  <2> QED BY <1>4, <2>2
<1>6. k \in 1 .. N + 1 /\ k \in Nat /\ k <= N + 1
  BY <1>1, <1>5
<1>7. m \in H /\ m <= k /\ m <= N
  <2>1. H \in SUBSET Nat /\ H # {} /\ k \in H /\ N \in H
    BY <1>1, <1>6
  <2> HIDE DEF H
  <2>2. PICK p \in H : \A i \in H : p <= i
    BY <2>1, LeastPrio
  <2>3. Min(H) \in H /\ \A i \in H : Min(H) <= i
    BY <2>2 DEF Min
  <2> QED BY <2>1, <2>3
<1>8. WakeOne(v, q) = WakeAll(v, SubSeq(q, 1, m))
  BY DEF WakeOne, WakeAll
<1>9. m \in 0 .. N /\ (k <= N => m = k) /\ (k > N => m = N)
  <2> HIDE DEF k, m
  <2>1. m = k \/ m = N
    BY <1>7
  <2> HIDE DEF N, A, G, H
  <2> QED BY <1>1, <1>6, <1>7, <2>1
<1> HIDE DEF N, A, G, k, H, m
<1>10. SubSeq(q, 1, m) \in Seq(Thread) /\ ToSet(SubSeq(q, 1, m)) = First(q, m)
  <2>1. \A i \in 1 .. m : q[i] \in Thread
    BY <1>1, <1>9
  <2>2. /\ SubSeq(q, 1, m) \in Seq(Thread) /\ DOMAIN SubSeq(q, 1, m) = 1 .. m
        /\ \A i \in 1 .. m : SubSeq(q, 1, m)[i] = q[i]
    BY <1>1, <1>9, <2>1
  <2> QED BY <2>2 DEF ToSet, First
<1>11. WokenUp(v, WakeOne(v, q), First(q, m))
  BY <1>8, <1>10, WakeAllWakes
<1>12. WithoutWoken(v, q) = IF k > N THEN q ELSE RemoveAt(q, k)
  BY DEF WithoutWoken, k, N
<1>13. CASE k > N
  <2>1. m = N /\ First(q, m) = ToSet(q)
    BY <1>1, <1>9, <1>13 DEF First, ToSet
  <2>2. \A i \in 1 .. N : i \notin A
    BY <1>1, <1>5, <1>6, <1>13 DEF G
  <2>3. ToSet(q) \cap v.susp = {}
    BY <1>1, <1>2, <2>2 DEF ToSet
  <2> QED BY <1>11, <1>12, <1>13, <2>1, <2>3 DEF WokenFirst
<1>14. CASE k <= N
  <2>1. m = k /\ k \in 1 .. N /\ ~ (k > N)
    BY <1>1, <1>6, <1>9, <1>14
  <2>2. q[k] \in v.susp
    <3>1. k \in A
      BY <1>1, <1>5, <2>1 DEF G
    <3> QED BY <1>2, <3>1
  <2>3. \A i \in 1 .. k - 1 : q[i] \notin v.susp
    <3> SUFFICES ASSUME NEW i \in 1 .. k - 1, q[i] \in v.susp PROVE FALSE
      OBVIOUS
    <3>1. i \in 1 .. N /\ ~ (k <= i)
      BY <1>1, <2>1
    <3>2. i \in G
      BY <1>2, <3>1 DEF G
    <3> QED BY <1>5, <3>1, <3>2
  <2>4. k \in DOMAIN q
    BY <1>1, <2>1
  <2> QED BY <1>11, <1>12, <2>1, <2>2, <2>3, <2>4 DEF WokenFirst
<1> QED BY <1>1, <1>6, <1>13, <1>14

(* The event set suspends and wakes by these operators.                     *)
LEMMA EvtWaiting ==
  /\ \A v, t, l, flag, e, wait :
         Evt!SuspendTo(v, t, l, flag, e, wait) = SuspendTo(v, t, l, flag, e, wait)
  /\ \A v, l, e : Evt!Dequeue(v, l, e) = Dequeue(v, l, e)
  /\ \A v, l, e : Evt!ResumeAll(v, l, e) = ResumeAll(v, l, e)
  /\ Evt!WaitStep <=> WaitStep
  /\ \A threads : Evt!WakeThem(threads) = Roused(w, threads)
<1> USE DEF Evt!Suspend, Suspend, Evt!Enqueue, Enqueue, Evt!InsertAt,
            InsertAt, Evt!Ready, Ready, Evt!Unlink, Unlink, Evt!CanReady,
            CanReady, Evt!List, List, Evt!RemoveFirst, RemoveFirst,
            Evt!RemoveAt, RemoveAt, Evt!SelectInSeq, SelectInSeq,
            Evt!SelectInSubSeq, SelectInSubSeq, Evt!Min, Min, Evt!Dequeue,
            Dequeue, Evt!SuspendTo, SuspendTo, Evt!ResumeAll, ResumeAll,
            Evt!ForEach, ForEach
<1>1. ASSUME NEW v, NEW t, NEW l, NEW flag, NEW e, NEW wait
     PROVE  Evt!SuspendTo(v, t, l, flag, e, wait) = SuspendTo(v, t, l, flag, e, wait)
  BY ZenonT(30)
<1>2. ASSUME NEW v, NEW l, NEW e
     PROVE  Evt!Dequeue(v, l, e) = Dequeue(v, l, e)
  BY ZenonT(30)
<1>3. ASSUME NEW v, NEW l, NEW e
     PROVE  Evt!ResumeAll(v, l, e) = ResumeAll(v, l, e)
  BY ZenonT(30)
<1>4. Evt!WaitStep <=> WaitStep
  BY ZenonT(30) DEF Evt!WaitStep, WaitStep, Evt!Expire, Expire, Evt!Timeout,
                    Timeout, Evt!Resume, Resume, Evt!InCallback, InCallback,
                    Evt!CanRun, CanRun, Evt!Actor, Actor
<1>5. ASSUME NEW threads PROVE Evt!WakeThem(threads) = Roused(w, threads)
  BY ZenonT(30) DEF Evt!WakeThem, Roused
<1> HIDE DEF Evt!Suspend, Suspend, Evt!Enqueue, Enqueue, Evt!InsertAt,
             InsertAt, Evt!Ready, Ready, Evt!Unlink, Unlink, Evt!CanReady,
             CanReady, Evt!List, List, Evt!RemoveFirst, RemoveFirst,
             Evt!RemoveAt, RemoveAt, Evt!SelectInSeq, SelectInSeq,
             Evt!SelectInSubSeq, SelectInSubSeq, Evt!Min, Min, Evt!Dequeue,
             Dequeue, Evt!SuspendTo, SuspendTo, Evt!ResumeAll, ResumeAll,
             Evt!ForEach, ForEach
<1> QED BY <1>1, <1>2, <1>3, <1>4, <1>5

(* Requests, and calls at rest.                                             *)
EvtRequests ==
  [want : SUBSET Bit, got : SUBSET Bit, all : BOOLEAN, clear : BOOLEAN]

(* A request holds no more in fewer events.                                 *)
LEMMA HoldsMonotone ==
  ASSUME NEW r, NEW S, NEW T, S \subseteq T, Evt!Holds(r, S)
  PROVE  Evt!Holds(r, T)
BY DEF Evt!Holds

(* A thread sleeps in a receive, with an error and with what it asked for,  *)
(* and only if its condition does not hold; one that is on its way has been *)
(* handed what it asked for.                                                *)
EvtInv ==
  /\ ListsOK(w)
  /\ pc \in [Actor -> {"run", "recv"}]
  /\ arg \in [Actor -> EvtRequests]
  /\ obj \in [set : SUBSET Bit, live : BOOLEAN]
  /\ \A t \in w.susp : pc[t] = "recv" /\ w.err[t] # "EOK" /\ arg[t].got = arg[t].want
  /\ \A t \in ToSet(w.list["main"]) : ~ Evt!Holds(arg[t], obj.set)
  /\ \A t \in WokenIn(w, pc, "recv") :
       arg[t].got \subseteq arg[t].want /\ Evt!Holds(arg[t], arg[t].got)

(* Whoever enters a call is not in one, and is awake.                       *)
LEMMA EvtEnters ==
  ASSUME Nested = FALSE, EvtInv, NEW a \in Actor, Evt!Free(a)
  PROVE  Calm(w) /\ pc[a] = "run" /\ (a \in Thread => a \notin w.susp)
<1>1. CanRun(a) /\ pc[a] = "run"
  BY DEF Evt!Free, Evt!CanRun, CanRun, Evt!InCallback, InCallback
<1> QED BY <1>1, RunsCalm DEF EvtInv

(* Initially.                                                               *)
LEMMA EvtStarts ==
  ASSUME Evt!Init
  PROVE  EvtInv
<1>1. /\ w = InitW /\ pc = [a \in Actor |-> "run"]
      /\ arg = [a \in Actor |-> [want |-> {}, got |-> {}, all |-> FALSE, clear |-> FALSE]]
      /\ obj = [set |-> {}, live |-> TRUE]
  BY DEF Evt!Init, Evt!InitW, InitW, Evt!List, List, Evt!Actor, Actor, Evt!NoRequest, Evt!NewEvent
<1>2. ListsOK(w) /\ w.susp = {} /\ ToSet(w.list["main"]) = {}
  BY <1>1, InitialLists DEF List, ListsOK
<1>3. WokenIn(w, pc, "recv") = {}
  BY <1>1 DEF WokenIn, Actor
<1>4. pc \in [Actor -> {"run", "recv"}] /\ arg \in [Actor -> EvtRequests]
  BY <1>1 DEF EvtRequests
<1>5. obj \in [set : SUBSET Bit, live : BOOLEAN]
  BY <1>1
<1> QED BY <1>2, <1>3, <1>4, <1>5 DEF EvtInv

(* A receive that holds.                                                    *)
LEMMA RecvHolds ==
  ASSUME Nested = FALSE, EvtInv, NEW t \in Thread, NEW r \in EvtRequests,
         pc[t] = "run", t \notin w.susp, Evt!Holds(r, obj.set),
         pc' = [pc EXCEPT ![t] = "recv"], w' = [w EXCEPT !.err[t] = "EOK"],
         arg' = [arg EXCEPT ![t] = [r EXCEPT !.got = r.want \cap obj.set]],
         obj' = IF r.clear THEN [obj EXCEPT !.set = @ \ r.want] ELSE obj
  PROVE  EvtInv'
<1> DEFINE c == [r EXCEPT !.got = r.want \cap obj.set]
<1>1. /\ ListsOK(w) /\ w \in WState /\ w.err \in [Thread -> Error] /\ t \in Actor
      /\ arg \in [Actor -> EvtRequests] /\ pc \in [Actor -> {"run", "recv"}]
      /\ obj \in [set : SUBSET Bit, live : BOOLEAN] /\ w.susp \subseteq Thread
         /\ Thread \subseteq Actor
  BY WFields DEF EvtInv, ListsOK, Actor
<1>2. /\ w' \in WState /\ w'.err = [w.err EXCEPT ![t] = "EOK"]
      /\ w'.list = w.list /\ w'.susp = w.susp /\ w'.timer = w.timer
  <2>1. [w.err EXCEPT ![t] = "EOK"] \in [Thread -> Error]
    BY <1>1 DEF Error
  <2>2. w' = [w EXCEPT !.err = [w.err EXCEPT ![t] = "EOK"]]
    OBVIOUS
  <2> QED BY <1>1, <2>1, <2>2 DEF WState
<1>3. ListsOK(w')
  BY <1>1, <1>2 DEF ListsOK
<1>4. c \in EvtRequests /\ c.want = r.want /\ c.got = r.want \cap obj.set /\ c.all = r.all
  BY <1>1 DEF EvtRequests
<1>5. c.got \subseteq c.want /\ Evt!Holds(c, c.got)
  BY <1>4 DEF Evt!Holds
<1> HIDE DEF c
<1>6. /\ arg' = [arg EXCEPT ![t] = c] /\ arg' \in [Actor -> EvtRequests]
      /\ pc' \in [Actor -> {"run", "recv"}]
  BY <1>1, <1>4 DEF c
<1>7. obj' \in [set : SUBSET Bit, live : BOOLEAN] /\ obj'.set \subseteq obj.set
  BY <1>1
<1>8. ToSet(w'.list["main"]) \subseteq w.susp
  BY <1>1, <1>2 DEF ListsOK, List
<1>9. \A u \in w.susp : arg'[u] = arg[u] /\ pc'[u] = pc[u] /\ w'.err[u] = w.err[u]
  BY <1>1, <1>2, <1>6
<1>10. \A u \in w'.susp : pc'[u] = "recv" /\ w'.err[u] # "EOK" /\ arg'[u].got = arg'[u].want
  BY <1>2, <1>9 DEF EvtInv
<1>11. \A u \in ToSet(w'.list["main"]) : ~ Evt!Holds(arg'[u], obj'.set)
  BY <1>2, <1>7, <1>8, <1>9, HoldsMonotone DEF EvtInv
<1>12. \A u \in WokenIn(w', pc', "recv") :
         arg'[u].got \subseteq arg'[u].want /\ Evt!Holds(arg'[u], arg'[u].got)
  <2> SUFFICES ASSUME NEW u \in WokenIn(w', pc', "recv")
               PROVE  arg'[u].got \subseteq arg'[u].want /\ Evt!Holds(arg'[u], arg'[u].got)
    OBVIOUS
  <2>1. CASE u = t
    BY <1>1, <1>5, <1>6, <2>1
  <2>2. CASE u # t
    <3>1. u \in WokenIn(w, pc, "recv") /\ arg'[u] = arg[u]
      BY <1>1, <1>2, <1>6, <2>2 DEF WokenIn
    <3> QED BY <3>1 DEF EvtInv
  <2> QED BY <2>1, <2>2
<1> QED BY <1>3, <1>6, <1>7, <1>10, <1>11, <1>12 DEF EvtInv

(* A receive that sleeps.                                                   *)
LEMMA RecvSleeps ==
  ASSUME Nested = FALSE, EvtInv, NEW t \in Thread, NEW r \in EvtRequests,
         pc[t] = "run", t \notin w.susp, ~ Evt!Holds(r, obj.set), r.got = r.want,
         pc' = [pc EXCEPT ![t] = "recv"], NEW wait,
         w' = SuspendTo(w, t, "main", Flag, "-EINTR", wait),
         arg' = [arg EXCEPT ![t] = r], obj' = obj
  PROVE  EvtInv'
<1>1. /\ ListsOK(w) /\ w.err \in [Thread -> Error] /\ t \in Actor
      /\ arg \in [Actor -> EvtRequests] /\ pc \in [Actor -> {"run", "recv"}]
      /\ w.susp \subseteq Thread /\ Thread \subseteq Actor
  BY WFields DEF EvtInv, ListsOK, Actor
<1>2. Slept(w, w', t, "main", "-EINTR")
  BY <1>1, SuspendToSleeps DEF List, Error
<1>3. /\ ListsOK(w') /\ w'.susp = w.susp \cup {t} /\ w'.err = [w.err EXCEPT ![t] = "-EINTR"]
      /\ ToSet(w'.list["main"]) = ToSet(w.list["main"]) \cup {t}
      /\ ToSet(w.list["main"]) \subseteq w.susp
  BY <1>1, <1>2 DEF Slept, ListsOK, List
<1>4. arg' \in [Actor -> EvtRequests] /\ pc' \in [Actor -> {"run", "recv"}]
  BY <1>1
<1>5. /\ arg'[t] = r /\ pc'[t] = "recv" /\ w'.err[t] = "-EINTR"
      /\ \A u \in Thread \ {t} : arg'[u] = arg[u] /\ pc'[u] = pc[u] /\ w'.err[u] = w.err[u]
  BY <1>1, <1>3
<1>6. \A u \in w'.susp : pc'[u] = "recv" /\ w'.err[u] # "EOK" /\ arg'[u].got = arg'[u].want
  BY <1>1, <1>3, <1>5 DEF EvtInv
<1>7. \A u \in ToSet(w'.list["main"]) : ~ Evt!Holds(arg'[u], obj'.set)
  BY <1>1, <1>3, <1>5 DEF EvtInv
<1>8. \A u \in WokenIn(w', pc', "recv") : u \in WokenIn(w, pc, "recv") /\ arg'[u] = arg[u]
  BY <1>3, <1>5 DEF WokenIn
<1> QED BY <1>3, <1>4, <1>6, <1>7, <1>8 DEF EvtInv

(* rt_event_recv                                                            *)
LEMMA RecvKeeps ==
  ASSUME Nested = FALSE, EvtInv, NEW t \in Thread, NEW want \in Evt!Some,
         NEW all \in BOOLEAN, NEW clear \in BOOLEAN,
         Evt!Recv(t, [want |-> want, got |-> want, all |-> all, clear |-> clear])
  PROVE  EvtInv'
<1> DEFINE r == [want |-> want, got |-> want, all |-> all, clear |-> clear]
<1>1. r \in EvtRequests /\ r.got = r.want
  BY DEF EvtRequests, Evt!Some
<1>2. pc[t] = "run" /\ t \notin w.susp
  BY EvtEnters DEF Evt!Recv, Actor
<1>3. Evt!Recv(t, r)
  OBVIOUS
<1> HIDE DEF r
<1>4. CASE /\ Evt!Holds(r, obj.set)
           /\ w' = [w EXCEPT !.err[t] = "EOK"]
           /\ arg' = [arg EXCEPT ![t] = [r EXCEPT !.got = r.want \cap obj.set]]
           /\ obj' = IF r.clear THEN [obj EXCEPT !.set = @ \ r.want] ELSE obj
  BY <1>1, <1>2, <1>3, <1>4, RecvHolds DEF Evt!Recv
<1>5. ASSUME ~ Evt!Holds(r, obj.set), NEW wait,
             w' = SuspendTo(w, t, "main", Flag, "-EINTR", wait),
             arg' = [arg EXCEPT ![t] = r], obj' = obj
      PROVE  EvtInv'
  BY <1>1, <1>2, <1>3, <1>5, RecvSleeps DEF Evt!Recv
<1> QED BY <1>3, <1>4, <1>5, EvtWaiting DEF Evt!Recv

(* Its end.                                                                 *)
LEMMA RecvReturnKeeps ==
  ASSUME Nested = FALSE, EvtInv, NEW t \in Thread, Evt!RecvReturn(t)
  PROVE  EvtInv'
<1>1. /\ CanRun(t) /\ pc' = [pc EXCEPT ![t] = "run"] /\ w' = w /\ obj' = obj
      /\ arg' = [arg EXCEPT ![t] = [want |-> {}, got |-> {}, all |-> FALSE, clear |-> FALSE]]
  BY DEF Evt!RecvReturn, Evt!CanRun, CanRun, Evt!InCallback, InCallback, Evt!NoRequest
<1>2. /\ ListsOK(w) /\ t \in Actor /\ arg \in [Actor -> EvtRequests]
         /\ pc \in [Actor -> {"run", "recv"}]
      /\ w.susp \subseteq Thread /\ Thread \subseteq Actor
      /\ ToSet(w.list["main"]) \subseteq w.susp
  BY WFields DEF EvtInv, ListsOK, Actor, List
<1>3. t \notin w.susp
  BY <1>1, <1>2, RunsCalm
<1>4. /\ arg' \in [Actor -> EvtRequests] /\ pc' \in [Actor -> {"run", "recv"}]
      /\ pc'[t] = "run" /\ \A u \in Thread \ {t} : arg'[u] = arg[u] /\ pc'[u] = pc[u]
  BY <1>1, <1>2 DEF EvtRequests
<1>5. \A u \in w.susp : u \in Thread \ {t}
  BY <1>2, <1>3
<1>6. \A u \in WokenIn(w', pc', "recv") : u \in WokenIn(w, pc, "recv") /\ arg'[u] = arg[u]
  BY <1>1, <1>4 DEF WokenIn
<1>7. \A u \in w'.susp : pc'[u] = "recv" /\ w'.err[u] # "EOK" /\ arg'[u].got = arg'[u].want
  BY <1>1, <1>4, <1>5 DEF EvtInv
<1>8. \A u \in ToSet(w'.list["main"]) : ~ Evt!Holds(arg'[u], obj'.set)
  BY <1>1, <1>2, <1>4, <1>5 DEF EvtInv
<1> QED BY <1>1, <1>2, <1>4, <1>6, <1>7, <1>8 DEF EvtInv

(* The waiting threads rt_event_send serves, what is in their hands then,   *)
(* and what it clears.                                                      *)
Served(set) == {t \in ToSet(w.list["main"]) : Evt!Holds(arg[t], set)}

Handed(set) == [t \in Actor |-> IF t \in Served(set) THEN Evt!Received(arg[t], set) ELSE arg[t]]

Cleared(set) == UNION {Handed(set)[t].got : t \in {u \in Served(set) : arg[u].clear}}

(* What it does.                                                            *)
LEMMA SendDoes ==
  ASSUME Nested = FALSE, EvtInv, NEW a \in Actor, NEW bits \in Evt!Some, Evt!Send(a, bits)
  PROVE  /\ WokenUp(w, w', Served(obj.set \cup bits)) /\ pc' = pc
         /\ arg' = Handed(obj.set \cup bits)
         /\ obj' = [obj EXCEPT !.set = (obj.set \cup bits) \ Cleared(obj.set \cup bits)]
<1> DEFINE set == obj.set \cup bits
<1>1. /\ w' = Roused(w, Served(set)) /\ pc' = pc /\ arg' = Handed(set)
      /\ obj' = [obj EXCEPT !.set = set \ Cleared(set)]
  BY EvtWaiting DEF Evt!Send, Served, Handed, Cleared, Actor, Evt!Actor, ToSet, Evt!ToSet
<1>2. Calm(w) /\ ListsOK(w)
  BY EvtEnters DEF Evt!Send, EvtInv
<1>3. Served(set) \subseteq ToSet(w.list["main"])
  BY DEF Served
<1>4. WokenUp(w, Roused(w, Served(set)), Served(set))
  BY <1>2, <1>3, RousedWakes
<1> QED BY <1>1, <1>4

(* What those it serves have in their hands.                                *)
LEMMA HandedHolds ==
  ASSUME EvtInv, NEW bits \in SUBSET Bit
  PROVE  LET set == obj.set \cup bits
         IN  /\ Served(set) \subseteq ToSet(w.list["main"])
             /\ Handed(set) \in [Actor -> EvtRequests]
             /\ \A t \in Served(set) :
                  /\ t \in w.susp /\ Handed(set)[t].clear = arg[t].clear
                  /\ Handed(set)[t].got \subseteq Handed(set)[t].want
                  /\ Evt!Holds(Handed(set)[t], Handed(set)[t].got)
             /\ \A t \in Actor \ Served(set) : Handed(set)[t] = arg[t]
<1> DEFINE set == obj.set \cup bits
<1>1. /\ arg \in [Actor -> EvtRequests] /\ Thread \subseteq Actor /\ set \in SUBSET Bit
      /\ ToSet(w.list["main"]) \subseteq w.susp /\ w.susp \subseteq Thread
  BY WFields DEF EvtInv, ListsOK, Actor, List
<1>2. Served(set) \subseteq ToSet(w.list["main"])
  BY DEF Served
<1>3. ASSUME NEW t \in Served(set)
      PROVE  /\ Evt!Received(arg[t], set) \in EvtRequests
             /\ t \in w.susp /\ t \in Actor /\ Evt!Received(arg[t], set).clear = arg[t].clear
             /\ Evt!Received(arg[t], set).got \subseteq Evt!Received(arg[t], set).want
             /\ Evt!Holds(Evt!Received(arg[t], set), Evt!Received(arg[t], set).got)
  <2> DEFINE r == arg[t]
             c == Evt!Received(r, set)
  <2>1. t \in w.susp /\ t \in Actor /\ r \in EvtRequests /\ r.got = r.want /\ Evt!Holds(r, set)
    BY <1>1, <1>2, <1>3 DEF EvtInv, Served
  <2> HIDE DEF r, set
  <2>2. CASE r.all
    <3>1. c = r
      BY <2>2 DEF Evt!Received
    <3> HIDE DEF c
    <3> QED BY <2>1, <2>2, <3>1 DEF Evt!Holds, c, r
  <2>3. CASE ~ r.all
    <3>1. c = [r EXCEPT !.got = r.got \cap set]
      BY <2>3 DEF Evt!Received
    <3> HIDE DEF c
    <3>2. c \in EvtRequests /\ c.want = r.want /\ c.all = r.all /\ c.clear = r.clear
          /\ c.got = r.want \cap set
      BY <2>1, <3>1 DEF EvtRequests
    <3>3. c.got \subseteq c.want /\ Evt!Holds(c, c.got)
      BY <2>1, <2>3, <3>2 DEF Evt!Holds
    <3> QED BY <2>1, <3>2, <3>3 DEF c, r
  <2> QED BY <2>2, <2>3 DEF r, set
<1> HIDE DEF set
<1>4. \A t \in Actor : Handed(set)[t] = IF t \in Served(set)
      THEN Evt!Received(arg[t], set) ELSE arg[t]
  BY DEF Handed
<1>5. Handed(set) \in [Actor -> EvtRequests]
  BY <1>1, <1>3 DEF Handed
<1> QED BY <1>2, <1>3, <1>4, <1>5 DEF set

(* rt_event_send                                                            *)
LEMMA SendKeeps ==
  ASSUME Nested = FALSE, EvtInv, NEW a \in Actor, NEW bits \in Evt!Some, Evt!Send(a, bits)
  PROVE  EvtInv'
<1> DEFINE set == obj.set \cup bits
           S == Served(set)
<1>1. /\ WokenUp(w, w', S) /\ pc' = pc /\ arg' = Handed(set)
      /\ obj' = [obj EXCEPT !.set = set \ Cleared(set)]
  BY SendDoes
<1>2. bits \in SUBSET Bit
  BY DEF Evt!Some
<1>3. /\ S \subseteq ToSet(w.list["main"]) /\ arg' \in [Actor -> EvtRequests]
      /\ \A t \in S : /\ t \in w.susp /\ arg'[t].got \subseteq arg'[t].want
                      /\ Evt!Holds(arg'[t], arg'[t].got)
      /\ \A t \in Actor \ S : arg'[t] = arg[t]
  BY <1>1, <1>2, HandedHolds
<1>4. /\ ListsOK(w) /\ obj \in [set : SUBSET Bit, live : BOOLEAN]
         /\ pc \in [Actor -> {"run", "recv"}]
      /\ w.susp \subseteq Thread /\ Thread \subseteq Actor
      /\ ToSet(w.list["main"]) \subseteq w.susp
  BY WFields DEF EvtInv, ListsOK, Actor, List
<1>5. \A t \in ToSet(w.list["main"]) \ S : ~ Evt!Holds(arg[t], set)
  BY DEF Served
<1> HIDE DEF S, set
<1>6. /\ ListsOK(w') /\ w'.susp = w.susp \ S
      /\ w'.err = [t \in Thread |-> IF t \in S THEN "EOK" ELSE w.err[t]]
      /\ ToSet(w'.list["main"]) = ToSet(w.list["main"]) \ S
  BY <1>1 DEF WokenUp, List
<1>7. obj' \in [set : SUBSET Bit, live : BOOLEAN] /\ obj'.set \subseteq set
  BY <1>1, <1>2, <1>4 DEF set
<1>8. \A u \in w'.susp : pc'[u] = "recv" /\ w'.err[u] # "EOK" /\ arg'[u].got = arg'[u].want
  BY <1>1, <1>3, <1>4, <1>6 DEF EvtInv
<1>9. \A u \in ToSet(w'.list["main"]) : ~ Evt!Holds(arg'[u], obj'.set)
  BY <1>3, <1>4, <1>5, <1>6, <1>7, HoldsMonotone
<1>10. \A u \in WokenIn(w', pc', "recv") :
         arg'[u].got \subseteq arg'[u].want /\ Evt!Holds(arg'[u], arg'[u].got)
  <2> SUFFICES ASSUME NEW u \in WokenIn(w', pc', "recv")
               PROVE  arg'[u].got \subseteq arg'[u].want /\ Evt!Holds(arg'[u], arg'[u].got)
    OBVIOUS
  <2>1. CASE u \in S
    BY <1>3, <2>1
  <2>2. CASE u \notin S
    <3>1. u \in WokenIn(w, pc, "recv") /\ arg'[u] = arg[u]
      BY <1>1, <1>3, <1>4, <1>6, <2>2 DEF WokenIn
    <3> QED BY <3>1 DEF EvtInv
  <2> QED BY <2>1, <2>2
<1> QED BY <1>1, <1>3, <1>4, <1>6, <1>7, <1>8, <1>9, <1>10 DEF EvtInv

(* RT_IPC_CMD_RESET, rt_event_detach, rt_event_delete.                      *)
LEMMA EvtControlKeeps ==
  ASSUME Nested = FALSE, EvtInv, NEW a \in Actor,
         Evt!Reset(a) \/ Evt!Detach(a) \/ Evt!Reinit(a)
  PROVE  EvtInv'
<1>1. Calm(w) /\ ListsOK(w) /\ pc' = pc /\ arg' = arg /\ "main" \in List /\ "+ERROR" \in Error
  BY EvtEnters DEF Evt!Reset, Evt!Detach, Evt!Reinit, EvtInv, List, Error
<1>2. obj' \in [set : SUBSET Bit, live : BOOLEAN] /\ obj'.set \subseteq obj.set
  <2>1. obj \in [set : SUBSET Bit, live : BOOLEAN]
    BY DEF EvtInv
  <2>2. obj' = [set |-> {}, live |-> TRUE] \/ obj' = [obj EXCEPT !.live = FALSE]
    BY DEF Evt!Reset, Evt!Detach, Evt!Reinit, Evt!NewEvent
  <2>3. CASE obj' = [set |-> {}, live |-> TRUE]
    BY <2>3
  <2>4. CASE obj' = [obj EXCEPT !.live = FALSE]
    BY <2>1, <2>4
  <2> QED BY <2>2, <2>3, <2>4
<1>3. CASE w' = ResumeAll(w, "main", "+ERROR")
  <2>1. Emptied(w, w', "main", "+ERROR")
    BY <1>1, <1>3, ResumeAllEmpties
  <2>2. WokenIn(w', pc', "recv") = WokenIn(w, pc, "recv")
    BY <1>1, <2>1, EmptiedKeeps
  <2>3. /\ ListsOK(w') /\ ToSet(w'.list["main"]) = {} /\ w'.susp \subseteq w.susp
        /\ \A t \in w'.susp : w'.err[t] = w.err[t]
    <3>1. /\ ListsOK(w') /\ w'.list["main"] = <<>>
          /\ w'.susp = w.susp \ ToSet(w.list["main"])
          /\ w'.err = [t \in Thread |-> IF t \in ToSet(w.list["main"]) THEN "+ERROR" ELSE w.err[t]]
      BY <2>1 DEF Emptied
    <3>2. w.susp \subseteq Thread /\ ToSet(<<>>) = {}
      BY <1>1, WFields DEF ListsOK, ToSet
    <3> QED BY <3>1, <3>2
  <2> QED BY <1>1, <1>2, <2>2, <2>3 DEF EvtInv
<1>4. CASE w' = w
  <2>1. \A t \in ToSet(w.list["main"]) : ~ Evt!Holds(arg[t], obj'.set)
    BY <1>2, HoldsMonotone DEF EvtInv
  <2> QED BY <1>1, <1>2, <1>4, <2>1 DEF EvtInv
<1> QED BY <1>3, <1>4, EvtWaiting DEF Evt!Reset, Evt!Detach, Evt!Reinit

(* Time-outs and resumptions.                                               *)
LEMMA EvtWaits ==
  ASSUME Nested = FALSE, EvtInv, Evt!WaitStep, UNCHANGED obj
  PROVE  EvtInv'
<1>1. ListsOK(w) /\ \A t \in w.susp : w.err[t] # "EOK"
  BY DEF EvtInv
<1>2. Waited(w, w') /\ UNCHANGED <<pc, arg>>
  BY <1>1, EvtWaiting, WaitStepWaits
<1>3. WokenIn(w', pc, "recv") = WokenIn(w, pc, "recv")
  BY <1>1, <1>2, WaitedKeeps
<1>4. /\ ListsOK(w') /\ w'.susp \subseteq w.susp
      /\ ToSet(w'.list["main"]) \subseteq ToSet(w.list["main"])
      /\ \A t \in w'.susp : w'.err[t] = w.err[t]
  BY <1>1, <1>2, WaitedShortens DEF List
<1> QED BY <1>2, <1>3, <1>4 DEF EvtInv

(* No step of the event set breaks the invariant.                           *)
LEMMA EvtKeeps ==
  ASSUME Nested = FALSE, EvtInv, Evt!Next
  PROVE  EvtInv'
BY RecvKeeps, RecvReturnKeeps, SendKeeps, EvtControlKeeps, EvtWaits DEF Evt!Next, Actor, Evt!Actor

(* It gives what the runs check.                                            *)
LEMMA EvtServes ==
  ASSUME EvtInv
  PROVE  Evt!NoneMissed
BY DEF EvtInv, Evt!NoneMissed, Evt!Woken, WokenIn, ToSet, Evt!ToSet

(* A step of the event set drops no event that was set.                     *)
LEMMA EvtDrops ==
  ASSUME Nested = FALSE, EvtInv, Evt!Next
  PROVE  Evt!NotDropped
<1> DEFINE Kept == \A b \in obj.set \ obj'.set :
                     \E t \in Evt!Woken("recv")' : arg'[t].clear /\ b \in arg'[t].got
<1>1. \A t \in Thread : pc'[t] = "recv" /\ t \notin w'.susp /\ w'.err[t] = "EOK"
                          => t \in Evt!Woken("recv")'
  BY DEF Evt!Woken
<1>2. /\ w \in WState /\ w.err \in [Thread -> Error] /\ w.susp \subseteq Thread
         /\ Thread \subseteq Actor
      /\ arg \in [Actor -> EvtRequests] /\ pc \in [Actor -> {"run", "recv"}]
      /\ obj \in [set : SUBSET Bit, live : BOOLEAN] /\ ToSet(w.list["main"]) \subseteq w.susp
  BY WFields DEF EvtInv, ListsOK, Actor, List
<1>3. CASE obj' = obj
  BY <1>3 DEF Evt!NotDropped
<1>4. ASSUME NEW t \in Thread, NEW r \in EvtRequests, Evt!Recv(t, r), obj' # obj PROVE Kept
  <2>1. /\ w' = [w EXCEPT !.err[t] = "EOK"] /\ pc' = [pc EXCEPT ![t] = "recv"]
        /\ arg' = [arg EXCEPT ![t] = [r EXCEPT !.got = r.want \cap obj.set]]
        /\ r.clear /\ obj' = [obj EXCEPT !.set = @ \ r.want]
    BY <1>4 DEF Evt!Recv
  <2>2. t \notin w.susp
    BY <1>4, EvtEnters DEF Evt!Recv, Actor
  <2>3. w'.err[t] = "EOK" /\ w'.susp = w.susp /\ pc'[t] = "recv"
    BY <1>2, <2>1 DEF WState
  <2>4. arg'[t].clear /\ arg'[t].got = r.want \cap obj.set
    BY <1>2, <1>4, <2>1 DEF EvtRequests
  <2>5. obj.set \ obj'.set \subseteq r.want \cap obj.set
    BY <1>2, <2>1
  <2>6. t \in Evt!Woken("recv")'
    BY <1>1, <2>2, <2>3
  <2> QED BY <2>4, <2>5, <2>6
<1>5. ASSUME NEW a \in Actor, NEW bits \in Evt!Some, Evt!Send(a, bits) PROVE Kept
  <2> DEFINE set == obj.set \cup bits
  <2>1. /\ WokenUp(w, w', Served(set)) /\ pc' = pc /\ arg' = Handed(set)
        /\ obj' = [obj EXCEPT !.set = set \ Cleared(set)]
    BY <1>5, SendDoes
  <2>2. bits \in SUBSET Bit
    BY DEF Evt!Some
  <2>3. /\ Served(set) \subseteq ToSet(w.list["main"])
        /\ \A t \in Served(set) : arg'[t].clear = arg[t].clear
    BY <2>1, <2>2, HandedHolds
  <2> HIDE DEF set
  <2> SUFFICES ASSUME NEW b \in obj.set, b \notin obj'.set
               PROVE  \E t \in Evt!Woken("recv")' : arg'[t].clear /\ b \in arg'[t].got
    OBVIOUS
  <2>4. b \in set
    BY DEF set
  <2>5. b \in Cleared(set)
    BY <1>2, <2>1, <2>4
  <2>6. PICK t \in Served(set) : arg[t].clear /\ b \in arg'[t].got
    BY <2>1, <2>5 DEF Cleared
  <2>7. t \in w.susp /\ t \in Thread
    BY <1>2, <2>3, <2>6
  <2>8. pc'[t] = "recv" /\ t \notin w'.susp /\ w'.err[t] = "EOK"
    BY <2>1, <2>6, <2>7 DEF WokenUp, EvtInv
  <2> QED BY <1>1, <2>3, <2>6, <2>7, <2>8
<1>6. CASE \E a \in Actor : Evt!Reset(a) \/ Evt!Reinit(a)
  BY <1>6 DEF Evt!NotDropped, Actor, Evt!Actor
<1>7. ASSUME NEW a \in Actor, Evt!Detach(a) PROVE Kept
  BY <1>2, <1>7 DEF Evt!Detach
<1>8. ASSUME NEW t \in Thread, NEW want \in Evt!Some, NEW all \in BOOLEAN, NEW clear \in BOOLEAN,
             Evt!Recv(t, [want |-> want, got |-> want, all |-> all, clear |-> clear])
      PROVE  Evt!NotDropped
  <2>1. [want |-> want, got |-> want, all |-> all, clear |-> clear] \in EvtRequests
    BY DEF EvtRequests, Evt!Some
  <2> QED BY <1>3, <1>4, <1>8, <2>1 DEF Evt!NotDropped
<1>9. CASE \E t \in Thread : Evt!RecvReturn(t)
  BY <1>3, <1>9 DEF Evt!RecvReturn
<1>10. CASE Evt!WaitStep /\ UNCHANGED obj
  BY <1>3, <1>10
<1>11. Kept => Evt!NotDropped
  BY DEF Evt!NotDropped
<1> HIDE DEF Kept
<1> QED BY <1>5, <1>6, <1>7, <1>8, <1>9, <1>10, <1>11 DEF Evt!Next, Actor, Evt!Actor

-----------------------------------------------------------------------------
(* The mailbox. *)

(* The mailbox suspends and wakes by these operators.                       *)
LEMMA BoxWaiting ==
  /\ \A v, t, l, flag, e, wait :
         Box!SuspendTo(v, t, l, flag, e, wait) = SuspendTo(v, t, l, flag, e, wait)
  /\ \A v, l, e : Box!Dequeue(v, l, e) = Dequeue(v, l, e)
  /\ \A v, l, e : Box!ResumeAll(v, l, e) = ResumeAll(v, l, e)
  /\ Box!WaitStep <=> WaitStep
<1> USE DEF Box!Suspend, Suspend, Box!Enqueue, Enqueue, Box!InsertAt,
            InsertAt, Box!Ready, Ready, Box!Unlink, Unlink, Box!CanReady,
            CanReady, Box!List, List, Box!RemoveFirst, RemoveFirst,
            Box!RemoveAt, RemoveAt, Box!SelectInSeq, SelectInSeq,
            Box!SelectInSubSeq, SelectInSubSeq, Box!Min, Min, Box!Dequeue,
            Dequeue, Box!SuspendTo, SuspendTo, Box!ResumeAll, ResumeAll,
            Box!ForEach, ForEach
<1>1. ASSUME NEW v, NEW t, NEW l, NEW flag, NEW e, NEW wait
     PROVE  Box!SuspendTo(v, t, l, flag, e, wait) = SuspendTo(v, t, l, flag, e, wait)
  BY ZenonT(30)
<1>2. ASSUME NEW v, NEW l, NEW e
     PROVE  Box!Dequeue(v, l, e) = Dequeue(v, l, e)
  BY ZenonT(30)
<1>3. ASSUME NEW v, NEW l, NEW e
     PROVE  Box!ResumeAll(v, l, e) = ResumeAll(v, l, e)
  BY ZenonT(30)
<1>4. Box!WaitStep <=> WaitStep
  BY ZenonT(30) DEF Box!WaitStep, WaitStep, Box!Expire, Expire, Box!Timeout,
                    Timeout, Box!Resume, Resume, Box!InCallback, InCallback,
                    Box!CanRun, CanRun, Box!Actor, Actor
<1> HIDE DEF Box!Suspend, Suspend, Box!Enqueue, Enqueue, Box!InsertAt,
             InsertAt, Box!Ready, Ready, Box!Unlink, Unlink, Box!CanReady,
             CanReady, Box!List, List, Box!RemoveFirst, RemoveFirst,
             Box!RemoveAt, RemoveAt, Box!SelectInSeq, SelectInSeq,
             Box!SelectInSubSeq, SelectInSubSeq, Box!Min, Min, Box!Dequeue,
             Dequeue, Box!SuspendTo, SuspendTo, Box!ResumeAll, ResumeAll,
             Box!ForEach, ForEach
<1> QED BY <1>1, <1>2, <1>3, <1>4

(* As many waiting threads are on their way as there are mails, or places,  *)
(* for them, while others still sleep.                                      *)
BoxServed(v, c, entry) ==
  /\ v.list["main"] # <<>> => entry <= Cardinality(WokenIn(v, c, "recv"))
  /\ v.list["sender"] # <<>> => Size - entry <= Cardinality(WokenIn(v, c, "send"))

(* Receivers sleep in one list and senders in the other, with an error.     *)
BoxInv ==
  /\ ListsOK(w)
  /\ pc \in [Actor -> {"run", "send", "recv", "got"}]
  /\ "entry" \in DOMAIN obj /\ obj.entry \in 0 .. Size
  /\ \A t \in w.susp : w.err[t] # "EOK"
  /\ \A t \in ToSet(w.list["main"]) : pc[t] = "recv"
  /\ \A t \in ToSet(w.list["sender"]) : pc[t] = "send"
  /\ \A t \in w.susp : pc[t] \in {"send", "recv"}
  /\ BoxServed(w, pc, obj.entry)

(* Numbers from 1 on, whatever the last one.                                *)
LEMMA FromOne ==
  ASSUME NEW m, NEW x \in 1 .. m
  PROVE  x \in Nat /\ x > 0
OBVIOUS

(* A mailbox has a place.                                                   *)
LEMMA BoxSize ==
  Size \in Nat /\ Size > 0
BY IpcAssumption, FromOne, Zenon DEF Box!MailboxAssumption

(* Whoever runs is awake.                                                   *)
LEMMA BoxRuns ==
  ASSUME Nested = FALSE, BoxInv, NEW a \in Actor, Box!CanRun(a)
  PROVE  Calm(w) /\ (a \in Thread => a \notin w.susp)
<1>1. CanRun(a)
  BY DEF Box!CanRun, CanRun, Box!InCallback, InCallback
<1> QED BY <1>1, RunsCalm DEF BoxInv

(* Initially.                                                               *)
LEMMA BoxStarts ==
  ASSUME Box!Init
  PROVE  BoxInv
<1>1. /\ w = InitW /\ pc = [a \in Actor |-> "run"] /\ obj.entry = 0
  BY DEF Box!Init, Box!InitW, InitW, Box!List, List, Box!Actor, Actor, Box!Empty
<1>2. /\ ListsOK(w) /\ w.susp = {}
      /\ w.list["main"] = <<>> /\ w.list["sender"] = <<>>
  BY <1>1, InitialLists DEF List
<1>3. Size \in Nat /\ 0 \in 0 .. Size
  BY BoxSize
<1>4. /\ pc \in [Actor -> {"run", "send", "recv", "got"}]
      /\ "entry" \in DOMAIN obj /\ obj.entry \in 0 .. Size
  <2>1. obj = [pool |-> [i \in Box!Place |-> Null], in |-> 0, out |-> 0, entry |-> 0]
    BY DEF Box!Init, Box!Empty
  <2>2. DOMAIN obj = {"pool", "in", "out", "entry"}
    BY <2>1
  <2> QED BY <1>1, <1>3, <2>2
<1>5. \A l \in {"main", "sender"} : ToSet(w.list[l]) = {}
  <2>1. \A l \in {"main", "sender"} : w.list[l] \in Seq(Thread)
    BY <1>2, WFields DEF ListsOK, List
  <2> QED BY <1>2, <2>1, EmptyList
<1>6. BoxServed(w, pc, obj.entry)
  BY <1>2 DEF BoxServed
<1> QED BY <1>2, <1>4, <1>5, <1>6 DEF BoxInv

(* What the object is like when the first thread of the list l, at p, has   *)
(* been woken, or nobody waited there.                                      *)
Fetched(v, r, c, l, p) ==
  /\ ListsOK(r) /\ Calm(r) /\ r.susp \subseteq v.susp
  /\ \A t \in r.susp : r.err[t] = v.err[t]
  /\ \A m \in List : ToSet(r.list[m]) \subseteq ToSet(v.list[m])
  /\ \A m \in List \ {l} : r.list[m] = v.list[m]
  /\ \A q : q # p => WokenIn(r, c, q) = WokenIn(v, c, q)
  /\ \/ r.list[l] = <<>> /\ WokenIn(r, c, p) = WokenIn(v, c, p)
     \/ \E t \in ToSet(v.list[l]) : /\ t \notin WokenIn(v, c, p)
                                    /\ WokenIn(r, c, p) = WokenIn(v, c, p) \cup {t}

(* rt_susp_list_dequeue wakes the first thread of a list, or nobody.         *)
LEMMA DequeueFetches ==
  ASSUME NEW v, ListsOK(v), Calm(v), NEW c, NEW l \in List, NEW p,
         \A t \in ToSet(v.list[l]) : c[t] = p
  PROVE  Fetched(v, Dequeue(v, l, "EOK"), c, l, p)
<1> DEFINE r == Dequeue(v, l, "EOK")
           h == Head(v.list[l])
<1>3. v.list[l] = <<>> => r = v
  BY DEF Dequeue
<1>4. v.list[l] # <<>> =>
        h \in ToSet(v.list[l]) /\ h \in v.susp /\ h \in Thread /\ Dequeued(v, r, h, "EOK")
  BY DequeueFrees DEF Error
<1> SUFFICES Fetched(v, r, c, l, p)
  OBVIOUS
<1> HIDE DEF r, h
<1>1. CASE v.list[l] = <<>>
  BY <1>1, <1>3 DEF Fetched
<1>2. CASE v.list[l] # <<>>
  <2>1. h \in ToSet(v.list[l]) /\ h \in v.susp /\ h \in Thread /\ Dequeued(v, r, h, "EOK")
    BY <1>2, <1>4
  <2>2. c[h] = p
    BY <2>1
  <2>3. h \notin WokenIn(v, c, p) /\ WokenIn(r, c, p) = WokenIn(v, c, p) \cup {h}
    BY <2>1, <2>2, DequeuedJoins
  <2>4. ASSUME NEW q, q # p PROVE WokenIn(r, c, q) = WokenIn(v, c, q)
    BY <2>1, <2>2, <2>4, DequeuedJoins
  <2>5. /\ ListsOK(r) /\ Calm(r) /\ r.susp = v.susp \ {h} /\ r.err = [v.err EXCEPT ![h] = "EOK"]
        /\ \A m \in List : r.list[m] = RemoveFirst(v.list[m], h)
        /\ \A m \in List : ToSet(r.list[m]) = ToSet(v.list[m]) \ {h}
    BY <2>1 DEF Dequeued, Freed
  <2>6. \A t \in r.susp : r.err[t] = v.err[t]
    BY <2>5, WFields DEF ListsOK
  <2>7. ASSUME NEW m \in List \ {l} PROVE r.list[m] = v.list[m]
    <3>1. ToSet(v.list[m]) \cap ToSet(v.list[l]) = {}
      BY <2>7 DEF ListsOK
    <3>2. v.list[m] \in Seq(Thread)
      BY <2>7, WFields DEF ListsOK
    <3>3. h \notin ToSet(v.list[m])
      BY <2>1, <3>1
    <3>4. RemoveFirst(v.list[m], h) = v.list[m]
      BY <3>2, <3>3, RemoveAbsent
    <3> QED BY <2>5, <3>4
  <2> QED BY <2>1, <2>3, <2>4, <2>5, <2>6, <2>7 DEF Fetched
<1> QED BY <1>1, <1>2

(* Something is put, for which the threads of the list l wait at p, and one *)
(* of them is woken; the thread a that put it leaves the call in which it   *)
(* took a place, for which the threads of the list o wait at q.  There were *)
(* n things and m places, matched by those on the way.                      *)
Passing(v, r, c, d, a, l, o, p, q, n, m) ==
  /\ l \in List /\ o \in List \ {l} /\ p # q /\ Fetched(v, r, c, l, p)
  /\ c[a] # p /\ d[a] # p /\ d[a] # q /\ \A u \in Thread \ {a} : d[u] = c[u]
  /\ n \in Nat /\ (v.list[l] # <<>> => n <= Cardinality(WokenIn(v, c, p)))
  /\ m \in Nat /\ (v.list[o] # <<>> => m <= Cardinality(WokenIn(v, c, q)))

(* The thing is matched by the thread that was woken.                       *)
LEMMA PassedOn ==
  ASSUME NEW v, NEW r, NEW c, NEW d, NEW a, NEW l, NEW o, NEW p, NEW q, NEW n, NEW m,
         Passing(v, r, c, d, a, l, o, p, q, n, m)
  PROVE  /\ r.list[l] # <<>> => n + 1 <= Cardinality(WokenIn(r, d, p))
         /\ r.list[o] # <<>> => m - 1 <= Cardinality(WokenIn(r, d, q))
<1> USE DEF Passing
<1> DEFINE P == WokenIn(v, c, p)
           Q == WokenIn(v, c, q)
<1>1. WokenIn(r, d, p) = WokenIn(r, c, p) /\ WokenIn(r, d, q) = Q \ {a}
  <2>1. WokenIn(r, d, p) = WokenIn(r, c, p) \ {a} /\ a \notin WokenIn(r, c, p)
    <3>1. a \notin WokenIn(r, c, p)
      BY DEF WokenIn
    <3> QED BY <3>1, MovedLeaves
  <2>2. WokenIn(r, d, q) = WokenIn(r, c, q) \ {a}
    BY MovedLeaves
  <2> QED BY <2>1, <2>2 DEF Fetched
<1>2. P \in SUBSET Thread /\ Q \in SUBSET Thread
  BY DEF WokenIn
<1>3. \/ r.list[l] = <<>>
      \/ \E t \in ToSet(v.list[l]) : t \notin P /\ WokenIn(r, d, p) = P \cup {t}
  BY <1>1 DEF Fetched
<1>4. r.list[o] = v.list[o]
  BY DEF Fetched
<1> HIDE DEF P, Q
<1>5. r.list[l] # <<>> => n + 1 <= Cardinality(WokenIn(r, d, p))
  <2> SUFFICES ASSUME NEW t \in ToSet(v.list[l]), t \notin P, WokenIn(r, d, p) = P \cup {t}
               PROVE  n + 1 <= Cardinality(P \cup {t})
    BY <1>3
  <2>1. v.list[l] # <<>>
    BY DEF ToSet
  <2>2. n <= Cardinality(P)
    BY <2>1 DEF P
  <2>3. t \in Thread
    BY DEF Fetched, WokenIn
  <2>4. Cardinality(P) \in Nat /\ Cardinality(P \cup {t}) = Cardinality(P) + 1
    BY <1>2, <2>3, CountOne
  <2> QED BY <2>2, <2>4
<1>6. r.list[o] # <<>> => m - 1 <= Cardinality(WokenIn(r, d, q))
  <2>1. Cardinality(Q) \in Nat
    BY <1>2, CardinalityNat
  <2>4. v.list[o] # <<>> => m <= Cardinality(Q)
    BY DEF Q
  <2>2. CASE a \in Q
    <3>1. Cardinality(Q \ {a}) = Cardinality(Q) - 1
      BY <1>2, <2>2, CountOne
    <3> QED BY <1>1, <1>4, <2>1, <2>4, <3>1
  <2>3. CASE a \notin Q
    <3>1. WokenIn(r, d, q) = Q
      BY <1>1, <2>3
    <3>2. m - 1 <= m
      OBVIOUS
    <3>3. v.list[o] # <<>> => m - 1 <= Cardinality(Q)
      BY <2>1, <2>4, <3>2
    <3> QED BY <1>4, <3>1, <3>3
  <2> QED BY <2>2, <2>3
<1> QED BY <1>5, <1>6

(* A mail is stored, and a receiver woken.                                  *)
LEMMA BoxPuts ==
  ASSUME BoxInv, Calm(w), NEW a \in Actor, a \in Thread => a \notin w.susp,
         pc[a] \in {"run", "send"}, obj.entry < Size,
         w' = Dequeue(w, "main", "EOK"), pc' = [pc EXCEPT ![a] = "run"],
         "entry" \in DOMAIN obj', obj'.entry = obj.entry + 1
  PROVE  BoxInv'
<1>1. /\ ListsOK(w) /\ "main" \in List /\ "sender" \in List \ {"main"}
      /\ pc \in [Actor -> {"run", "send", "recv", "got"}]
      /\ Size \in Nat /\ obj.entry \in Nat /\ obj.entry < Size
  <2>1. obj.entry \in 0 .. Size
    BY DEF BoxInv
  <2> QED BY <2>1, BoxSize DEF BoxInv, List
<1>2. Fetched(w, w', pc, "main", "recv")
  <2>1. \A t \in ToSet(w.list["main"]) : pc[t] = "recv"
    BY DEF BoxInv
  <2> QED BY <1>1, <2>1, DequeueFetches
<1>3. /\ pc' \in [Actor -> {"run", "send", "recv", "got"}] /\ pc'[a] = "run"
      /\ \A u \in Thread \ {a} : pc'[u] = pc[u]
  BY <1>1 DEF Actor
<1>4. /\ w'.list["main"] # <<>> => obj.entry + 1 <= Cardinality(WokenIn(w', pc', "recv"))
      /\ w'.list["sender"] # <<>> => (Size - obj.entry) - 1 <= Cardinality(WokenIn(w', pc', "send"))
  <2>1. Size - obj.entry \in Nat
    BY <1>1
  <2>2. /\ w.list["main"] # <<>> => obj.entry <= Cardinality(WokenIn(w, pc, "recv"))
        /\ w.list["sender"] # <<>> => Size - obj.entry <= Cardinality(WokenIn(w, pc, "send"))
    BY DEF BoxInv, BoxServed
  <2> DEFINE k == Size - obj.entry
  <2> HIDE DEF k
  <2>3. k \in Nat /\ (w.list["sender"] # <<>> => k <= Cardinality(WokenIn(w, pc, "send")))
    BY <2>1, <2>2 DEF k
  <2>4. pc[a] # "recv" /\ pc'[a] # "recv" /\ pc'[a] # "send" /\ "recv" # "send"
    BY <1>3
  <2>5. Passing(w, w', pc, pc', a, "main", "sender", "recv", "send", obj.entry, k)
    BY <1>1, <1>2, <1>3, <2>2, <2>3, <2>4 DEF Passing
  <2>6. /\ w'.list["main"] # <<>> => obj.entry + 1 <= Cardinality(WokenIn(w', pc', "recv"))
        /\ w'.list["sender"] # <<>> => k - 1 <= Cardinality(WokenIn(w', pc', "send"))
    BY <2>5, PassedOn
  <2> QED BY <2>6 DEF k
<1>5. (Size - obj.entry) - 1 = Size - obj'.entry /\ obj'.entry \in 0 .. Size
  BY <1>1
<1>6. BoxServed(w', pc', obj'.entry)
  BY <1>4, <1>5 DEF BoxServed
<1>7. /\ ListsOK(w') /\ \A t \in w'.susp : w'.err[t] # "EOK"
      /\ \A t \in ToSet(w'.list["main"]) : pc'[t] = "recv"
      /\ \A t \in ToSet(w'.list["sender"]) : pc'[t] = "send"
      /\ \A t \in w'.susp : pc'[t] \in {"send", "recv"}
  <2>1. /\ ListsOK(w') /\ w'.susp \subseteq w.susp
        /\ \A t \in w'.susp : w'.err[t] = w.err[t]
        /\ ToSet(w'.list["main"]) \subseteq ToSet(w.list["main"])
        /\ ToSet(w'.list["sender"]) \subseteq ToSet(w.list["sender"])
    BY <1>1, <1>2 DEF Fetched
  <2>2. \A t \in w.susp : t \in Thread \ {a}
    BY <1>1, WFields DEF ListsOK
  <2>3. /\ ToSet(w.list["main"]) \subseteq w.susp /\ ToSet(w.list["sender"]) \subseteq w.susp
    BY <1>1 DEF ListsOK
  <2> QED BY <1>3, <2>1, <2>2, <2>3 DEF BoxInv
<1> QED BY <1>3, <1>5, <1>6, <1>7 DEF BoxInv, BoxServed

(* A mail is taken, and a sender woken.                                     *)
LEMMA BoxGets ==
  ASSUME BoxInv, Calm(w), NEW a \in Actor, a \in Thread => a \notin w.susp,
         pc[a] \in {"run", "recv"}, obj.entry > 0,
         w' = Dequeue(w, "sender", "EOK"), pc' = [pc EXCEPT ![a] = "got"],
         "entry" \in DOMAIN obj', obj'.entry = obj.entry - 1
  PROVE  BoxInv'
<1>1. /\ ListsOK(w) /\ "sender" \in List /\ "main" \in List \ {"sender"}
      /\ pc \in [Actor -> {"run", "send", "recv", "got"}]
      /\ Size \in Nat /\ obj.entry \in Nat /\ obj.entry > 0 /\ Size - obj.entry \in Nat
  <2>1. obj.entry \in 0 .. Size
    BY DEF BoxInv
  <2> QED BY <2>1, BoxSize DEF BoxInv, List
<1>2. Fetched(w, w', pc, "sender", "send")
  <2>1. \A t \in ToSet(w.list["sender"]) : pc[t] = "send"
    BY DEF BoxInv
  <2> QED BY <1>1, <2>1, DequeueFetches
<1>3. /\ pc' \in [Actor -> {"run", "send", "recv", "got"}] /\ pc'[a] = "got"
      /\ \A u \in Thread \ {a} : pc'[u] = pc[u]
  BY <1>1 DEF Actor
<1>4. /\ w'.list["main"] # <<>> => obj.entry - 1 <= Cardinality(WokenIn(w', pc', "recv"))
      /\ w'.list["sender"] # <<>> => (Size - obj.entry) + 1 <= Cardinality(WokenIn(w', pc', "send"))
  <2>1. Size - obj.entry \in Nat
    BY <1>1
  <2>2. /\ w.list["main"] # <<>> => obj.entry <= Cardinality(WokenIn(w, pc, "recv"))
        /\ w.list["sender"] # <<>> => Size - obj.entry <= Cardinality(WokenIn(w, pc, "send"))
    BY DEF BoxInv, BoxServed
  <2> DEFINE k == Size - obj.entry
  <2> HIDE DEF k
  <2>3. k \in Nat /\ (w.list["sender"] # <<>> => k <= Cardinality(WokenIn(w, pc, "send")))
    BY <2>1, <2>2 DEF k
  <2>4. pc[a] # "send" /\ pc'[a] # "recv" /\ pc'[a] # "send" /\ "recv" # "send"
    BY <1>3
  <2>5. Passing(w, w', pc, pc', a, "sender", "main", "send", "recv", k, obj.entry)
    BY <1>1, <1>2, <1>3, <2>2, <2>3, <2>4 DEF Passing
  <2>6. /\ w'.list["main"] # <<>> => obj.entry - 1 <= Cardinality(WokenIn(w', pc', "recv"))
        /\ w'.list["sender"] # <<>> => k + 1 <= Cardinality(WokenIn(w', pc', "send"))
    BY <2>5, PassedOn
  <2> QED BY <2>6 DEF k
<1>5. (Size - obj.entry) + 1 = Size - obj'.entry /\ obj'.entry \in 0 .. Size
  BY <1>1
<1>6. BoxServed(w', pc', obj'.entry)
  BY <1>4, <1>5 DEF BoxServed
<1>7. /\ ListsOK(w') /\ \A t \in w'.susp : w'.err[t] # "EOK"
      /\ \A t \in ToSet(w'.list["main"]) : pc'[t] = "recv"
      /\ \A t \in ToSet(w'.list["sender"]) : pc'[t] = "send"
      /\ \A t \in w'.susp : pc'[t] \in {"send", "recv"}
  <2>1. /\ ListsOK(w') /\ w'.susp \subseteq w.susp
        /\ \A t \in w'.susp : w'.err[t] = w.err[t]
        /\ ToSet(w'.list["main"]) \subseteq ToSet(w.list["main"])
        /\ ToSet(w'.list["sender"]) \subseteq ToSet(w.list["sender"])
    BY <1>1, <1>2 DEF Fetched
  <2>2. \A t \in w.susp : t \in Thread \ {a}
    BY <1>1, WFields DEF ListsOK
  <2>3. /\ ToSet(w.list["main"]) \subseteq w.susp /\ ToSet(w.list["sender"]) \subseteq w.susp
    BY <1>1 DEF ListsOK
  <2> QED BY <1>3, <2>1, <2>2, <2>3 DEF BoxInv
<1> QED BY <1>3, <1>5, <1>6, <1>7 DEF BoxInv, BoxServed

(* A thread goes to sleep in a call: a sender while there is no place, a    *)
(* receiver while there is no mail.                                         *)
BoxSleep(t, l, p, wait) ==
  /\ t \in Thread /\ t \notin w.susp /\ l \in List /\ pc[t] \in {"run", p}
  /\ \/ l = "main" /\ p = "recv" /\ obj.entry = 0
     \/ l = "sender" /\ p = "send" /\ obj.entry = Size
  /\ w' = SuspendTo(w, t, l, Flag, "-EINTR", wait)
  /\ pc' = [pc EXCEPT ![t] = p] /\ UNCHANGED obj

(* That leaves the others served.                                           *)
LEMMA BoxSleeps ==
  ASSUME BoxInv, Calm(w), NEW t, NEW l, NEW p, NEW wait, BoxSleep(t, l, p, wait)
  PROVE  BoxInv'
<1> USE DEF BoxSleep
<1>1. /\ ListsOK(w) /\ t \in Actor /\ pc \in [Actor -> {"run", "send", "recv", "got"}]
      /\ "-EINTR" \in Error
  BY DEF BoxInv, Actor, Error
<1>2. Slept(w, w', t, l, "-EINTR")
  BY <1>1, SuspendToSleeps
<1>3. /\ ListsOK(w') /\ w'.susp = w.susp \cup {t} /\ w'.err = [w.err EXCEPT ![t] = "-EINTR"]
      /\ ToSet(w'.list[l]) = ToSet(w.list[l]) \cup {t}
      /\ \A m \in List \ {l} : w'.list[m] = w.list[m]
  BY <1>2 DEF Slept
<1>4. pc' \in [Actor -> {"run", "send", "recv", "got"}] /\ pc'[t] = p
      /\ \A u \in Thread \ {t} : pc'[u] = pc[u]
  BY <1>1 DEF Actor
<1>5. \A u \in w'.susp : w'.err[u] # "EOK" /\ pc'[u] \in {"send", "recv"}
  BY <1>1, <1>3, <1>4, WFields DEF BoxInv, ListsOK
<1>6. /\ \A u \in ToSet(w'.list["main"]) : pc'[u] = "recv"
      /\ \A u \in ToSet(w'.list["sender"]) : pc'[u] = "send"
  <2>1. \A m \in List : \A u \in ToSet(w.list[m]) : u \in Thread \ {t}
    BY <1>1, WFields DEF ListsOK
  <2> QED BY <1>3, <1>4, <2>1 DEF BoxInv, List
<1>7. \A q : pc[t] # q /\ p # q => WokenIn(w', pc', q) = WokenIn(w, pc, q)
  <2> SUFFICES ASSUME NEW q, pc[t] # q, p # q PROVE WokenIn(w', pc', q) = WokenIn(w, pc, q)
    OBVIOUS
  <2>1. WokenIn(w', pc', q) = WokenIn(w, pc', q) \ {t}
    BY <1>1, <1>2, SleptLeaves
  <2>2. WokenIn(w, pc', q) = WokenIn(w, pc, q) \ {t}
    BY <1>4 DEF WokenIn
  <2>3. t \notin WokenIn(w, pc, q)
    BY DEF WokenIn
  <2> QED BY <2>1, <2>2, <2>3
<1>8. 0 <= Cardinality(WokenIn(w', pc', "recv")) /\ 0 <= Cardinality(WokenIn(w', pc', "send"))
  <2>1. WokenIn(w', pc', "recv") \in SUBSET Thread /\ WokenIn(w', pc', "send") \in SUBSET Thread
    BY DEF WokenIn
  <2>2. /\ Cardinality(WokenIn(w', pc', "recv")) \in Nat
        /\ Cardinality(WokenIn(w', pc', "send")) \in Nat
    BY <2>1, CardinalityNat
  <2> QED BY <2>2
<1>9. BoxServed(w', pc', obj.entry)
  <2>1. CASE l = "main" /\ p = "recv" /\ obj.entry = 0
    <3>1. WokenIn(w', pc', "send") = WokenIn(w, pc, "send") /\ w'.list["sender"] = w.list["sender"]
      BY <1>3, <1>7, <2>1 DEF List
    <3> QED BY <1>8, <2>1, <3>1 DEF BoxInv, BoxServed
  <2>2. CASE l = "sender" /\ p = "send" /\ obj.entry = Size
    <3>1. WokenIn(w', pc', "recv") = WokenIn(w, pc, "recv") /\ w'.list["main"] = w.list["main"]
      BY <1>3, <1>7, <2>2 DEF List
    <3>2. Size - obj.entry = 0
      BY <2>2, BoxSize
    <3> QED BY <1>8, <2>2, <3>1, <3>2 DEF BoxInv, BoxServed
  <2> QED BY <2>1, <2>2
<1>10. BoxServed(w', pc', obj'.entry)
  BY <1>9
<1> QED BY <1>3, <1>4, <1>5, <1>6, <1>10 DEF BoxInv, BoxServed

(* A call returns: it was woken with an error, or finds no time left and no *)
(* place or mail, or has its mail.                                          *)
LEMMA BoxReturns ==
  ASSUME BoxInv, NEW a \in Actor, a \in Thread => a \notin w.susp,
         UNCHANGED obj, pc' = [pc EXCEPT ![a] = "run"],
         \/ w' = w
         \/ a \in Thread /\ \E e \in Error \ {"EOK"} : w' = [w EXCEPT !.err[a] = e],
         \/ a \in Thread /\ w.err[a] # "EOK"
         \/ pc[a] = "got"
         \/ pc[a] = "send" /\ obj.entry = Size
         \/ pc[a] = "recv" /\ obj.entry = 0
  PROVE  BoxInv'
<1>1. /\ ListsOK(w) /\ w \in WState /\ w.err \in [Thread -> Error] /\ w.susp \in SUBSET Thread
      /\ pc \in [Actor -> {"run", "send", "recv", "got"}]
  BY WFields DEF BoxInv, ListsOK
<1>2. /\ w' \in WState /\ w'.list = w.list /\ w'.susp = w.susp /\ w'.timer = w.timer
      /\ \A u \in Thread \ {a} : w'.err[u] = w.err[u]
  <2>1. CASE w' = w
    BY <1>1, <2>1
  <2>2. ASSUME a \in Thread, NEW e \in Error \ {"EOK"}, w' = [w EXCEPT !.err[a] = e]
        PROVE  /\ w' \in WState /\ w'.list = w.list /\ w'.susp = w.susp /\ w'.timer = w.timer
               /\ w'.err = [w.err EXCEPT ![a] = e]
    <3>1. w' = [w EXCEPT !.err = [w.err EXCEPT ![a] = e]]
      BY <2>2
    <3>2. [w.err EXCEPT ![a] = e] \in [Thread -> Error]
      BY <1>1, <2>2
    <3> QED BY <1>1, <3>1, <3>2 DEF WState
  <2>3. ASSUME a \in Thread, NEW e \in Error \ {"EOK"}, w' = [w EXCEPT !.err[a] = e]
        PROVE  \A u \in Thread \ {a} : w'.err[u] = w.err[u]
    BY <1>1, <2>2, <2>3
  <2> QED BY <2>1, <2>2, <2>3
<1>3. ListsOK(w')
  BY <1>1, <1>2 DEF ListsOK
<1>4. /\ pc' \in [Actor -> {"run", "send", "recv", "got"}] /\ pc'[a] = "run"
      /\ \A u \in Thread \ {a} : pc'[u] = pc[u]
  BY <1>1 DEF Actor
<1>5. /\ \A u \in w'.susp : u \in Thread \ {a}
      /\ \A l \in List : ToSet(w'.list[l]) \subseteq w'.susp
  BY <1>1, <1>2, <1>3 DEF ListsOK
<1>6. /\ \A u \in w'.susp : w'.err[u] # "EOK" /\ pc'[u] \in {"send", "recv"}
      /\ \A u \in ToSet(w'.list["main"]) : pc'[u] = "recv"
      /\ \A u \in ToSet(w'.list["sender"]) : pc'[u] = "send"
  BY <1>2, <1>4, <1>5 DEF BoxInv, List
<1>7. ASSUME NEW q \in {"send", "recv"} PROVE WokenIn(w', pc', q) = WokenIn(w, pc, q) \ {a}
  BY <1>2, <1>4, <1>7 DEF WokenIn
<1>8. \A q : a \notin WokenIn(w, pc, q) => WokenIn(w, pc, q) \ {a} = WokenIn(w, pc, q)
  OBVIOUS
<1>9. 0 <= Cardinality(WokenIn(w', pc', "recv")) /\ 0 <= Cardinality(WokenIn(w', pc', "send"))
  <2>1. WokenIn(w', pc', "recv") \in SUBSET Thread /\ WokenIn(w', pc', "send") \in SUBSET Thread
    BY DEF WokenIn
  <2>2. /\ Cardinality(WokenIn(w', pc', "recv")) \in Nat
        /\ Cardinality(WokenIn(w', pc', "send")) \in Nat
    BY <2>1, CardinalityNat
  <2> QED BY <2>2
<1>10. BoxServed(w', pc', obj.entry)
  <2>1. \/ a \notin WokenIn(w, pc, "recv") \/ obj.entry <= Cardinality(WokenIn(w', pc', "recv"))
    <3>1. obj.entry = 0 => obj.entry <= Cardinality(WokenIn(w', pc', "recv"))
      BY <1>9
    <3> QED BY <3>1 DEF WokenIn
  <2>2. \/ a \notin WokenIn(w, pc, "send")
        \/ Size - obj.entry <= Cardinality(WokenIn(w', pc', "send"))
    <3>1. obj.entry = Size => Size - obj.entry <= Cardinality(WokenIn(w', pc', "send"))
      BY <1>9, BoxSize
    <3> QED BY <3>1 DEF WokenIn
  <2>3. /\ a \notin WokenIn(w, pc, "recv") => WokenIn(w', pc', "recv") = WokenIn(w, pc, "recv")
        /\ a \notin WokenIn(w, pc, "send") => WokenIn(w', pc', "send") = WokenIn(w, pc, "send")
    BY <1>7, <1>8
  <2> QED BY <1>2, <2>1, <2>2, <2>3 DEF BoxInv, BoxServed
<1>11. BoxServed(w', pc', obj'.entry)
  BY <1>10
<1> QED BY <1>3, <1>4, <1>6, <1>11 DEF BoxInv, BoxServed

(* rt_mb_send_wait                                                          *)
LEMMA BoxSendKeeps ==
  ASSUME Nested = FALSE, BoxInv, NEW a \in Actor, NEW m, Box!Send(a, m)
  PROVE  BoxInv'
<1>1. Calm(w) /\ (a \in Thread => a \notin w.susp) /\ pc[a] = "run"
  BY BoxRuns DEF Box!Send, Box!Free
<1>2. pc \in [Actor -> {"run", "send", "recv", "got"}] /\ "entry" \in DOMAIN obj
      /\ obj.entry \in Nat
  BY DEF BoxInv
<1>3. CASE obj.entry < Size /\ Box!Put(m) /\ UNCHANGED <<pc, arg>>
  <2>1. w' = Dequeue(w, "main", "EOK") /\ "entry" \in DOMAIN obj' /\ obj'.entry = obj.entry + 1
    BY <1>2, <1>3, BoxWaiting DEF Box!Put
  <2>2. pc' = [pc EXCEPT ![a] = "run"]
    BY <1>1, <1>2, <1>3
  <2> QED BY <1>1, <1>3, <2>1, <2>2, BoxPuts
<1>4. ASSUME a \in Thread, obj.entry = Size, NEW wait, Box!SuspendOn(a, "sender", wait),
             pc' = [pc EXCEPT ![a] = "send"], UNCHANGED obj
      PROVE  BoxInv'
  <2>1. w' = SuspendTo(w, a, "sender", Flag, "-EINTR", wait)
    BY <1>4, BoxWaiting DEF Box!SuspendOn
  <2>2. BoxSleep(a, "sender", "send", wait)
    BY <1>1, <1>4, <2>1 DEF BoxSleep, List
  <2> QED BY <1>1, <2>2, BoxSleeps
<1> QED BY <1>3, <1>4 DEF Box!Send

(* The rest of a send that has waited.                                      *)
LEMMA BoxSendWokenKeeps ==
  ASSUME Nested = FALSE, BoxInv, NEW t \in Thread, Box!SendWoken(t)
  PROVE  BoxInv'
<1>1. t \in Actor /\ Calm(w) /\ t \notin w.susp /\ pc[t] = "send"
  BY BoxRuns DEF Box!SendWoken, Actor
<1>2. pc \in [Actor -> {"run", "send", "recv", "got"}] /\ "entry" \in DOMAIN obj
      /\ obj.entry \in Nat
  BY DEF BoxInv
<1>3. CASE w.err[t] # "EOK" /\ Box!Return(t) /\ UNCHANGED <<w, obj>>
  BY <1>1, <1>3, BoxReturns DEF Box!Return
<1>4. CASE w.err[t] = "EOK" /\ obj.entry < Size /\ Box!Put(arg[t].mail) /\ Box!Return(t)
  <2>1. w' = Dequeue(w, "main", "EOK") /\ "entry" \in DOMAIN obj' /\ obj'.entry = obj.entry + 1
    BY <1>2, <1>4, BoxWaiting DEF Box!Put
  <2>2. pc' = [pc EXCEPT ![t] = "run"]
    BY <1>4 DEF Box!Return
  <2> QED BY <1>1, <1>4, <2>1, <2>2, BoxPuts
<1>5. ASSUME obj.entry = Size, Box!Return(t), w' = [w EXCEPT !.err[t] = "-EINTR"], UNCHANGED obj
      PROVE  BoxInv'
  <2>1. "-EINTR" \in Error \ {"EOK"}
    BY DEF Error
  <2> QED BY <1>1, <1>5, <2>1, BoxReturns DEF Box!Return
<1>6. ASSUME obj.entry = Size, NEW left, Box!SuspendOn(t, "sender", left), UNCHANGED <<pc, obj>>
      PROVE  BoxInv'
  <2>1. w' = SuspendTo(w, t, "sender", Flag, "-EINTR", left)
    BY <1>6, BoxWaiting DEF Box!SuspendOn
  <2>2. pc' = [pc EXCEPT ![t] = "send"] /\ UNCHANGED obj /\ "sender" \in List
    BY <1>1, <1>2, <1>6 DEF List
  <2>3. BoxSleep(t, "sender", "send", left)
    BY <1>1, <1>6, <2>1, <2>2 DEF BoxSleep
  <2> QED BY <1>1, <2>3, BoxSleeps
<1> QED BY <1>3, <1>4, <1>5, <1>6 DEF Box!SendWoken, Box!WaitsAgain

(* rt_mb_urgent                                                             *)
LEMMA BoxUrgentKeeps ==
  ASSUME Nested = FALSE, BoxInv, NEW a \in Actor, NEW m, Box!Urgent(a, m)
  PROVE  BoxInv'
<1>1. Calm(w) /\ (a \in Thread => a \notin w.susp) /\ pc[a] = "run"
  BY BoxRuns DEF Box!Urgent, Box!Free
<1>2. pc \in [Actor -> {"run", "send", "recv", "got"}] /\ "entry" \in DOMAIN obj
      /\ obj.entry \in Nat
  BY DEF BoxInv
<1>3. ASSUME NEW out, obj' = [obj EXCEPT !.pool[out] = m, !.out = out, !.entry = @ + 1]
      PROVE  "entry" \in DOMAIN obj' /\ obj'.entry = obj.entry + 1
  BY <1>2, <1>3
<1>4. w' = Dequeue(w, "main", "EOK") /\ "entry" \in DOMAIN obj' /\ obj'.entry = obj.entry + 1
  BY <1>3, BoxWaiting DEF Box!Urgent
<1>5. obj.entry < Size /\ pc' = [pc EXCEPT ![a] = "run"]
  BY <1>1, <1>2 DEF Box!Urgent
<1> QED BY <1>1, <1>4, <1>5, BoxPuts

(* rt_mb_recv, and the rest of one that has waited.                         *)
LEMMA BoxRecvKeeps ==
  ASSUME Nested = FALSE, BoxInv, NEW a \in Actor,
         Box!Recv(a) \/ (a \in Thread /\ Box!RecvWoken(a))
  PROVE  BoxInv'
<1>1. Calm(w) /\ (a \in Thread => a \notin w.susp) /\ pc[a] \in {"run", "recv"}
  BY BoxRuns DEF Box!Recv, Box!RecvWoken, Box!Free
<1>2. pc \in [Actor -> {"run", "send", "recv", "got"}] /\ "entry" \in DOMAIN obj
      /\ obj.entry \in Nat
  BY DEF BoxInv
<1>3. CASE obj.entry > 0 /\ Box!Get(a)
  <2>1. /\ w' = Dequeue(w, "sender", "EOK") /\ "entry" \in DOMAIN obj' /\ obj'.entry = obj.entry - 1
        /\ pc' = [pc EXCEPT ![a] = "got"]
    BY <1>2, <1>3, BoxWaiting DEF Box!Get
  <2> QED BY <1>1, <1>3, <2>1, BoxGets
<1>4. ASSUME a \in Thread, obj.entry = 0, NEW wait, Box!SuspendOn(a, "main", wait),
             UNCHANGED obj, pc' = [pc EXCEPT ![a] = "recv"]
      PROVE  BoxInv'
  <2>1. w' = SuspendTo(w, a, "main", Flag, "-EINTR", wait) /\ "main" \in List
    BY <1>4, BoxWaiting DEF Box!SuspendOn, List
  <2>2. BoxSleep(a, "main", "recv", wait)
    BY <1>1, <1>4, <2>1 DEF BoxSleep
  <2> QED BY <1>1, <2>2, BoxSleeps
<1>5. CASE a \in Thread /\ w.err[a] # "EOK" /\ Box!Return(a) /\ UNCHANGED <<w, obj>>
  BY <1>1, <1>5, BoxReturns DEF Box!Return
<1>6. ASSUME a \in Thread, pc[a] = "recv", obj.entry = 0, Box!Return(a),
             w' = [w EXCEPT !.err[a] = "-ETIMEOUT"], UNCHANGED obj
      PROVE  BoxInv'
  <2>1. "-ETIMEOUT" \in Error \ {"EOK"}
    BY DEF Error
  <2> QED BY <1>1, <1>6, <2>1, BoxReturns DEF Box!Return
<1>7. CASE Box!Recv(a)
  BY <1>3, <1>4, <1>7 DEF Box!Recv
<1>8. CASE a \in Thread /\ Box!RecvWoken(a)
  <2>1. pc[a] = "recv" /\ (UNCHANGED pc => pc' = [pc EXCEPT ![a] = "recv"])
    BY <1>2, <1>8 DEF Box!RecvWoken
  <2> QED BY <1>3, <1>4, <1>5, <1>6, <1>8, <2>1 DEF Box!RecvWoken, Box!WaitsAgain
<1> QED BY <1>7, <1>8

(* A receive returns with its mail.                                         *)
LEMMA BoxRecvReturnKeeps ==
  ASSUME Nested = FALSE, BoxInv, NEW a \in Actor, Box!RecvReturn(a)
  PROVE  BoxInv'
<1>1. pc[a] = "got" /\ (a \in Thread => a \notin w.susp)
  BY BoxRuns DEF Box!RecvReturn
<1> QED BY <1>1, BoxReturns DEF Box!RecvReturn, Box!Return

(* Reset, detach and delete leave nobody waiting.                           *)
LEMMA BoxResetKeeps ==
  ASSUME Nested = FALSE, BoxInv, NEW a \in Actor, Box!Reset(a)
  PROVE  BoxInv'
<1> DEFINE v == ResumeAll(w, "main", "+ERROR")
<1>1. Calm(w) /\ ListsOK(w) /\ "main" \in List /\ "sender" \in List /\ "+ERROR" \in Error
  BY BoxRuns DEF Box!Reset, Box!Free, BoxInv, List, Error
<1>2. w' = ResumeAll(v, "sender", "+ERROR") /\ UNCHANGED pc /\ obj' = Box!Empty(obj.pool)
  BY BoxWaiting DEF Box!Reset
<1>3. Emptied(w, v, "main", "+ERROR")
  BY <1>1, ResumeAllEmpties
<1> HIDE DEF v
<1>4. ListsOK(v) /\ Calm(v)
  BY <1>3 DEF Emptied
<1>5. Emptied(v, w', "sender", "+ERROR")
  BY <1>1, <1>2, <1>4, ResumeAllEmpties
<1>6. /\ ListsOK(w') /\ w'.list["sender"] = <<>> /\ w'.list["main"] = v.list["main"]
      /\ v.list["main"] = <<>>
  BY <1>1, <1>3, <1>5 DEF Emptied, List
<1>7. w'.susp \subseteq w.susp /\ \A t \in w'.susp : w'.err[t] = w.err[t]
  <2>1. /\ w'.susp = v.susp \ ToSet(v.list["sender"]) /\ v.susp = w.susp \ ToSet(w.list["main"])
        /\ w'.err = [t \in Thread |-> IF t \in ToSet(v.list["sender"]) THEN "+ERROR" ELSE v.err[t]]
        /\ v.err = [t \in Thread |-> IF t \in ToSet(w.list["main"]) THEN "+ERROR" ELSE w.err[t]]
    BY <1>3, <1>5 DEF Emptied
  <2>2. w.susp \in SUBSET Thread
    BY <1>1, WFields DEF ListsOK
  <2> QED BY <2>1, <2>2
<1>8. "entry" \in DOMAIN obj' /\ obj'.entry \in 0 .. Size
  <2>1. DOMAIN obj' = {"pool", "in", "out", "entry"} /\ obj'.entry = 0
    BY <1>2 DEF Box!Empty
  <2> QED BY <2>1, BoxSize
<1>9. ToSet(<<>>) = {}
  BY DEF ToSet
<1> QED BY <1>2, <1>6, <1>7, <1>8, <1>9 DEF BoxInv, BoxServed

(* Time-outs and resumptions.                                               *)
LEMMA BoxWaits ==
  ASSUME Nested = FALSE, BoxInv, Box!WaitStep, UNCHANGED obj
  PROVE  BoxInv'
<1>1. ListsOK(w) /\ \A t \in w.susp : w.err[t] # "EOK"
  BY DEF BoxInv
<1>2. Waited(w, w') /\ UNCHANGED <<pc, arg>>
  BY <1>1, BoxWaiting, WaitStepWaits
<1>3. \A q : WokenIn(w', pc, q) = WokenIn(w, pc, q)
  BY <1>1, <1>2, WaitedKeeps
<1>4. /\ ListsOK(w') /\ w'.susp \subseteq w.susp
      /\ \A l \in List : ToSet(w'.list[l]) \subseteq ToSet(w.list[l])
      /\ \A l \in List : w'.list[l] # <<>> => w.list[l] # <<>>
      /\ \A t \in w'.susp : w'.err[t] = w.err[t]
  BY <1>1, <1>2, WaitedShortens
<1>5. BoxServed(w', pc', obj'.entry)
  BY <1>2, <1>3, <1>4 DEF BoxInv, BoxServed, List
<1> QED BY <1>2, <1>4, <1>5 DEF BoxInv, BoxServed, List

(* No step of the mailbox breaks the invariant.                             *)
LEMMA BoxKeeps ==
  ASSUME Nested = FALSE, BoxInv, Box!Next
  PROVE  BoxInv'
<1>1. ASSUME NEW a \in Actor, NEW m, Box!Send(a, m) \/ Box!Urgent(a, m) PROVE BoxInv'
  BY <1>1, BoxSendKeeps, BoxUrgentKeeps
<1>2. ASSUME NEW a \in Actor, Box!Recv(a) \/ Box!RecvReturn(a) \/ Box!Reset(a) PROVE BoxInv'
  BY <1>2, BoxRecvKeeps, BoxRecvReturnKeeps, BoxResetKeeps
<1>3. ASSUME NEW t \in Thread, Box!SendWoken(t) \/ Box!RecvWoken(t) PROVE BoxInv'
  BY <1>3, BoxSendWokenKeeps, BoxRecvKeeps DEF Actor
<1> QED BY <1>1, <1>2, <1>3, BoxWaits DEF Box!Next, Actor, Box!Actor

(* It gives what the runs check.                                            *)
LEMMA BoxServes ==
  ASSUME BoxInv
  PROVE  Box!NoLostWakeup
BY DEF BoxInv, BoxServed, Box!NoLostWakeup, Box!Woken, WokenIn, Box!Cardinality, Cardinality

-----------------------------------------------------------------------------
(* The completion, with handlers that interrupt the tick interrupt. *)

(* It suspends and wakes by these operators.                                *)
LEMMA CmpWaiting ==
  /\ \A v, t, e, wait : Cmp!Suspend(v, t, e, wait) = Suspend(v, t, e, wait)
  /\ \A v, t : Cmp!Ready(v, t) = Ready(v, t)
<1> USE DEF Cmp!Suspend, Suspend, Cmp!Ready, Ready, Cmp!Unlink, Unlink,
            Cmp!CanReady, CanReady, Cmp!List, List, Cmp!RemoveFirst,
            RemoveFirst, Cmp!RemoveAt, RemoveAt, Cmp!SelectInSeq,
            SelectInSeq, Cmp!SelectInSubSeq, SelectInSubSeq, Cmp!Min, Min
<1>1. ASSUME NEW v, NEW t, NEW e, NEW wait
     PROVE  Cmp!Suspend(v, t, e, wait) = Suspend(v, t, e, wait)
  BY ZenonT(30)
<1>2. ASSUME NEW v, NEW t
     PROVE  Cmp!Ready(v, t) = Ready(v, t)
  BY ZenonT(30)
<1> HIDE DEF Cmp!Suspend, Suspend, Cmp!Ready, Ready, Cmp!Unlink, Unlink,
             Cmp!CanReady, CanReady, Cmp!List, List, Cmp!RemoveFirst,
             RemoveFirst, Cmp!RemoveAt, RemoveAt, Cmp!SelectInSeq,
             SelectInSeq, Cmp!SelectInSubSeq, SelectInSubSeq, Cmp!Min, Min
<1> QED BY <1>1, <1>2

(* What rt_sched_thread_ready does to any thread: nothing if it is awake, a *)
(* mark in its timer if that has just run out, and else it wakes it.        *)
LEMMA ReadyCases ==
  ASSUME NEW v, ListsOK(v), NEW t \in Thread, v.timer[t] # "missed"
  PROVE  LET r == Ready(v, t)
         IN  /\ ListsOK(r)
             /\ \/ t \notin v.susp /\ r.susp = v.susp /\ r.timer = v.timer
                \/ t \in v.susp /\ r.susp = v.susp /\ r.timer = [v.timer EXCEPT ![t] = "missed"]
                \/ t \in v.susp /\ r.susp = v.susp \ {t} /\ r.timer = [v.timer EXCEPT ![t] = "off"]
<1> DEFINE T == {"off", "armed", "firing", "missed"}
           r == Ready(v, t)
<1>1. v \in WState /\ v.timer \in [Thread -> T]
  BY WFields DEF ListsOK
<1>2. ASSUME NEW x \in T, t \in v.susp \/ x = "off", r = [v EXCEPT !.timer[t] = x]
      PROVE  ListsOK(r) /\ r.susp = v.susp /\ r.timer = [v.timer EXCEPT ![t] = x]
  <2> DEFINE s == [v.timer EXCEPT ![t] = x]
  <2>1. s \in [Thread -> T] /\ \A u \in Thread : s[u] # "off" => u \in v.susp
    BY <1>1, <1>2 DEF ListsOK
  <2>2. r = [v EXCEPT !.timer = s]
    BY <1>2
  <2> HIDE DEF s, r
  <2>3. r \in WState /\ r.timer = s /\ r.susp = v.susp /\ r.list = v.list
    BY <1>1, <2>1, <2>2 DEF WState
  <2>4. ListsOK(r)
    BY <2>1, <2>3 DEF ListsOK
  <2> QED BY <2>3, <2>4 DEF s
<1>3. CASE t \notin v.susp
  <2>1. v.timer[t] = "off"
    BY <1>3 DEF ListsOK
  <2>2. r = [v EXCEPT !.timer[t] = "off"]
    BY <1>3, <2>1 DEF Ready, CanReady
  <2>3. [v.timer EXCEPT ![t] = "off"] = v.timer
    BY <1>1, <2>1
  <2> QED BY <1>2, <1>3, <2>2, <2>3
<1>4. CASE t \in v.susp /\ v.timer[t] = "firing"
  <2>1. r = [v EXCEPT !.timer[t] = "missed"]
    BY <1>4 DEF Ready, CanReady
  <2> QED BY <1>2, <1>4, <2>1
<1>5. CASE t \in v.susp /\ v.timer[t] \in {"off", "armed"}
  <2>1. Freed(v, r, t)
    BY <1>5, ReadyFrees
  <2> QED BY <1>5, <2>1 DEF Freed
<1> QED BY <1>1, <1>3, <1>4, <1>5

(* Only one thread waits.  The word names it while it sleeps, unless its    *)
(* time-out is under way and was missed; it never names a thread of which   *)
(* the time-out was missed.                                                 *)
CmpInv ==
  /\ ListsOK(w)
  /\ pc \in [Actor -> {"run", "wait", "got"}]
  /\ \E t \in Thread \cup {Null}, done \in BOOLEAN : obj = Cmp!Stat(t, done)
  /\ \A t \in w.susp : pc[t] = "wait"
  /\ \A t, u \in Thread : pc[t] = "wait" /\ pc[u] = "wait" => t = u
  /\ \A t \in Thread : obj.thread = t => w.timer[t] # "missed"
  /\ \A t \in w.susp : obj = Cmp!Stat(t, FALSE) \/ w.timer[t] = "missed"

(* Threads run only while no time-out is under way.                         *)
LEMMA CmpRuns ==
  ASSUME CmpInv, NEW t \in Thread, Cmp!CanRun(t)
  PROVE  t \notin w.susp /\ Calm(w)
<1>1. w.timer \in [Thread -> {"off", "armed", "firing", "missed"}]
  BY WFields DEF CmpInv, ListsOK
<1> QED BY <1>1 DEF Cmp!CanRun, Cmp!InCallback, Calm

(* Initially.                                                               *)
LEMMA CmpStarts ==
  ASSUME Cmp!Init
  PROVE  CmpInv
<1>1. w = InitW /\ pc = [a \in Actor |-> "run"] /\ obj = Cmp!Stat(Null, FALSE)
  BY DEF Cmp!Init, Cmp!InitW, InitW, Cmp!List, List, Cmp!Actor, Actor
<1>2. ListsOK(w) /\ Calm(w) /\ w.susp = {}
  BY <1>1, InitialLists
<1>3. /\ pc \in [Actor -> {"run", "wait", "got"}]
      /\ \A t, u \in Thread : pc[t] = "wait" /\ pc[u] = "wait" => t = u
      /\ \A t \in Thread : w.timer[t] # "missed"
  BY <1>1, <1>2 DEF Calm, Actor
<1>4. \E t \in Thread \cup {Null}, done \in BOOLEAN : obj = Cmp!Stat(t, done)
  BY <1>1
<1> QED BY <1>2, <1>3, <1>4 DEF CmpInv

(* rt_completion_wait                                                       *)
LEMMA CmpWaitKeeps ==
  ASSUME CmpInv, NEW t \in Thread, Cmp!Wait(t)
  PROVE  CmpInv'
<1>1. /\ t \notin w.susp /\ Calm(w) /\ pc[t] = "run" /\ t \in Actor
      /\ ListsOK(w) /\ pc \in [Actor -> {"run", "wait", "got"}] /\ Null \notin Thread
  BY CmpRuns, IpcAssumption DEF Cmp!Wait, Cmp!Free, CmpInv, Actor, Cmp!CompletionAssumption
<1>2. \A u \in w.susp : u \in Thread /\ u # t /\ w.timer[u] # "missed" /\ obj = Cmp!Stat(u, FALSE)
  BY <1>1, WFields DEF CmpInv, ListsOK, Calm
<1>3. CASE /\ obj.done /\ obj' = Cmp!Stat(Null, FALSE)
           /\ pc' = [pc EXCEPT ![t] = "got"] /\ UNCHANGED w
  <2>1. w.susp = {}
    BY <1>2, <1>3 DEF Cmp!Stat
  <2>2. obj'.thread = Null
    BY <1>3 DEF Cmp!Stat
  <2>3. \E x \in Thread \cup {Null}, done \in BOOLEAN : obj' = Cmp!Stat(x, done)
    BY <1>3
  <2>4. /\ pc' \in [Actor -> {"run", "wait", "got"}]
        /\ \A x, u \in Thread : pc'[x] = "wait" /\ pc'[u] = "wait" => x = u
    BY <1>1, <1>3 DEF CmpInv, Actor
  <2>5. ListsOK(w') /\ w'.susp = {}
    BY <1>1, <1>3, <2>1
  <2>6. \A x \in Thread : obj'.thread = x => w'.timer[x] # "missed"
    BY <1>1, <2>2
  <2> QED BY <2>3, <2>4, <2>5, <2>6 DEF CmpInv
<1>4. ASSUME \A u \in Thread : pc[u] # "wait", obj' = Cmp!Stat(t, FALSE),
             NEW wait, w' = Cmp!Suspend(w, t, "EOK", wait), pc' = [pc EXCEPT ![t] = "wait"]
      PROVE  CmpInv'
  <2>1. w.susp = {}
    BY <1>1, <1>4, WFields DEF CmpInv, ListsOK
  <2>2. Suspended(w, w', t, "EOK", wait)
    BY <1>1, <1>4, CmpWaiting, SuspendSleeps DEF Error
  <2>3. ListsOK(w') /\ w'.susp = {t} /\ Calm(w')
    BY <1>1, <2>1, <2>2 DEF Suspended
  <2>4. /\ pc' \in [Actor -> {"run", "wait", "got"}] /\ pc'[t] = "wait"
        /\ \A u \in Thread : pc'[u] = "wait" => u = t
    BY <1>1, <1>4 DEF Actor
  <2>5. \E x \in Thread \cup {Null}, done \in BOOLEAN : obj' = Cmp!Stat(x, done)
    BY <1>4
  <2> QED BY <1>4, <2>3, <2>4, <2>5 DEF CmpInv, Calm
<1> QED BY <1>3, <1>4 DEF Cmp!Wait, Cmp!Goto

(* The rest of the call, and its return.                                    *)
LEMMA CmpReturnKeeps ==
  ASSUME CmpInv, NEW t \in Thread, Cmp!WaitWoken(t) \/ Cmp!Return(t)
  PROVE  CmpInv'
<1>1. t \notin w.susp /\ Calm(w) /\ t \in Actor /\ pc[t] \in {"wait", "got"}
  BY CmpRuns DEF Cmp!WaitWoken, Cmp!Return, Actor
<1>2. PICK p \in {"run", "got"} : pc' = [pc EXCEPT ![t] = p]
  BY DEF Cmp!WaitWoken, Cmp!Return, Cmp!Goto
<1>3. w' = w /\ ListsOK(w) /\ w.susp \in SUBSET Thread
  BY WFields DEF Cmp!WaitWoken, Cmp!Return, CmpInv, ListsOK
<1>4. /\ pc' \in [Actor -> {"run", "wait", "got"}]
      /\ \A x, u \in Thread : pc'[x] = "wait" /\ pc'[u] = "wait" => x = u
      /\ \A u \in w.susp : pc'[u] = "wait"
  BY <1>1, <1>2, <1>3 DEF CmpInv, Actor
<1>5. /\ \E x \in Thread \cup {Null}, done \in BOOLEAN : obj' = Cmp!Stat(x, done)
      /\ \A u \in w.susp : obj' = Cmp!Stat(u, FALSE) \/ w.timer[u] = "missed"
  <2>1. CASE Cmp!WaitWoken(t)
    <3>1. w.susp = {}
      BY <1>1, <1>3, <2>1 DEF Cmp!WaitWoken, CmpInv
    <3>2. \E x \in Thread \cup {Null}, done \in BOOLEAN : obj' = Cmp!Stat(x, done)
      BY <2>1 DEF Cmp!WaitWoken, CmpInv
    <3> QED BY <3>1, <3>2
  <2>2. CASE Cmp!Return(t)
    BY <2>2 DEF Cmp!Return, CmpInv
  <2> QED BY <2>1, <2>2
<1>6. \A x \in Thread : w.timer[x] # "missed"
  BY <1>1 DEF Calm
<1> QED BY <1>3, <1>4, <1>5, <1>6 DEF CmpInv

(* rt_completion_done, which a handler may call while a time-out is under   *)
(* way.                                                                     *)
LEMMA CmpDoneKeeps ==
  ASSUME CmpInv, NEW a, Cmp!Done(a)
  PROVE  CmpInv'
<1>1. /\ ~ obj.done /\ w' = Cmp!Wake(obj.thread) /\ obj' = Cmp!Stat(Null, TRUE) /\ UNCHANGED pc
      /\ ListsOK(w) /\ pc \in [Actor -> {"run", "wait", "got"}] /\ Null \notin Thread
      /\ obj.thread \in Thread \cup {Null}
  BY IpcAssumption DEF Cmp!Done, CmpInv, Cmp!CompletionAssumption, Cmp!Stat
<1>2. obj'.thread = Null /\ \E x \in Thread \cup {Null}, done \in BOOLEAN : obj' = Cmp!Stat(x, done)
  BY <1>1 DEF Cmp!Stat
<1>3. \A u \in w.susp : u # obj.thread => w.timer[u] = "missed"
  <2>1. \A u : obj = Cmp!Stat(u, FALSE) => obj.thread = u
    BY DEF Cmp!Stat
  <2> QED BY <2>1 DEF CmpInv
<1>4. /\ ListsOK(w') /\ w'.susp \subseteq w.susp
      /\ \A u \in w'.susp : w'.timer[u] = "missed"
  <2>1. CASE obj.thread = Null
    <3>1. w' = w
      BY <1>1, <2>1 DEF Cmp!Wake
    <3>2. w.susp \in SUBSET Thread
      BY <1>1, WFields DEF ListsOK
    <3> QED BY <1>1, <1>3, <2>1, <3>1, <3>2
  <2>2. CASE obj.thread \in Thread
    <3> DEFINE t == obj.thread
    <3>1. w' = Ready(w, t) /\ w.timer[t] # "missed" /\ t \in Thread
      BY <1>1, <2>2, CmpWaiting DEF Cmp!Wake, CmpInv
    <3> HIDE DEF t
    <3>2. /\ ListsOK(w')
          /\ \/ t \notin w.susp /\ w'.susp = w.susp /\ w'.timer = w.timer
             \/ t \in w.susp /\ w'.susp = w.susp /\ w'.timer = [w.timer EXCEPT ![t] = "missed"]
             \/ t \in w.susp /\ w'.susp = w.susp \ {t} /\ w'.timer = [w.timer EXCEPT ![t] = "off"]
      BY <1>1, <3>1, ReadyCases
    <3>3. \A u \in w.susp : u # t => w.timer[u] = "missed"
      BY <1>3 DEF t
    <3>4. w.susp \in SUBSET Thread /\ w.timer \in [Thread -> {"off", "armed", "firing", "missed"}]
      BY <1>1, WFields DEF ListsOK
    <3> QED BY <3>2, <3>3, <3>4
  <2> QED BY <1>1, <2>1, <2>2
<1>5. pc' = pc
  BY <1>1
<1>6. \A t \in Thread : obj'.thread = t => w'.timer[t] # "missed"
  BY <1>1, <1>2
<1>7. /\ pc' \in [Actor -> {"run", "wait", "got"}]
      /\ \A u \in w'.susp : pc'[u] = "wait"
      /\ \A t, u \in Thread : pc'[t] = "wait" /\ pc'[u] = "wait" => t = u
  BY <1>4, <1>5 DEF CmpInv
<1> QED BY <1>2, <1>4, <1>5, <1>6, <1>7 DEF CmpInv

(* rt_completion_init of a completion that nobody waits for.                *)
LEMMA CmpReinitKeeps ==
  ASSUME CmpInv, NEW a, Cmp!Reinit(a)
  PROVE  CmpInv'
<1>1. (\A u \in Thread : pc[u] # "wait") /\ obj' = Cmp!Stat(Null, FALSE) /\ UNCHANGED <<w, pc>>
  BY DEF Cmp!Reinit
<1>2. w.susp = {} /\ Null \notin Thread
  BY <1>1, WFields, IpcAssumption DEF CmpInv, ListsOK, Cmp!CompletionAssumption
<1>3. obj'.thread = Null /\ \E x \in Thread \cup {Null}, done \in BOOLEAN : obj' = Cmp!Stat(x, done)
  BY <1>1 DEF Cmp!Stat
<1>4. ListsOK(w') /\ w'.susp = {}
  BY <1>1, <1>2 DEF CmpInv
<1>5. /\ pc' \in [Actor -> {"run", "wait", "got"}]
      /\ \A x, u \in Thread : pc'[x] = "wait" /\ pc'[u] = "wait" => x = u
  BY <1>1 DEF CmpInv
<1>6. \A x \in Thread : obj'.thread = x => w'.timer[x] # "missed"
  BY <1>2, <1>3
<1> QED BY <1>3, <1>4, <1>5, <1>6 DEF CmpInv

(* Time-outs.                                                               *)
LEMMA CmpWaits ==
  ASSUME CmpInv, NEW t \in Thread, Cmp!Expire(t) \/ Cmp!Timeout(t), UNCHANGED obj
  PROVE  CmpInv'
<1>1. ListsOK(w) /\ w.timer \in [Thread -> {"off", "armed", "firing", "missed"}]
  BY WFields DEF CmpInv, ListsOK
<1>2. CASE Cmp!Expire(t)
  <2>1. Expire(t) /\ UNCHANGED pc
    BY <1>2 DEF Cmp!Expire, Expire, Cmp!InCallback, InCallback
  <2>2. ListsOK(w') /\ w'.susp = w.susp /\ w'.timer = [w.timer EXCEPT ![t] = "firing"]
    BY <1>1, <2>1, ExpireWaits
  <2>3. \A u \in Thread : w'.timer[u] = "missed" => w.timer[u] = "missed"
    BY <1>1, <2>2
  <2>4. \A u \in Thread : w.timer[u] # "missed"
    BY <2>1 DEF Expire, InCallback
  <2>5. w.susp \in SUBSET Thread
    BY <1>1, WFields DEF ListsOK
  <2>6. /\ \A u \in w'.susp : obj' = Cmp!Stat(u, FALSE) /\ pc'[u] = "wait"
        /\ \A u \in Thread : w'.timer[u] # "missed"
    BY <2>1, <2>2, <2>3, <2>4, <2>5 DEF CmpInv
  <2>7. obj' = obj /\ pc' = pc
    BY <2>1
  <2> QED BY <2>2, <2>6, <2>7 DEF CmpInv
<1>3. CASE Cmp!Timeout(t)
  <2>1. Timeout(t) /\ UNCHANGED pc
    BY <1>3 DEF Cmp!Timeout, Timeout, Cmp!Unlink, Unlink, Cmp!List, List,
       Cmp!RemoveFirst, RemoveFirst, Cmp!RemoveAt, RemoveAt, Cmp!SelectInSeq,
       SelectInSeq, Cmp!SelectInSubSeq, SelectInSubSeq, Cmp!Min, Min
  <2>2. Freed(w, w', t)
    BY <1>1, <2>1, TimeoutWaits DEF Left
  <2>3. ListsOK(w') /\ w'.susp = w.susp \ {t} /\ w'.timer = [w.timer EXCEPT ![t] = "off"]
    BY <2>2 DEF Freed
  <2>4. \A u \in Thread \ {t} : w'.timer[u] = w.timer[u]
    BY <1>1, <2>3
  <2>5. w'.timer[t] = "off" /\ w.susp \in SUBSET Thread
    BY <1>1, <2>3, WFields DEF ListsOK
  <2>6. \A u \in Thread : w'.timer[u] = "missed" => w.timer[u] = "missed"
    BY <2>4, <2>5
  <2>7. /\ \A u \in w'.susp : pc'[u] = "wait"
        /\ \A u \in w'.susp : obj' = Cmp!Stat(u, FALSE) \/ w'.timer[u] = "missed"
    BY <2>1, <2>3, <2>4, <2>5 DEF CmpInv
  <2>8. \A u \in Thread : obj'.thread = u => w'.timer[u] # "missed"
    BY <2>6 DEF CmpInv
  <2>9. /\ pc' \in [Actor -> {"run", "wait", "got"}]
        /\ \E x \in Thread \cup {Null}, done \in BOOLEAN : obj' = Cmp!Stat(x, done)
        /\ \A x, u \in Thread : pc'[x] = "wait" /\ pc'[u] = "wait" => x = u
    BY <2>1 DEF CmpInv
  <2> QED BY <2>3, <2>7, <2>8, <2>9 DEF CmpInv
<1> QED BY <1>2, <1>3

(* No step of the completion breaks the invariant.                          *)
LEMMA CmpKeeps ==
  ASSUME CmpInv, Cmp!Next
  PROVE  CmpInv'
BY CmpWaitKeeps, CmpReturnKeeps, CmpDoneKeeps, CmpReinitKeeps, CmpWaits DEF Cmp!Next

(* It gives what the runs check.                                            *)
LEMMA CmpServes ==
  ASSUME CmpInv
  PROVE  Cmp!WaiterFound
BY DEF CmpInv, ListsOK, Cmp!WaiterFound, Cmp!CallbackFindsThread

(* A completion is used up only by a wait that succeeds.                    *)
LEMMA CmpTakes ==
  ASSUME CmpInv, Cmp!Next
  PROVE  Cmp!DoneTaken
<1>1. pc \in [Actor -> {"run", "wait", "got"}]
  BY DEF CmpInv
<1>2. SUFFICES ASSUME obj.done, ~ obj'.done, pc' # pc
               PROVE  \E t \in Thread : pc[t] # "got" /\ pc'[t] = "got"
  BY DEF Cmp!DoneTaken
<1>3. PICK t \in Thread : Cmp!Wait(t) \/ Cmp!WaitWoken(t)
  BY <1>2 DEF Cmp!Next, Cmp!Return, Cmp!Done, Cmp!Reinit, Cmp!Expire, Cmp!Timeout
<1>4. pc[t] # "got" /\ pc' = [pc EXCEPT ![t] = "got"] /\ t \in Actor
  BY <1>2, <1>3 DEF Cmp!Wait, Cmp!WaitWoken, Cmp!Free, Cmp!Goto, Actor
<1> QED BY <1>1, <1>4

-----------------------------------------------------------------------------
(* The work queue. *)

(* It suspends and wakes by these operators.                                *)
LEMMA WkqWaiting ==
  /\ \A v, t, l, flag, e, wait :
         Wkq!SuspendTo(v, t, l, flag, e, wait) = SuspendTo(v, t, l, flag, e, wait)
  /\ \A v, t, e, wait : Wkq!Suspend(v, t, e, wait) = Suspend(v, t, e, wait)
  /\ \A v, t : Wkq!Ready(v, t) = Ready(v, t)
  /\ \A v, l, e : Wkq!Dequeue(v, l, e) = Dequeue(v, l, e)
<1> USE DEF Wkq!Suspend, Suspend, Wkq!Enqueue, Enqueue, Wkq!InsertAt,
            InsertAt, Wkq!Ready, Ready, Wkq!Unlink, Unlink, Wkq!CanReady,
            CanReady, Wkq!List, List, Wkq!RemoveFirst, RemoveFirst,
            Wkq!RemoveAt, RemoveAt, Wkq!SelectInSeq, SelectInSeq,
            Wkq!SelectInSubSeq, SelectInSubSeq, Wkq!Min, Min, Wkq!Dequeue,
            Dequeue, Wkq!SuspendTo, SuspendTo
<1>1. ASSUME NEW v, NEW t, NEW l, NEW flag, NEW e, NEW wait
     PROVE  Wkq!SuspendTo(v, t, l, flag, e, wait) = SuspendTo(v, t, l, flag, e, wait)
  BY ZenonT(30)
<1>2. ASSUME NEW v, NEW t, NEW e, NEW wait
     PROVE  Wkq!Suspend(v, t, e, wait) = Suspend(v, t, e, wait)
  BY ZenonT(30)
<1>3. ASSUME NEW v, NEW t
     PROVE  Wkq!Ready(v, t) = Ready(v, t)
  BY ZenonT(30)
<1>4. ASSUME NEW v, NEW l, NEW e
     PROVE  Wkq!Dequeue(v, l, e) = Dequeue(v, l, e)
  BY ZenonT(30)
<1> HIDE DEF Wkq!Suspend, Suspend, Wkq!Enqueue, Enqueue, Wkq!InsertAt,
             InsertAt, Wkq!Ready, Ready, Wkq!Unlink, Unlink, Wkq!CanReady,
             CanReady, Wkq!List, List, Wkq!RemoveFirst, RemoveFirst,
             Wkq!RemoveAt, RemoveAt, Wkq!SelectInSeq, SelectInSeq,
             Wkq!SelectInSubSeq, SelectInSubSeq, Wkq!Min, Min, Wkq!Dequeue,
             Dequeue, Wkq!SuspendTo, SuspendTo
<1> QED BY <1>1, <1>2, <1>3, <1>4

WkqPlaces ==
  {"run", "loop", "idle", "wait", "work", "ack", "release", "cancel", "sync", "asleep",
   "all", "alllate"}

WkqFields ==
  [works : Seq(Bit), delayed : Seq(Bit), current : Bit \cup {Null}, sem : 0 .. 1, done : BOOLEAN]

(* While the worker sleeps, no work and no completion is there, and its     *)
(* timer runs if a work is delayed; the same holds of the time it will take *)
(* from when it has looked until it sleeps, unless a submission comes in.   *)
(* The others that wait sleep in the list of the semaphore, which is empty  *)
(* when there is a token, and the token is there only while the worker is   *)
(* between a work and the next look.                                        *)
WkqInv ==
  /\ ListsOK(w)
  /\ pc \in [Actor -> WkqPlaces] /\ DOMAIN arg = Actor /\ obj \in WkqFields
  /\ pc[Single] \in {"loop", "idle", "wait", "work", "ack", "release", "all", "alllate"}
  /\ \A t \in ToSet(w.list["main"]) : pc[t] = "asleep"
  /\ \A t \in w.susp \ {Single} : pc[t] = "asleep"
  /\ Single \in w.susp =>
       /\ pc[Single] = "wait" /\ ~ obj.done /\ obj.works = <<>>
       /\ obj.delayed # <<>> => w.timer[Single] # "off"
  /\ pc[Single] = "idle" /\ ~ obj.done =>
       obj.works = <<>> /\ (obj.delayed # <<>> => arg[Single] = "finite")
  /\ pc[Single] \notin {"ack", "release"} => obj.sem = 0
  /\ obj.sem > 0 => w.list["main"] = <<>>

(* The worker is a thread.                                                  *)
LEMMA WkqWorker ==
  Single \in Thread /\ Single \in Actor /\ Null \notin Bit
<1>1. Wkq!WorkQueueAssumption
  BY IpcAssumption
<1> QED BY <1>1 DEF Wkq!WorkQueueAssumption, Actor

(* Whoever runs is awake.                                                   *)
LEMMA WkqRuns ==
  ASSUME Nested = FALSE, WkqInv, NEW a \in Actor, Wkq!Runs(a)
  PROVE  Calm(w) /\ (a \in Thread => a \notin w.susp)
<1>1. CanRun(a)
  BY DEF Wkq!Runs, Wkq!CanRun, CanRun, Wkq!InCallback, InCallback
<1> QED BY <1>1, RunsCalm DEF WkqInv

(* Initially.                                                               *)
LEMMA WkqStarts ==
  ASSUME Wkq!Init
  PROVE  WkqInv
<1>1. /\ w = InitW /\ pc = [a \in Actor |-> IF a = Single THEN "loop" ELSE "run"]
      /\ arg = [a \in Actor |-> Null]
      /\ obj = [works |-> <<>>, delayed |-> <<>>, current |-> Null, sem |-> 0, done |-> FALSE]
  BY DEF Wkq!Init, Wkq!InitW, InitW, Wkq!List, List, Wkq!Actor, Actor
<1>2. ListsOK(w) /\ w.susp = {} /\ w.list["main"] = <<>> /\ ToSet(<<>>) = {}
  BY <1>1, InitialLists DEF List, ToSet
<1>3. pc \in [Actor -> WkqPlaces] /\ DOMAIN arg = Actor /\ pc[Single] = "loop"
  BY <1>1, WkqWorker DEF WkqPlaces
<1>4. obj \in WkqFields /\ obj.sem = 0
  BY <1>1 DEF WkqFields
<1> QED BY <1>2, <1>3, <1>4 DEF WkqInv

(* rt_list_remove of a work.                                                *)
LEMMA WorkLeaves ==
  ASSUME NEW s \in Seq(Bit), NEW x
  PROVE  Wkq!RemoveFirst(s, x) \in Seq(Bit) /\ (s = <<>> => Wkq!RemoveFirst(s, x) = <<>>)
<1>1. Wkq!RemoveFirst(s, x) = RemoveFirst(s, x)
  BY Zenon DEF Wkq!RemoveFirst, RemoveFirst, Wkq!RemoveAt, RemoveAt, Wkq!SelectInSeq,
     SelectInSeq, Wkq!SelectInSubSeq, SelectInSubSeq, Wkq!Min, Min
<1>2. CASE ~ \E i \in 1 .. Len(s) : s[i] = x
  BY <1>1, <1>2 DEF RemoveFirst
<1>3. CASE \E i \in 1 .. Len(s) : s[i] = x
  <2> DEFINE I == {i \in 1 .. Len(s) : s[i] = x}
             j == SelectInSeq(s, LAMBDA v : v = x)
  <2>1. I \in SUBSET Nat /\ I # {} /\ I \subseteq 1 .. Len(s)
    BY <1>3
  <2>2. PICK p \in I : \A q \in I : p <= q
    <3> HIDE DEF I
    <3> QED BY <2>1, LeastPrio
  <2>3. j = Min(I)
    BY <2>1 DEF SelectInSeq
  <2> HIDE DEF I, j
  <2>4. Min(I) \in I
    BY <2>2 DEF Min
  <2>5. j \in 1 .. Len(s)
    BY <2>1, <2>3, <2>4
  <2>6. SubSeq(s, 1, j - 1) \in Seq(Bit) /\ SubSeq(s, j + 1, Len(s)) \in Seq(Bit)
    BY <2>5, SubSeqProperties
  <2>7. RemoveFirst(s, x) = SubSeq(s, 1, j - 1) \o SubSeq(s, j + 1, Len(s))
    BY <1>3 DEF RemoveFirst, RemoveAt, j
  <2>8. RemoveFirst(s, x) \in Seq(Bit)
    BY <2>6, <2>7, ConcatProperties
  <2>9. s # <<>>
    BY <2>5
  <2> QED BY <1>1, <2>8, <2>9
<1> QED BY <1>2, <1>3

(* The queue without a work.                                                *)
LEMMA WkqOut ==
  ASSUME obj \in WkqFields, NEW x
  PROVE  /\ Wkq!Out(x) \in WkqFields
         /\ Wkq!Out(x).sem = obj.sem /\ Wkq!Out(x).done = obj.done
         /\ obj.works = <<>> => Wkq!Out(x).works = <<>>
         /\ Wkq!Out(x).delayed # <<>> => obj.delayed # <<>>
<1> DEFINE s == Wkq!RemoveFirst(obj.works, x)
           d == Wkq!RemoveFirst(obj.delayed, x)
           q == Wkq!Out(x)
<1>1. obj.works \in Seq(Bit) /\ obj.delayed \in Seq(Bit)
  BY DEF WkqFields
<1>2. /\ s \in Seq(Bit) /\ (obj.works = <<>> => s = <<>>)
      /\ d \in Seq(Bit) /\ (obj.delayed = <<>> => d = <<>>)
  BY <1>1, WorkLeaves
<1>3. q = [obj EXCEPT !.works = s, !.delayed = d]
  BY DEF Wkq!Out
<1> HIDE DEF q, s, d
<1>4. /\ q \in WkqFields /\ q.sem = obj.sem /\ q.done = obj.done
      /\ q.works = s /\ q.delayed = d
  BY <1>2, <1>3 DEF WkqFields
<1> QED BY <1>2, <1>4 DEF q

(* The worker is woken, by whoever completes its completion first.          *)
LEMMA WkqWakes ==
  ASSUME WkqInv, Calm(w), w' = IF pc[Single] = "wait" /\ ~ obj.done THEN Ready(w, Single) ELSE w
  PROVE  /\ ListsOK(w') /\ Single \notin w'.susp /\ w'.susp \subseteq w.susp
         /\ ToSet(w'.list["main"]) \subseteq ToSet(w.list["main"])
         /\ w.list["main"] = <<>> => w'.list["main"] = <<>>
<1>1. ListsOK(w) /\ Single \in Thread /\ "main" \in List
  BY WkqWorker DEF WkqInv, List
<1>2. CASE Single \notin w.susp
  <2>1. w' = w
    <3>1. w.timer[Single] = "off" /\ w \in WState
          /\ w.timer \in [Thread -> {"off", "armed", "firing", "missed"}]
      BY <1>1, <1>2, WFields DEF ListsOK
    <3>2. Ready(w, Single) = [w EXCEPT !.timer[Single] = "off"]
      BY <1>2, <3>1 DEF Ready, CanReady
    <3>3. [w EXCEPT !.timer[Single] = "off"] = w
      <4>1. [w.timer EXCEPT ![Single] = "off"] = w.timer
        BY <1>1, <3>1
      <4> QED BY <3>1, <4>1 DEF WState
    <3> QED BY <3>2, <3>3
  <2> QED BY <1>1, <1>2, <2>1
<1>3. CASE Single \in w.susp
  <2>1. w' = Ready(w, Single) /\ w.timer[Single] \in {"off", "armed"}
    BY <1>1, <1>3 DEF WkqInv, Calm
  <2>2. Freed(w, w', Single)
    BY <1>1, <1>3, <2>1, ReadyFrees
  <2>3. /\ ListsOK(w') /\ w'.susp = w.susp \ {Single}
        /\ ToSet(w'.list["main"]) = ToSet(w.list["main"]) \ {Single}
    BY <1>1, <2>2 DEF Freed
  <2>4. w.list["main"] = <<>> => w'.list["main"] = <<>>
    <3>1. w.list["main"] \in Seq(Thread) /\ w'.list["main"] \in Seq(Thread)
      BY <1>1, <2>3, WFields DEF ListsOK
    <3>2. \A s \in Seq(Thread) : s = <<>> <=> ToSet(s) = {}
      BY EmptyList
    <3> QED BY <2>3, <3>1, <3>2
  <2> QED BY <2>3, <2>4
<1> QED BY <1>2, <1>3

(* rt_workqueue_dowork and the other submissions.                           *)
LEMMA WkqSubmitKeeps ==
  ASSUME Nested = FALSE, WkqInv, NEW a \in Actor, NEW x \in Bit, Wkq!Submit(a, x)
  PROVE  WkqInv'
<1> DEFINE o == Wkq!Out(x)
<1>1. Calm(w) /\ obj \in WkqFields /\ UNCHANGED <<pc, arg>>
  BY WkqRuns DEF Wkq!Submit, Wkq!Calls, WkqInv
<1>2. o \in WkqFields /\ o.sem = obj.sem
  BY <1>1, WkqOut
<1> HIDE DEF o
<1>3. PICK q \in WkqFields : q.sem = obj.sem /\ Wkq!WakeWorker(q)
  <2>1. o.works \in Seq(Bit) /\ o.delayed \in Seq(Bit)
    BY <1>2 DEF WkqFields
  <2>2. CASE Wkq!WakeWorker([o EXCEPT !.works = Append(@, x)])
    <3>1. Append(o.works, x) \in Seq(Bit)
      BY <2>1
    <3>2. [o EXCEPT !.works = Append(o.works, x)] \in WkqFields
      BY <1>2, <3>1 DEF WkqFields
    <3>3. [o EXCEPT !.works = Append(o.works, x)].sem = obj.sem
      BY <1>2 DEF WkqFields
    <3> QED BY <2>2, <3>2, <3>3
  <2>3. CASE Wkq!WakeWorker([o EXCEPT !.works = Wkq!Cons(x, @)])
    <3>1. Wkq!Cons(x, o.works) \in Seq(Bit)
      BY <2>1 DEF Wkq!Cons
    <3>2. [o EXCEPT !.works = Wkq!Cons(x, o.works)] \in WkqFields
      BY <1>2, <3>1 DEF WkqFields
    <3>3. [o EXCEPT !.works = Wkq!Cons(x, o.works)].sem = obj.sem
      BY <1>2 DEF WkqFields
    <3> QED BY <2>3, <3>2, <3>3
  <2>4. ASSUME NEW i \in 1 .. Len(o.delayed) + 1,
               Wkq!WakeWorker([o EXCEPT !.delayed = Wkq!InsertAt(@, i, x)])
        PROVE  \E q \in WkqFields : q.sem = obj.sem /\ Wkq!WakeWorker(q)
    <3>1. Wkq!InsertAt(o.delayed, i, x) = InsertAt(o.delayed, i, x)
      BY DEF Wkq!InsertAt, InsertAt
    <3>2. Wkq!InsertAt(o.delayed, i, x) \in Seq(Bit)
      BY <2>1, <3>1, InsertAtProperties
    <3>3. [o EXCEPT !.delayed = Wkq!InsertAt(o.delayed, i, x)] \in WkqFields
      BY <1>2, <3>2 DEF WkqFields
    <3>4. [o EXCEPT !.delayed = Wkq!InsertAt(o.delayed, i, x)].sem = obj.sem
      BY <1>2 DEF WkqFields
    <3> QED BY <2>4, <3>3, <3>4
  <2> QED BY <2>2, <2>3, <2>4 DEF Wkq!Submit, o
<1>4. obj' = [q EXCEPT !.done = TRUE] /\ obj' \in WkqFields /\ obj'.done /\ obj'.sem = obj.sem
  <2>1. obj' = [q EXCEPT !.done = TRUE]
    BY <1>3 DEF Wkq!WakeWorker
  <2> QED BY <1>3, <2>1 DEF WkqFields
<1>5. w' = IF pc[Single] = "wait" /\ ~ obj.done THEN Ready(w, Single) ELSE w
  BY <1>3, WkqWaiting DEF Wkq!WakeWorker
<1>6. /\ ListsOK(w') /\ Single \notin w'.susp /\ w'.susp \subseteq w.susp
      /\ ToSet(w'.list["main"]) \subseteq ToSet(w.list["main"])
      /\ w.list["main"] = <<>> => w'.list["main"] = <<>>
  BY <1>1, <1>5, WkqWakes
<1> QED BY <1>1, <1>4, <1>6 DEF WkqInv

(* The worker is in a work function.                                        *)
WkqCalling == {"work", "all", "alllate"}

(* Works are taken out.                                                     *)
LEMMA WkqCancels ==
  ASSUME WkqInv, NEW q \in WkqFields, obj' = q, UNCHANGED w,
         q.sem = obj.sem, q.done = obj.done,
         obj.works = <<>> => q.works = <<>>, q.delayed # <<>> => obj.delayed # <<>>,
         pc' \in [Actor -> WkqPlaces], DOMAIN arg' = Actor,
         \/ pc'[Single] = pc[Single] /\ arg'[Single] = arg[Single]
         \/ pc[Single] \in WkqCalling /\ pc'[Single] \in WkqCalling,
         \A t \in w.susp : pc'[t] = pc[t]
  PROVE  WkqInv'
<1>1. \A t \in ToSet(w.list["main"]) : t \in w.susp
  BY DEF WkqInv, ListsOK, List
<1>2. pc[Single] \in WkqCalling => pc[Single] \notin {"wait", "idle", "ack", "release"}
  BY DEF WkqCalling
<1>3. pc'[Single] \in WkqCalling =>
        /\ pc'[Single] \notin {"wait", "idle", "ack", "release"}
        /\ pc'[Single] \in {"loop", "idle", "wait", "work", "ack", "release", "all", "alllate"}
  BY DEF WkqCalling
<1> QED BY <1>1, <1>2, <1>3 DEF WkqInv

(* rt_workqueue_cancel_work.                                                *)
LEMMA WkqCancelKeeps ==
  ASSUME WkqInv, NEW a, NEW x, Wkq!Cancel(a, x)
  PROVE  WkqInv'
<1>1. /\ obj \in WkqFields /\ UNCHANGED <<w, pc, arg>> /\ obj' = Wkq!Out(x)
      /\ pc' \in [Actor -> WkqPlaces] /\ DOMAIN arg' = Actor
  BY DEF WkqInv, Wkq!Cancel
<1>2. /\ Wkq!Out(x) \in WkqFields
      /\ Wkq!Out(x).sem = obj.sem /\ Wkq!Out(x).done = obj.done
      /\ obj.works = <<>> => Wkq!Out(x).works = <<>>
      /\ Wkq!Out(x).delayed # <<>> => obj.delayed # <<>>
  BY <1>1, WkqOut
<1> QED BY <1>1, <1>2, WkqCancels

(* The steps of rt_workqueue_cancel_all_work move one actor, who may be the *)
(* worker in a work function.                                               *)
LEMMA WkqCallMoves ==
  ASSUME Nested = FALSE, WkqInv, NEW a \in Actor,
         Wkq!CancelAll(a) \/ Wkq!CancelLook(a) \/ Wkq!CancelOne(a)
  PROVE  /\ pc' \in [Actor -> WkqPlaces] /\ DOMAIN arg' = Actor
         /\ \/ pc'[Single] = pc[Single] /\ arg'[Single] = arg[Single]
            \/ pc[Single] \in WkqCalling /\ pc'[Single] \in WkqCalling
         /\ \A t \in w.susp : pc'[t] = pc[t]
<1>1. /\ pc \in [Actor -> WkqPlaces] /\ DOMAIN arg = Actor /\ Single \in Actor
      /\ pc[Single] # "run"
  BY WkqWorker DEF WkqInv
<1>2. /\ a \in Thread => a \notin w.susp
      /\ \A t \in w.susp : t \in Thread /\ t \in Actor
  BY WkqRuns, WFields DEF Wkq!CancelAll, Wkq!CancelLook, Wkq!CancelOne, Wkq!Calls, WkqInv,
     ListsOK, Actor
<1>3. pc[a] \in {"run", "work", "all", "alllate"}
  BY DEF Wkq!CancelAll, Wkq!CancelLook, Wkq!CancelOne, Wkq!Calls
<1>4. PICK p, x :
        /\ pc' = [pc EXCEPT ![a] = p] \/ (UNCHANGED pc /\ p = pc[a])
        /\ arg' = [arg EXCEPT ![a] = x] \/ UNCHANGED arg
        /\ p \in WkqCalling \/ (p = "run" /\ a # Single)
  <2>1. CASE Wkq!CancelAll(a)
    <3>1. pc' = [pc EXCEPT ![a] = "all"] /\ arg' = [arg EXCEPT ![a] = Null]
      BY <2>1 DEF Wkq!CancelAll, Wkq!Goto, Wkq!Set
    <3> QED BY <3>1 DEF WkqCalling
  <2>2. CASE Wkq!CancelOne(a)
    <3>1. UNCHANGED pc /\ arg' = [arg EXCEPT ![a] = Null] /\ pc[a] \in {"all", "alllate"}
      BY <2>2 DEF Wkq!CancelOne, Wkq!Set
    <3> QED BY <3>1 DEF WkqCalling
  <2>3. CASE Wkq!CancelLook(a)
    <3>1. PICK list, next :
            /\ Wkq!Loop(a, list, next) /\ pc[a] \in {"all", "alllate"}
            /\ next \in WkqCalling \/ (next = "run" /\ a # Single)
      BY <2>3 DEF Wkq!CancelLook, WkqCalling
    <3>2. CASE list = <<>>
      <4>1. pc' = [pc EXCEPT ![a] = next] /\ UNCHANGED arg
        BY <3>1, <3>2 DEF Wkq!Loop, Wkq!Goto
      <4> QED BY <3>1, <4>1
    <3>3. CASE list # <<>>
      <4>1. UNCHANGED pc /\ arg' = [arg EXCEPT ![a] = Head(list)]
        BY <3>1, <3>3 DEF Wkq!Loop, Wkq!Set
      <4> QED BY <3>1, <4>1 DEF WkqCalling
    <3> QED BY <3>2, <3>3
  <2> QED BY <2>1, <2>2, <2>3
<1>5. p \in WkqPlaces
  BY <1>4 DEF WkqPlaces, WkqCalling
<1>6. pc' \in [Actor -> WkqPlaces] /\ DOMAIN arg' = Actor
  BY <1>1, <1>4, <1>5
<1>7. \A t \in w.susp : pc'[t] = pc[t]
  BY <1>1, <1>2, <1>4
<1>8. CASE a # Single
  BY <1>1, <1>4, <1>6, <1>7, <1>8
<1>9. CASE a = Single
  <2>1. pc[Single] \in WkqCalling
    BY <1>1, <1>3, <1>9 DEF WkqCalling
  <2>2. pc'[Single] \in WkqCalling
    BY <1>1, <1>4, <1>9
  <2> QED BY <1>6, <1>7, <2>1, <2>2
<1> QED BY <1>8, <1>9

(* rt_workqueue_cancel_all_work.                                            *)
LEMMA WkqCancelAllKeeps ==
  ASSUME Nested = FALSE, WkqInv, NEW a \in Actor,
         Wkq!CancelAll(a) \/ Wkq!CancelLook(a) \/ Wkq!CancelOne(a)
  PROVE  WkqInv'
<1>1. /\ pc' \in [Actor -> WkqPlaces] /\ DOMAIN arg' = Actor
      /\ \/ pc'[Single] = pc[Single] /\ arg'[Single] = arg[Single]
         \/ pc[Single] \in WkqCalling /\ pc'[Single] \in WkqCalling
      /\ \A t \in w.susp : pc'[t] = pc[t]
  BY WkqCallMoves
<1>2. PICK q \in WkqFields :
        /\ obj' = q /\ UNCHANGED w /\ q.sem = obj.sem /\ q.done = obj.done
        /\ obj.works = <<>> => q.works = <<>>
        /\ q.delayed # <<>> => obj.delayed # <<>>
  <2>1. obj \in WkqFields
    BY DEF WkqInv
  <2>2. CASE Wkq!CancelOne(a)
    <3>1. obj' = Wkq!Out(arg[a]) /\ UNCHANGED w
      BY <2>2 DEF Wkq!CancelOne
    <3> QED BY <2>1, <3>1, WkqOut
  <2>3. CASE Wkq!CancelAll(a) \/ Wkq!CancelLook(a)
    <3>1. UNCHANGED <<w, obj>>
      BY <2>3 DEF Wkq!CancelAll, Wkq!CancelLook
    <3> QED BY <2>1, <3>1
  <2> QED BY <2>2, <2>3
<1> QED BY <1>1, <1>2, WkqCancels

(* rt_workqueue_cancel_work_sync, until it sleeps.                          *)
LEMMA WkqSyncKeeps ==
  ASSUME Nested = FALSE, WkqInv, NEW t \in Thread \ {Single},
         \/ \E x \in Bit : Wkq!CancelSync(t, x)
         \/ Wkq!CancelOther(t) \/ Wkq!AwaitReturn(t)
         \/ Wkq!AwaitWork(t) /\ obj.sem > 0
  PROVE  WkqInv'
<1>1. t \in Actor /\ pc \in [Actor -> WkqPlaces] /\ DOMAIN arg = Actor /\ obj \in WkqFields
  BY DEF Actor, WkqInv
<1>2. t \notin w.susp
  BY WkqRuns, <1>1 DEF Wkq!CancelSync, Wkq!CancelOther, Wkq!AwaitReturn, Wkq!AwaitWork
<1>3. ASSUME NEW p \in {"run", "sync", "cancel"}, pc' = [pc EXCEPT ![t] = p],
             \E x : arg' = [arg EXCEPT ![t] = x] \/ arg' = arg
      PROVE  /\ pc' \in [Actor -> WkqPlaces] /\ DOMAIN arg' = Actor
             /\ pc'[Single] = pc[Single] /\ arg'[Single] = arg[Single]
             /\ \A u \in w.susp : pc'[u] = pc[u]
  <2>1. pc' \in [Actor -> WkqPlaces]
    BY <1>1, <1>3 DEF WkqPlaces
  <2>2. DOMAIN arg' = Actor /\ arg'[Single] = arg[Single]
    BY <1>1, <1>3, WkqWorker
  <2>3. pc'[Single] = pc[Single] /\ \A u \in w.susp : u \in Actor /\ pc'[u] = pc[u]
    BY <1>1, <1>2, <1>3, WkqWorker, WFields DEF WkqInv, ListsOK, Actor
  <2> QED BY <2>1, <2>2, <2>3
<1>4. CASE \E x \in Bit : Wkq!CancelSync(t, x)
  <2>1. PICK x \in Bit : Wkq!CancelSync(t, x)
    BY <1>4
  <2>2. PICK p \in {"sync", "cancel"} : pc' = [pc EXCEPT ![t] = p]
    BY <2>1 DEF Wkq!CancelSync, Wkq!Goto
  <2>3. arg' = [arg EXCEPT ![t] = x] /\ UNCHANGED <<w, obj>>
    BY <2>1 DEF Wkq!CancelSync, Wkq!Set
  <2>4. /\ pc' \in [Actor -> WkqPlaces] /\ DOMAIN arg' = Actor
        /\ pc'[Single] = pc[Single] /\ arg'[Single] = arg[Single]
        /\ \A u \in w.susp : pc'[u] = pc[u]
    BY <1>3, <2>2, <2>3
  <2> QED BY <1>1, <2>3, <2>4, WkqCancels
<1>5. CASE Wkq!CancelOther(t)
  <2>1. /\ obj' = Wkq!Out(arg[t]) /\ UNCHANGED w
        /\ pc' = [pc EXCEPT ![t] = "run"] /\ arg' = [arg EXCEPT ![t] = Null]
    BY <1>5 DEF Wkq!CancelOther, Wkq!Goto, Wkq!Set
  <2>2. /\ obj' \in WkqFields
        /\ obj'.sem = obj.sem /\ obj'.done = obj.done
        /\ obj.works = <<>> => obj'.works = <<>>
        /\ obj'.delayed # <<>> => obj.delayed # <<>>
    BY <1>1, <2>1, WkqOut
  <2>3. /\ pc' \in [Actor -> WkqPlaces] /\ DOMAIN arg' = Actor
        /\ pc'[Single] = pc[Single] /\ arg'[Single] = arg[Single]
        /\ \A u \in w.susp : pc'[u] = pc[u]
    BY <1>3, <2>1
  <2> QED BY <2>1, <2>2, <2>3, WkqCancels
<1>6. CASE Wkq!AwaitReturn(t)
  <2>1. pc' = [pc EXCEPT ![t] = "run"] /\ UNCHANGED <<w, arg, obj>>
    BY <1>6 DEF Wkq!AwaitReturn, Wkq!Goto
  <2>2. /\ pc' \in [Actor -> WkqPlaces] /\ DOMAIN arg' = Actor
        /\ pc'[Single] = pc[Single] /\ arg'[Single] = arg[Single]
        /\ \A u \in w.susp : pc'[u] = pc[u]
    BY <1>3, <2>1
  <2> QED BY <1>1, <2>1, <2>2, WkqCancels
<1>7. CASE Wkq!AwaitWork(t) /\ obj.sem > 0
  <2>1. /\ obj' = [obj EXCEPT !.sem = @ - 1] /\ UNCHANGED w
        /\ pc' = [pc EXCEPT ![t] = "run"] /\ arg' = [arg EXCEPT ![t] = Null]
    <3>1. ~ obj.sem = 0
      BY <1>1, <1>7 DEF WkqFields
    <3> QED BY <1>7, <3>1 DEF Wkq!AwaitWork, Wkq!Goto, Wkq!Set
  <2>2. obj.sem - 1 \in 0 .. 1 /\ obj.sem - 1 = 0
    BY <1>1, <1>7 DEF WkqFields
  <2>3. /\ obj' \in WkqFields /\ obj'.sem = 0 /\ obj'.done = obj.done
        /\ obj'.works = obj.works /\ obj'.delayed = obj.delayed
    BY <1>1, <2>1, <2>2 DEF WkqFields
  <2>4. /\ pc' \in [Actor -> WkqPlaces] /\ DOMAIN arg' = Actor
        /\ pc'[Single] = pc[Single] /\ arg'[Single] = arg[Single]
        /\ \A u \in w.susp : pc'[u] = pc[u]
    BY <1>3, <2>1
  <2>5. \A u \in ToSet(w.list["main"]) : u \in w.susp
    BY DEF WkqInv, ListsOK, List
  <2> QED BY <2>1, <2>3, <2>4, <2>5 DEF WkqInv
<1> QED BY <1>4, <1>5, <1>6, <1>7

(* It sleeps.                                                               *)
LEMMA WkqAwaitKeeps ==
  ASSUME Nested = FALSE, WkqInv, NEW t \in Thread \ {Single}, Wkq!AwaitWork(t), obj.sem = 0
  PROVE  WkqInv'
<1>1. /\ t \in Actor /\ pc \in [Actor -> WkqPlaces] /\ DOMAIN arg = Actor /\ obj \in WkqFields
      /\ ListsOK(w) /\ "main" \in List /\ "+EINTR" \in Error
  BY DEF Actor, WkqInv, List, Error
<1>2. t \notin w.susp
  BY WkqRuns, <1>1 DEF Wkq!AwaitWork
<1>3. /\ w' = SuspendTo(w, t, "main", "FIFO", "+EINTR", "forever") /\ UNCHANGED obj
      /\ pc' = [pc EXCEPT ![t] = "asleep"] /\ arg' = [arg EXCEPT ![t] = Null]
  BY WkqWaiting DEF Wkq!AwaitWork, Wkq!Goto, Wkq!Set
<1>4. Slept(w, w', t, "main", "+EINTR")
  BY <1>1, <1>2, <1>3, SuspendToSleeps
<1>5. /\ ListsOK(w') /\ w'.susp = w.susp \cup {t}
      /\ ToSet(w'.list["main"]) = ToSet(w.list["main"]) \cup {t}
  BY <1>4 DEF Slept
<1>6. w'.timer[Single] = w.timer[Single]
  <2>1. w' = [Suspend(w, t, "+EINTR", "forever") EXCEPT
                !.list["main"] = Enqueue(@, t, "FIFO")]
    BY <1>3 DEF SuspendTo
  <2>2. Suspended(w, Suspend(w, t, "+EINTR", "forever"), t, "+EINTR", "forever")
    BY <1>1, SuspendSleeps
  <2> DEFINE s == Suspend(w, t, "+EINTR", "forever")
  <2> HIDE DEF s
  <2>3. /\ s \in WState
           /\ s.timer = [w.timer EXCEPT ![t] = IF "forever" = "finite" THEN "armed" ELSE "off"]
    BY <2>2 DEF Suspended, ListsOK, s
  <2>4. w' = [s EXCEPT !.list["main"] = Enqueue(@, t, "FIFO")]
    BY <2>1 DEF s
  <2>5. w'.timer = s.timer
    BY <2>3, <2>4 DEF WState
  <2>6. Single \in Thread /\ w.timer \in [Thread -> {"off", "armed", "firing", "missed"}]
    BY <1>1, WkqWorker, WFields DEF ListsOK
  <2> QED BY <2>3, <2>5, <2>6
<1>7. /\ pc' \in [Actor -> WkqPlaces] /\ DOMAIN arg' = Actor
      /\ pc'[Single] = pc[Single] /\ arg'[Single] = arg[Single] /\ pc'[t] = "asleep"
      /\ \A u \in w.susp : u # t => pc'[u] = pc[u]
  <2>1. /\ pc' \in [Actor -> WkqPlaces] /\ DOMAIN arg' = Actor
        /\ pc'[Single] = pc[Single] /\ arg'[Single] = arg[Single] /\ pc'[t] = "asleep"
    BY <1>1, <1>3, WkqWorker DEF WkqPlaces
  <2>2. \A u \in w.susp : u \in Actor
    BY <1>1, WFields DEF ListsOK, Actor
  <2> QED BY <1>1, <1>3, <2>1, <2>2
<1>8. \A u \in ToSet(w.list["main"]) : u \in w.susp
  BY <1>1 DEF ListsOK
<1>9. ~ obj'.sem > 0 /\ obj' = obj
  BY <1>3
<1>10. /\ \A u \in ToSet(w'.list["main"]) : pc'[u] = "asleep"
       /\ \A u \in w'.susp \ {Single} : pc'[u] = "asleep"
       /\ Single \in w'.susp => Single \in w.susp
  BY <1>5, <1>7, <1>8 DEF WkqInv
<1> QED BY <1>1, <1>5, <1>6, <1>7, <1>9, <1>10 DEF WkqInv

(* The worker looks at its lists.                                           *)
LEMMA WkqLookKeeps ==
  ASSUME Nested = FALSE, WkqInv, Wkq!Look
  PROVE  WkqInv'
<1>1. /\ Single \in Actor /\ pc \in [Actor -> WkqPlaces] /\ DOMAIN arg = Actor /\ obj \in WkqFields
      /\ pc[Single] = "loop" /\ UNCHANGED w /\ obj.sem = 0
  BY WkqWorker DEF Wkq!Look, Wkq!At, WkqInv
<1>2. Single \notin w.susp
  BY WkqRuns, WkqWorker DEF Wkq!Look, Wkq!At
<1>3. PICK n \in 0 .. Len(obj.delayed) :
        LET works == obj.works \o SubSeq(obj.delayed, 1, n)
            late  == SubSeq(obj.delayed, n + 1, Len(obj.delayed))
        IN  IF works = <<>>
            THEN /\ pc' = [pc EXCEPT ![Single] = "idle"]
                 /\ arg' = [arg EXCEPT ![Single] = IF late = <<>> THEN "forever" ELSE "finite"]
                 /\ UNCHANGED obj
            ELSE /\ obj' = [obj EXCEPT !.works = Tail(works), !.delayed = late,
                                       !.current = Head(works)]
                 /\ pc' = [pc EXCEPT ![Single] = "work"]
                 /\ UNCHANGED arg
  BY DEF Wkq!Look, Wkq!Goto, Wkq!Set
<1> DEFINE due == SubSeq(obj.delayed, 1, n)
           works == obj.works \o due
           late == SubSeq(obj.delayed, n + 1, Len(obj.delayed))
<1>4. obj.works \in Seq(Bit) /\ obj.delayed \in Seq(Bit)
  BY <1>1 DEF WkqFields
<1>5. /\ due \in Seq(Bit) /\ Len(due) = n
      /\ late \in Seq(Bit)
  BY <1>4, SubSeqProperties
<1>6. n = 0 => late = obj.delayed
  BY <1>4
<1> HIDE DEF due, late
<1>7. works \in Seq(Bit) /\ (works = <<>> => n = 0 /\ obj.works = <<>>)
  <2>1. works \in Seq(Bit) /\ Len(works) = Len(obj.works) + Len(due)
    BY <1>4, <1>5, ConcatProperties
  <2>2. works = <<>> => Len(obj.works) + n = 0
    BY <1>5, <2>1
  <2> QED BY <1>4, <2>1, <2>2
<1>8. /\ \A t \in ToSet(w.list["main"]) : t \in w.susp
      /\ \A t \in w.susp : t \in Actor
  BY WFields DEF WkqInv, ListsOK, List, Actor
<1>9. CASE works = <<>>
  <2>1. /\ pc' = [pc EXCEPT ![Single] = "idle"]
        /\ arg' = [arg EXCEPT ![Single] = IF late = <<>> THEN "forever" ELSE "finite"]
        /\ UNCHANGED obj
    BY <1>3, <1>9 DEF due, late
  <2>2. obj.works = <<>> /\ (obj.delayed # <<>> => arg'[Single] = "finite")
    BY <1>1, <1>6, <1>7, <1>9, <2>1
  <2>3. /\ pc' \in [Actor -> WkqPlaces] /\ pc'[Single] = "idle" /\ DOMAIN arg' = Actor
        /\ \A t \in w.susp : pc'[t] = pc[t]
    BY <1>1, <1>2, <1>8, <2>1 DEF WkqPlaces
  <2> QED BY <1>1, <1>2, <1>8, <2>1, <2>2, <2>3 DEF WkqInv
<1>10. CASE works # <<>>
  <2>1. /\ obj' = [obj EXCEPT !.works = Tail(works), !.delayed = late, !.current = Head(works)]
        /\ pc' = [pc EXCEPT ![Single] = "work"] /\ UNCHANGED arg
    BY <1>3, <1>10 DEF due, late
  <2>2. Tail(works) \in Seq(Bit) /\ Head(works) \in Bit
    <3> HIDE DEF works
    <3> QED BY <1>7, <1>10
  <2> HIDE DEF works
  <2>3. obj' \in WkqFields /\ obj'.sem = obj.sem
    BY <1>1, <1>5, <2>1, <2>2 DEF WkqFields
  <2>4. /\ pc' \in [Actor -> WkqPlaces] /\ pc'[Single] = "work" /\ DOMAIN arg' = Actor
        /\ \A t \in w.susp : pc'[t] = pc[t]
    BY <1>1, <1>2, <1>8, <2>1 DEF WkqPlaces
  <2> QED BY <1>1, <1>2, <1>8, <2>3, <2>4 DEF WkqInv
<1> QED BY <1>9, <1>10

(* The worker goes to sleep, or finds its completion done.                  *)
LEMMA WkqSleepKeeps ==
  ASSUME Nested = FALSE, WkqInv, Wkq!Sleep
  PROVE  WkqInv'
<1>1. /\ Single \in Actor /\ Single \in Thread
      /\ pc \in [Actor -> WkqPlaces] /\ DOMAIN arg = Actor /\ obj \in WkqFields
      /\ pc[Single] = "idle" /\ obj.sem = 0 /\ ListsOK(w)
  BY WkqWorker DEF Wkq!Sleep, Wkq!At, WkqInv
<1>2. Single \notin w.susp /\ Calm(w)
  BY WkqRuns, <1>1 DEF Wkq!Sleep, Wkq!At
<1>3. obj' = [obj EXCEPT !.done = FALSE] /\ arg' = [arg EXCEPT ![Single] = Null]
  BY DEF Wkq!Sleep, Wkq!Set
<1>4. /\ obj' \in WkqFields /\ obj'.sem = 0 /\ obj'.done = FALSE
      /\ obj'.works = obj.works /\ obj'.delayed = obj.delayed
      /\ DOMAIN arg' = Actor
  BY <1>1, <1>3 DEF WkqFields
<1>5. /\ \A t \in ToSet(w.list["main"]) : t \in w.susp
      /\ \A t \in w.susp : t \in Actor
  BY <1>1, WFields DEF ListsOK, List, Actor
<1>6. CASE obj.done /\ pc' = [pc EXCEPT ![Single] = "loop"] /\ UNCHANGED w
  <2>1. /\ pc' \in [Actor -> WkqPlaces] /\ pc'[Single] = "loop"
        /\ \A t \in w.susp : pc'[t] = pc[t]
    BY <1>1, <1>2, <1>5, <1>6 DEF WkqPlaces
  <2> QED BY <1>1, <1>2, <1>4, <1>5, <1>6, <2>1 DEF WkqInv
<1>7. CASE ~ obj.done /\ w' = Suspend(w, Single, "EOK", arg[Single])
           /\ pc' = [pc EXCEPT ![Single] = "wait"]
  <2>1. Suspended(w, w', Single, "EOK", arg[Single])
    BY <1>1, <1>7, SuspendSleeps DEF Error
  <2>2. /\ ListsOK(w') /\ w'.list = w.list /\ w'.susp = w.susp \cup {Single}
        /\ w'.timer = [w.timer EXCEPT ![Single] = IF arg[Single] = "finite" THEN "armed" ELSE "off"]
    BY <2>1 DEF Suspended
  <2>3. obj.works = <<>> /\ (obj.delayed # <<>> => arg[Single] = "finite")
    BY <1>1, <1>7 DEF WkqInv
  <2>4. obj.delayed # <<>> => w'.timer[Single] # "off"
    BY <1>1, <2>2, <2>3, WFields DEF ListsOK
  <2>5. /\ pc' \in [Actor -> WkqPlaces] /\ pc'[Single] = "wait"
        /\ \A t \in w.susp : pc'[t] = pc[t]
    BY <1>1, <1>2, <1>5, <1>7 DEF WkqPlaces
  <2>6. /\ \A t \in ToSet(w'.list["main"]) : pc'[t] = "asleep"
        /\ \A t \in w'.susp \ {Single} : pc'[t] = "asleep"
    BY <1>5, <2>2, <2>5 DEF WkqInv
  <2> QED BY <1>1, <1>4, <2>2, <2>3, <2>4, <2>5, <2>6 DEF WkqInv
<1> QED BY <1>6, <1>7, WkqWaiting DEF Wkq!Sleep, Wkq!Goto

(* The worker wakes, ends a work, or finds the token it has released.       *)
LEMMA WkqWorkKeeps ==
  ASSUME Nested = FALSE, WkqInv, Wkq!Awake \/ Wkq!WorkDone \/ Wkq!TryTake
  PROVE  WkqInv'
<1>1. /\ Single \in Actor /\ pc \in [Actor -> WkqPlaces] /\ obj \in WkqFields
      /\ UNCHANGED <<w, arg>>
  BY WkqWorker DEF Wkq!Awake, Wkq!WorkDone, Wkq!TryTake, WkqInv
<1>2. Single \notin w.susp
  BY WkqRuns, WkqWorker DEF Wkq!Awake, Wkq!WorkDone, Wkq!TryTake, Wkq!At
<1>3. /\ \A t \in ToSet(w.list["main"]) : t \in w.susp
      /\ \A t \in w.susp : t \in Actor
  BY WFields DEF WkqInv, ListsOK, List, Actor
<1>4. ASSUME NEW p \in {"loop", "ack", "release"}, pc' = [pc EXCEPT ![Single] = p],
             obj' \in WkqFields, p = "loop" => obj'.sem = 0,
             obj'.sem > 0 => obj.sem > 0
      PROVE  WkqInv'
  <2>1. /\ pc' \in [Actor -> WkqPlaces] /\ pc'[Single] = p
        /\ \A t \in w.susp : pc'[t] = pc[t]
    BY <1>1, <1>2, <1>3, <1>4 DEF WkqPlaces
  <2> QED BY <1>1, <1>2, <1>3, <1>4, <2>1 DEF WkqInv
<1>5. CASE Wkq!Awake
  <2>1. obj' = [obj EXCEPT !.done = FALSE] /\ pc' = [pc EXCEPT ![Single] = "loop"] /\ obj.sem = 0
    BY <1>5 DEF Wkq!Awake, Wkq!Goto, Wkq!At, WkqInv
  <2>2. obj' \in WkqFields /\ obj'.sem = obj.sem
    BY <1>1, <2>1 DEF WkqFields
  <2> QED BY <1>4, <2>1, <2>2
<1>6. CASE Wkq!WorkDone
  <2>1. obj' = [obj EXCEPT !.current = Null] /\ pc' = [pc EXCEPT ![Single] = "ack"]
    BY <1>6 DEF Wkq!WorkDone, Wkq!Goto
  <2>2. obj' \in WkqFields /\ obj'.sem = obj.sem
    BY <1>1, <2>1 DEF WkqFields
  <2> QED BY <1>4, <2>1, <2>2
<1>7. CASE Wkq!TryTake
  <2>1. CASE obj.sem > 0
    <3>1. obj' = [obj EXCEPT !.sem = @ - 1] /\ pc' = [pc EXCEPT ![Single] = "loop"]
      BY <1>7, <2>1 DEF Wkq!TryTake, Wkq!Goto
    <3>2. obj.sem - 1 \in 0 .. 1 /\ obj.sem - 1 = 0
      BY <1>1, <2>1 DEF WkqFields
    <3>3. obj' \in WkqFields /\ obj'.sem = 0
      BY <1>1, <3>1, <3>2 DEF WkqFields
    <3> QED BY <1>4, <3>1, <3>3
  <2>2. CASE ~ obj.sem > 0
    <3>1. obj' = obj /\ pc' = [pc EXCEPT ![Single] = "release"]
      BY <1>7, <2>2 DEF Wkq!TryTake, Wkq!Goto
    <3> QED BY <1>1, <1>4, <3>1
  <2> QED BY <2>1, <2>2
<1> QED BY <1>5, <1>6, <1>7

(* The worker releases the semaphore.                                       *)
LEMMA WkqReleaseKeeps ==
  ASSUME Nested = FALSE, WkqInv, Wkq!Release
  PROVE  WkqInv'
<1>1. /\ Single \in Actor /\ pc \in [Actor -> WkqPlaces] /\ obj \in WkqFields
      /\ UNCHANGED arg /\ ListsOK(w) /\ "main" \in List /\ "EOK" \in Error
      /\ pc[Single] = "release"
  BY WkqWorker DEF Wkq!Release, Wkq!At, WkqInv, List, Error
<1>2. Single \notin w.susp /\ Calm(w)
  BY WkqRuns, WkqWorker DEF Wkq!Release, Wkq!At
<1>3. /\ w' = Dequeue(w, "main", "EOK") /\ pc' = [pc EXCEPT ![Single] = "ack"]
      /\ obj' = [obj EXCEPT !.sem = IF w.list["main"] = <<>> THEN 1 ELSE @]
  BY WkqWaiting DEF Wkq!Release, Wkq!Goto
<1>4. /\ ListsOK(w') /\ w'.susp \subseteq w.susp
      /\ ToSet(w'.list["main"]) \subseteq ToSet(w.list["main"])
      /\ w.list["main"] = <<>> => w'.list["main"] = <<>>
  <2>1. CASE w.list["main"] = <<>>
    <3>1. w' = w
      BY <1>3, <2>1 DEF Dequeue
    <3> QED BY <1>1, <3>1
  <2>2. CASE w.list["main"] # <<>>
    <3> DEFINE h == Head(w.list["main"])
    <3>1. Dequeued(w, w', h, "EOK")
      BY <1>1, <1>2, <1>3, <2>2, DequeueFrees
    <3> HIDE DEF h
    <3>2. ListsOK(w') /\ w'.susp = w.susp \ {h}
          /\ ToSet(w'.list["main"]) = ToSet(w.list["main"]) \ {h}
      BY <1>1, <3>1 DEF Dequeued, Freed
    <3> QED BY <2>2, <3>2
  <2> QED BY <2>1, <2>2
<1>5. /\ \A t \in ToSet(w.list["main"]) : t \in w.susp
      /\ \A t \in w.susp : t \in Actor
  BY <1>1, WFields DEF ListsOK, Actor
<1>6. obj' \in WkqFields /\ (w.list["main"] # <<>> => obj'.sem = obj.sem)
  <2>1. CASE w.list["main"] = <<>>
    <3>1. obj' = [obj EXCEPT !.sem = 1]
      BY <1>3, <2>1
    <3> QED BY <1>1, <2>1, <3>1 DEF WkqFields
  <2>2. CASE w.list["main"] # <<>>
    <3>1. obj' = [obj EXCEPT !.sem = obj.sem]
      BY <1>3, <2>2
    <3> QED BY <1>1, <3>1 DEF WkqFields
  <2> QED BY <2>1, <2>2
<1>7. obj'.sem > 0 => w'.list["main"] = <<>>
  BY <1>4, <1>6 DEF WkqInv
<1>8. /\ pc' \in [Actor -> WkqPlaces] /\ pc'[Single] = "ack"
      /\ \A t \in w.susp : pc'[t] = pc[t]
  BY <1>1, <1>2, <1>3, <1>5 DEF WkqPlaces
<1>9. /\ \A t \in ToSet(w'.list["main"]) : pc'[t] = "asleep"
      /\ \A t \in w'.susp \ {Single} : pc'[t] = "asleep"
      /\ Single \notin w'.susp
  BY <1>2, <1>4, <1>5, <1>8 DEF WkqInv
<1> QED BY <1>1, <1>4, <1>6, <1>7, <1>8, <1>9 DEF WkqInv

(* The worker's time-out.                                                   *)
LEMMA WkqWaits ==
  ASSUME WkqInv, Wkq!Expire(Single) \/ Wkq!Timeout(Single), UNCHANGED obj
  PROVE  WkqInv'
<1>1. ListsOK(w) /\ Single \in Thread
      /\ w.timer \in [Thread -> {"off", "armed", "firing", "missed"}]
      /\ "main" \in List
  BY WFields, WkqWorker DEF WkqInv, ListsOK, List
<1>2. CASE Wkq!Expire(Single)
  <2>1. Expire(Single) /\ UNCHANGED <<pc, arg>>
    BY <1>2 DEF Wkq!Expire, Expire, Wkq!InCallback, InCallback
  <2>2. /\ ListsOK(w') /\ w'.list = w.list /\ w'.susp = w.susp
        /\ w'.timer = [w.timer EXCEPT ![Single] = "firing"]
    BY <1>1, <2>1, ExpireWaits
  <2>3. w'.timer[Single] # "off"
    BY <1>1, <2>2
  <2> QED BY <2>1, <2>2, <2>3 DEF WkqInv
<1>3. CASE Wkq!Timeout(Single)
  <2>1. Timeout(Single) /\ UNCHANGED <<pc, arg>>
    BY <1>3 DEF Wkq!Timeout, Timeout, Wkq!Unlink, Unlink, Wkq!List, List,
       Wkq!RemoveFirst, RemoveFirst, Wkq!RemoveAt, RemoveAt, Wkq!SelectInSeq,
       SelectInSeq, Wkq!SelectInSubSeq, SelectInSubSeq, Wkq!Min, Min
  <2>2. Freed(w, w', Single)
    BY <1>1, <2>1, TimeoutWaits DEF Left
  <2>3. /\ ListsOK(w') /\ w'.susp = w.susp \ {Single}
        /\ ToSet(w'.list["main"]) = ToSet(w.list["main"]) \ {Single}
    BY <1>1, <2>2 DEF Freed
  <2>4. w.list["main"] = <<>> => w'.list["main"] = <<>>
    <3>1. w.list["main"] \in Seq(Thread) /\ w'.list["main"] \in Seq(Thread)
      BY <1>1, <2>3, WFields DEF ListsOK
    <3>2. \A s \in Seq(Thread) : s = <<>> <=> ToSet(s) = {}
      BY EmptyList
    <3> QED BY <2>3, <3>1, <3>2
  <2>5. /\ \A t \in ToSet(w'.list["main"]) : pc'[t] = "asleep"
        /\ \A t \in w'.susp \ {Single} : pc'[t] = "asleep"
    BY <2>1, <2>3 DEF WkqInv
  <2> QED BY <2>1, <2>3, <2>4, <2>5 DEF WkqInv
<1> QED BY <1>2, <1>3

(* No step of the work queue breaks the invariant.                          *)
LEMMA WkqKeeps ==
  ASSUME Nested = FALSE, WkqInv, Wkq!Next
  PROVE  WkqInv'
<1>1. CASE Wkq!Look \/ Wkq!Sleep \/ Wkq!Awake \/ Wkq!WorkDone \/ Wkq!TryTake \/ Wkq!Release
  BY <1>1, WkqLookKeeps, WkqSleepKeeps, WkqWorkKeeps, WkqReleaseKeeps
<1>2. ASSUME NEW a \in Actor, \/ Wkq!CancelAll(a) \/ Wkq!CancelLook(a) \/ Wkq!CancelOne(a)
                              \/ \E x \in Bit : Wkq!Submit(a, x) \/ Wkq!Cancel(a, x)
      PROVE  WkqInv'
  BY <1>2, WkqCancelKeeps, WkqCancelAllKeeps, WkqSubmitKeeps
<1>3. ASSUME NEW t \in Thread \ {Single},
             \/ Wkq!CancelOther(t) \/ Wkq!AwaitWork(t) \/ Wkq!AwaitReturn(t)
             \/ \E x \in Bit : Wkq!CancelSync(t, x)
      PROVE  WkqInv'
  <2>1. obj.sem > 0 \/ obj.sem = 0
    BY DEF WkqInv, WkqFields
  <2> QED BY <1>3, <2>1, WkqSyncKeeps, WkqAwaitKeeps
<1>4. CASE (Wkq!Expire(Single) \/ Wkq!Timeout(Single)) /\ UNCHANGED obj
  BY <1>4, WkqWaits
<1> QED BY <1>1, <1>2, <1>3, <1>4 DEF Wkq!Next, Wkq!Actor, Actor

(* It gives what the runs check.                                            *)
LEMMA WkqServes ==
  ASSUME WkqInv
  PROVE  Wkq!WorkServed
BY DEF WkqInv, Wkq!WorkServed

(* When the worker goes on after a work, nobody sleeps who waited for it.   *)
LEMMA WkqTells ==
  ASSUME Nested = FALSE, WkqInv, Wkq!Next
  PROVE  Wkq!AllTold
<1>1. SUFFICES ASSUME pc[Single] \in {"ack", "release"}, pc'[Single] = "loop"
               PROVE  w'.list["main"] = <<>>
  BY DEF Wkq!AllTold
<1>2. pc \in [Actor -> WkqPlaces] /\ Single \in Actor
  BY WkqWorker DEF WkqInv
<1>3. CASE Wkq!TryTake
  <2>1. obj.sem > 0
    BY <1>1, <1>2, <1>3 DEF Wkq!TryTake, Wkq!Goto
  <2> QED BY <1>3, <2>1 DEF Wkq!TryTake, WkqInv
<1>4. CASE Wkq!Look \/ Wkq!Sleep \/ Wkq!Awake \/ Wkq!WorkDone
  BY <1>1, <1>4 DEF Wkq!Look, Wkq!Sleep, Wkq!Awake, Wkq!WorkDone, Wkq!At
<1>5. CASE Wkq!Release
  BY <1>1, <1>2, <1>5 DEF Wkq!Release, Wkq!Goto
<1>6. ASSUME UNCHANGED pc PROVE FALSE
  BY <1>1, <1>6
<1>7. ASSUME NEW t \in Thread \ {Single}, NEW p, pc' = [pc EXCEPT ![t] = p] PROVE FALSE
  BY <1>1, <1>2, <1>7
<1>8. ASSUME NEW t \in Thread \ {Single},
             \/ Wkq!CancelOther(t) \/ Wkq!AwaitWork(t) \/ Wkq!AwaitReturn(t)
             \/ \E x \in Bit : Wkq!CancelSync(t, x)
      PROVE  FALSE
  BY <1>7, <1>8 DEF Wkq!CancelOther, Wkq!AwaitWork, Wkq!AwaitReturn, Wkq!CancelSync, Wkq!Goto
<1>9. ASSUME NEW a \in Actor, \/ Wkq!CancelAll(a) \/ Wkq!CancelLook(a) \/ Wkq!CancelOne(a)
                              \/ \E x \in Bit : Wkq!Submit(a, x) \/ Wkq!Cancel(a, x)
      PROVE  FALSE
  <2>1. CASE \E x \in Bit : Wkq!Submit(a, x) \/ Wkq!Cancel(a, x)
    BY <1>6, <2>1 DEF Wkq!Submit, Wkq!Cancel
  <2>2. CASE Wkq!CancelAll(a) \/ Wkq!CancelLook(a) \/ Wkq!CancelOne(a)
    <3>1. pc'[Single] = pc[Single] \/ pc[Single] \in WkqCalling
      BY <2>2, WkqCallMoves
    <3> QED BY <1>1, <3>1 DEF WkqCalling
  <2> QED BY <1>9, <2>1, <2>2
<1>10. ~ (Wkq!Expire(Single) \/ Wkq!Timeout(Single))
  BY <1>6 DEF Wkq!Expire, Wkq!Timeout
<1> QED BY <1>3, <1>4, <1>5, <1>8, <1>9, <1>10 DEF Wkq!Next, Wkq!Actor, Actor

-----------------------------------------------------------------------------
(* The data queue, whose low-water mark is below its size. *)

(* It suspends and wakes by these operators.                                *)
LEMMA DtqWaiting ==
  /\ \A v, t, l, flag, e, wait :
         Dtq!SuspendTo(v, t, l, flag, e, wait) = SuspendTo(v, t, l, flag, e, wait)
  /\ \A v, t : Dtq!Ready(v, t) = Ready(v, t)
  /\ \A v, l, e : Dtq!Dequeue(v, l, e) = Dequeue(v, l, e)
  /\ Dtq!WaitStep <=> WaitStep
<1> USE DEF Dtq!Suspend, Suspend, Dtq!Enqueue, Enqueue, Dtq!InsertAt,
            InsertAt, Dtq!Ready, Ready, Dtq!Unlink, Unlink, Dtq!CanReady,
            CanReady, Dtq!List, List, Dtq!RemoveFirst, RemoveFirst,
            Dtq!RemoveAt, RemoveAt, Dtq!SelectInSeq, SelectInSeq,
            Dtq!SelectInSubSeq, SelectInSubSeq, Dtq!Min, Min, Dtq!Dequeue,
            Dequeue, Dtq!SuspendTo, SuspendTo
<1>1. ASSUME NEW v, NEW t, NEW l, NEW flag, NEW e, NEW wait
     PROVE  Dtq!SuspendTo(v, t, l, flag, e, wait) = SuspendTo(v, t, l, flag, e, wait)
  BY ZenonT(30)
<1>2. ASSUME NEW v, NEW t
     PROVE  Dtq!Ready(v, t) = Ready(v, t)
  BY ZenonT(30)
<1>3. ASSUME NEW v, NEW l, NEW e
     PROVE  Dtq!Dequeue(v, l, e) = Dequeue(v, l, e)
  BY ZenonT(30)
<1>4. Dtq!WaitStep <=> WaitStep
  BY ZenonT(30) DEF Dtq!WaitStep, WaitStep, Dtq!Expire, Expire, Dtq!Timeout,
                    Timeout, Dtq!Resume, Resume, Dtq!InCallback, InCallback,
                    Dtq!CanRun, CanRun, Dtq!Actor, Actor
<1> HIDE DEF Dtq!Suspend, Suspend, Dtq!Enqueue, Enqueue, Dtq!InsertAt,
             InsertAt, Dtq!Ready, Ready, Dtq!Unlink, Unlink, Dtq!CanReady,
             CanReady, Dtq!List, List, Dtq!RemoveFirst, RemoveFirst,
             Dtq!RemoveAt, RemoveAt, Dtq!SelectInSeq, SelectInSeq,
             Dtq!SelectInSubSeq, SelectInSubSeq, Dtq!Min, Min, Dtq!Dequeue,
             Dequeue, Dtq!SuspendTo, SuspendTo
<1> QED BY <1>1, <1>2, <1>3, <1>4

(* The indexes meet when the queue is empty, or full, and only then.        *)
DtqOK(q) ==
  /\ DOMAIN q = {"item", "get", "put", "empty", "full"}
  /\ q.get \in 0 .. Size - 1 /\ q.put \in 0 .. Size - 1
  /\ q.empty \in BOOLEAN /\ q.full \in BOOLEAN /\ ~ (q.empty /\ q.full)
  /\ q.get = q.put <=> q.empty \/ q.full

(* The next place of the ring.                                              *)
LEMMA NextPlace ==
  ASSUME NEW i \in 0 .. Size - 1
  PROVE  (i + 1) % Size = IF i + 1 = Size THEN 0 ELSE i + 1
BY BoxSize

(* rt_data_queue_len                                                        *)
LEMMA DtqLength ==
  ASSUME NEW q, DtqOK(q)
  PROVE  /\ Dtq!Length(q) \in 0 .. Size
         /\ Dtq!Length(q) = 0 <=> q.empty
         /\ q.full => Dtq!Length(q) = Size
BY BoxSize DEF DtqOK, Dtq!Length

(* A datum is stored.                                                       *)
LEMMA StoredLength ==
  ASSUME DtqOK(obj), ~ obj.full, NEW m
  PROVE  DtqOK(Dtq!Stored(m)) /\ Dtq!Length(Dtq!Stored(m)) = Dtq!Length(obj) + 1
<1> DEFINE put == (obj.put + 1) % Size
           r == Dtq!Stored(m)
<1>1. put = IF obj.put + 1 = Size THEN 0 ELSE obj.put + 1
  BY NextPlace DEF DtqOK
<1>2. r = [obj EXCEPT !.item[obj.put] = m, !.put = put, !.empty = FALSE, !.full = (put = obj.get)]
  BY DEF Dtq!Stored
<1> HIDE DEF put, r
<1>3. /\ DOMAIN r = {"item", "get", "put", "empty", "full"}
      /\ r.get = obj.get /\ r.put = put /\ r.empty = FALSE /\ r.full = (put = obj.get)
  BY <1>2 DEF DtqOK
<1>4. /\ Size \in Nat \ {0} /\ obj.get \in 0 .. Size - 1 /\ obj.put \in 0 .. Size - 1
      /\ obj.empty \in BOOLEAN /\ (obj.get = obj.put <=> obj.empty)
  BY BoxSize DEF DtqOK
<1>5. put \in 0 .. Size - 1
  BY <1>1, <1>4
<1>6. DtqOK(r)
  <2>1. /\ r.get \in 0 .. Size - 1 /\ r.put \in 0 .. Size - 1
        /\ r.empty \in BOOLEAN /\ r.full \in BOOLEAN /\ ~ (r.empty /\ r.full)
    BY <1>3, <1>4, <1>5
  <2>2. r.get = r.put <=> r.empty \/ r.full
    BY <1>3, <1>4, <1>5
  <2> QED BY <1>3, <2>1, <2>2 DEF DtqOK
<1>7. Dtq!Length(r) = IF put > obj.get THEN put - obj.get ELSE Size + put - obj.get
  BY <1>3 DEF Dtq!Length
<1> SUFFICES Dtq!Length(r) = Dtq!Length(obj) + 1
  BY <1>6 DEF r
<1>8. CASE obj.empty
  <2>1. Dtq!Length(obj) = 0 /\ obj.get = obj.put
    BY <1>4, <1>8 DEF Dtq!Length
  <2>2. CASE obj.put + 1 = Size
    <3>1. put = 0 /\ ~ put > obj.get
      BY <1>1, <1>4, <2>2
    <3>2. Size + put - obj.get = 1
      BY <1>4, <2>1, <2>2, <3>1
    <3> QED BY <1>7, <2>1, <3>1, <3>2
  <2>3. CASE obj.put + 1 # Size
    BY <1>1, <1>4, <1>7, <2>1, <2>3
  <2> QED BY <2>2, <2>3
<1>9. CASE ~ obj.empty
  <2>1. /\ obj.get # obj.put
        /\ Dtq!Length(obj) = IF obj.put > obj.get THEN obj.put - obj.get
                             ELSE Size + obj.put - obj.get
    BY <1>4, <1>9 DEF Dtq!Length
  <2>2. CASE obj.put > obj.get
    <3>1. CASE obj.put + 1 = Size
      <4>1. put = 0 /\ ~ put > obj.get
        BY <1>1, <1>4, <3>1
      <4>2. Size + put - obj.get = (obj.put - obj.get) + 1
        BY <1>4, <3>1, <4>1
      <4> QED BY <1>7, <2>1, <2>2, <4>1, <4>2
    <3>2. CASE obj.put + 1 # Size
      BY <1>1, <1>4, <1>7, <2>1, <2>2, <3>2
    <3> QED BY <3>1, <3>2
  <2>3. CASE ~ obj.put > obj.get
    <3>1. obj.put + 1 # Size /\ put = obj.put + 1 /\ ~ put > obj.get
      BY <1>1, <1>4, <2>1, <2>3
    <3>2. Size + put - obj.get = (Size + obj.put - obj.get) + 1
      BY <1>4, <3>1
    <3> QED BY <1>7, <2>1, <2>3, <3>1, <3>2
  <2> QED BY <2>2, <2>3
<1> QED BY <1>8, <1>9

(* A datum is taken.                                                        *)
LEMMA FetchedLength ==
  ASSUME DtqOK(obj), ~ obj.empty
  PROVE  DtqOK(Dtq!Fetched) /\ Dtq!Length(Dtq!Fetched) = Dtq!Length(obj) - 1
<1> DEFINE get == (obj.get + 1) % Size
           r == Dtq!Fetched
<1>1. get = IF obj.get + 1 = Size THEN 0 ELSE obj.get + 1
  BY NextPlace DEF DtqOK
<1>2. r = [obj EXCEPT !.get = get, !.full = FALSE, !.empty = (obj.put = get)]
  BY DEF Dtq!Fetched
<1> HIDE DEF get, r
<1>3. /\ DOMAIN r = {"item", "get", "put", "empty", "full"}
      /\ r.get = get /\ r.put = obj.put /\ r.full = FALSE /\ r.empty = (obj.put = get)
  BY <1>2 DEF DtqOK
<1>4. /\ Size \in Nat \ {0} /\ obj.get \in 0 .. Size - 1 /\ obj.put \in 0 .. Size - 1
      /\ obj.full \in BOOLEAN /\ (obj.get = obj.put <=> obj.full)
  BY BoxSize DEF DtqOK
<1>5. get \in 0 .. Size - 1
  BY <1>1, <1>4
<1>6. DtqOK(r)
  <2>1. /\ r.get \in 0 .. Size - 1 /\ r.put \in 0 .. Size - 1
        /\ r.empty \in BOOLEAN /\ r.full \in BOOLEAN /\ ~ (r.empty /\ r.full)
    BY <1>3, <1>4, <1>5
  <2>2. r.get = r.put <=> r.empty \/ r.full
    BY <1>3, <1>4, <1>5
  <2> QED BY <1>3, <2>1, <2>2 DEF DtqOK
<1>7. Dtq!Length(r) = IF obj.put = get THEN 0
                      ELSE IF obj.put > get THEN obj.put - get ELSE Size + obj.put - get
  <2>1. CASE obj.put = get
    <3>1. r.empty = TRUE
      BY <1>3, <2>1
    <3>2. r.put = r.get /\ r.put \in Nat
      BY <1>3, <1>4, <2>1
    <3>3. ~ r.put > r.get
      BY <3>2
    <3> QED BY <2>1, <3>1, <3>3 DEF Dtq!Length
  <2>2. CASE obj.put # get
    <3>1. r.empty = FALSE
      BY <1>3, <2>2
    <3> QED BY <1>3, <2>2, <3>1 DEF Dtq!Length
  <2> QED BY <2>1, <2>2
<1> SUFFICES Dtq!Length(r) = Dtq!Length(obj) - 1
  BY <1>6 DEF r
<1>8. Dtq!Length(obj) = IF obj.put > obj.get THEN obj.put - obj.get ELSE Size + obj.put - obj.get
  BY DEF Dtq!Length
<1>9. CASE obj.put > obj.get
  <2>1. obj.get + 1 # Size /\ get = obj.get + 1
    BY <1>1, <1>4, <1>9
  <2>2. Dtq!Length(r) = obj.put - get
    BY <1>4, <1>7, <1>9, <2>1
  <2> QED BY <1>4, <1>8, <1>9, <2>1, <2>2
<1>10. CASE ~ obj.put > obj.get
  <2>1. CASE obj.get + 1 = Size
    <3>1. get = 0
      BY <1>1, <2>1
    <3>2. Dtq!Length(r) = obj.put
      BY <1>4, <1>7, <3>1
    <3>3. Dtq!Length(obj) = obj.put + 1
      BY <1>4, <1>8, <1>10, <2>1
    <3> QED BY <1>4, <3>2, <3>3
  <2>2. CASE obj.get + 1 # Size
    <3>1. get = obj.get + 1 /\ ~ obj.put > get /\ obj.put # get
      BY <1>1, <1>4, <1>10, <2>2
    <3>2. Dtq!Length(r) = Size + obj.put - get
      BY <1>7, <3>1
    <3> QED BY <1>4, <1>8, <1>10, <3>1, <3>2
  <2> QED BY <2>1, <2>2
<1> QED BY <1>9, <1>10

(* The queue emptied.                                                       *)
LEMMA ClearedLength ==
  ASSUME NEW item
  PROVE  DtqOK(Dtq!Cleared(item)) /\ Dtq!Length(Dtq!Cleared(item)) = 0
<1>1. DtqOK(Dtq!Cleared(item))
  BY BoxSize DEF DtqOK, Dtq!Cleared
<1> QED BY <1>1 DEF Dtq!Cleared, Dtq!Length

(* While threads wait to pop, each datum is matched by a popper on its way; *)
(* while threads wait to push, the data and the pushers on their way are    *)
(* more than the mark, or a reset is on its way.                            *)
DtqServed(v, c, q) ==
  /\ v.list["main"] # <<>> => Dtq!Length(q) <= Cardinality(WokenIn(v, c, "pop"))
  /\ v.list["sender"] # <<>> =>
       \/ Dtq!Length(q) + Cardinality(WokenIn(v, c, "push")) > Lwm
       \/ \E t \in Thread : c[t] \in {"clear", "reset"}

(* The mark is below the size.                                              *)
LEMMA MarkBelow ==
  Lwm \in 0 .. Size - 1 /\ Lwm \in Nat /\ Lwm < Size
<1>1. Lwm \in 0 .. Size - 1
  BY IpcAssumption, Zenon DEF Dtq!DataQueueAssumption
<1> QED BY <1>1, BoxSize

(* A set of threads that grows has no fewer members.                        *)
LEMMA CardinalityGrows ==
  ASSUME NEW K, NEW L \in SUBSET Thread, K \subseteq L
  PROVE  /\ Cardinality(K) \in Nat /\ Cardinality(L) \in Nat
         /\ Cardinality(K) <= Cardinality(L)
<1>1. IsFiniteSet(L)
  BY FS_Subset, IpcAssumption DEF Sem!WaitingAssumption, Sem!IsFiniteSet, IsFiniteSet
<1> QED BY <1>1, FS_Subset, CardinalityNat

(* Poppers sleep in one list and pushers in the other, without an error.    *)
DtqInv ==
  /\ ListsOK(w)
  /\ pc \in [Actor -> {"run", "push", "pop", "got", "clear", "reset"}]
  /\ DtqOK(obj)
  /\ \A t \in w.susp : w.err[t] = "EOK"
  /\ \A t \in ToSet(w.list["main"]) : pc[t] = "pop"
  /\ \A t \in ToSet(w.list["sender"]) : pc[t] = "push"
  /\ \A t \in w.susp : pc[t] \in {"push", "pop"}
  /\ DtqServed(w, pc, obj)

(* Whoever runs is awake.                                                   *)
LEMMA DtqRuns ==
  ASSUME Nested = FALSE, DtqInv, NEW a \in Actor, Dtq!Runs(a)
  PROVE  Calm(w) /\ (a \in Thread => a \notin w.susp)
<1>1. CanRun(a)
  BY DEF Dtq!Runs, Dtq!CanRun, CanRun, Dtq!InCallback, InCallback
<1> QED BY <1>1, RunsCalm DEF DtqInv

(* Initially.                                                               *)
LEMMA DtqStarts ==
  ASSUME Dtq!Init
  PROVE  DtqInv
<1>1. /\ w = InitW /\ pc = [a \in Actor |-> "run"] /\ \E item : obj = Dtq!Cleared(item)
  BY DEF Dtq!Init, Dtq!InitW, InitW, Dtq!List, List, Dtq!Actor, Actor
<1>2. /\ ListsOK(w) /\ w.susp = {} /\ ToSet(<<>>) = {}
      /\ w.list["main"] = <<>> /\ w.list["sender"] = <<>>
  BY <1>1, InitialLists DEF List, ToSet
<1>3. pc \in [Actor -> {"run", "push", "pop", "got", "clear", "reset"}] /\ DtqOK(obj)
  BY <1>1, ClearedLength
<1> QED BY <1>2, <1>3 DEF DtqInv, DtqServed

(* The first thread of a list is woken, and keeps its error number.         *)
LEMMA WakeFirstFetches ==
  ASSUME DtqInv, Calm(w), NEW l \in List, NEW p, \A t \in ToSet(w.list[l]) : pc[t] = p
  PROVE  Fetched(w, Dtq!WakeFirst(l), pc, l, p)
<1>1. ListsOK(w)
  BY DEF DtqInv
<1>2. Dtq!WakeFirst(l) = Dequeue(w, l, "EOK")
  <2>1. CASE w.list[l] = <<>>
    BY <2>1 DEF Dtq!WakeFirst, Dequeue
  <2>2. CASE w.list[l] # <<>>
    <3> DEFINE h == Head(w.list[l])
               r == Ready(w, h)
    <3>1. h \in ToSet(w.list[l]) /\ h \in w.susp /\ h \in Thread
      BY <1>1, <2>2, DequeueFrees DEF Error
    <3>2. w.timer[h] \in {"off", "armed"} /\ w.err[h] = "EOK"
      BY <3>1 DEF Calm, DtqInv
    <3>3. CanReady(w, h)
      BY <3>1, <3>2 DEF CanReady
    <3>4. Dequeue(w, l, "EOK") = [r EXCEPT !.err[h] = "EOK"]
      BY <2>2, <3>3 DEF Dequeue
    <3>5. Dtq!WakeFirst(l) = r
      BY <2>2, DtqWaiting DEF Dtq!WakeFirst
    <3> HIDE DEF h, r
    <3>6. r \in WState /\ r.err = w.err /\ w.err \in [Thread -> Error]
      BY <1>1, <3>1, <3>2, ReadyFrees, WFields DEF r, Freed, ListsOK
    <3>7. [r.err EXCEPT ![h] = "EOK"] = r.err
      BY <3>2, <3>6
    <3>8. [r EXCEPT !.err[h] = "EOK"] = r
      BY <3>6, <3>7 DEF WState
    <3> QED BY <3>4, <3>5, <3>8
  <2> QED BY <2>1, <2>2
<1> QED BY <1>1, <1>2, DequeueFetches

(* A datum is stored, and a popper woken.                                   *)
LEMMA DtqPuts ==
  ASSUME DtqInv, Calm(w), NEW a \in Actor, a \in Thread => a \notin w.susp,
         pc[a] \in {"run", "push"}, ~ obj.full, NEW m, Dtq!Store(m),
         pc' = [pc EXCEPT ![a] = "run"]
  PROVE  DtqInv'
<1> DEFINE n == Dtq!Length(obj)
           k == Cardinality(WokenIn(w, pc, "push"))
<1>1. /\ ListsOK(w) /\ "main" \in List /\ "sender" \in List \ {"main"}
      /\ pc \in [Actor -> {"run", "push", "pop", "got", "clear", "reset"}]
  BY DEF DtqInv, List
<1>2. DtqOK(obj') /\ Dtq!Length(obj') = n + 1 /\ n \in Nat
  BY StoredLength, DtqLength DEF DtqInv, Dtq!Store
<1>3. Fetched(w, w', pc, "main", "pop")
  <2>1. \A t \in ToSet(w.list["main"]) : pc[t] = "pop"
    BY DEF DtqInv
  <2> QED BY <1>1, <2>1, WakeFirstFetches DEF Dtq!Store
<1>4. k \in Nat
  BY CardinalityNat DEF WokenIn
<1>5. /\ w.list["main"] # <<>> => n <= Cardinality(WokenIn(w, pc, "pop"))
      /\ w.list["sender"] # <<>> =>
           n + k > Lwm \/ \E t \in Thread : pc[t] \in {"clear", "reset"}
  BY DEF DtqInv, DtqServed
<1> HIDE DEF n, k
<1>6. /\ pc' \in [Actor -> {"run", "push", "pop", "got", "clear", "reset"}] /\ pc'[a] = "run"
      /\ \A u \in Thread \ {a} : pc'[u] = pc[u]
  BY <1>1 DEF Actor
<1>7. /\ w'.list["main"] # <<>> => n + 1 <= Cardinality(WokenIn(w', pc', "pop"))
      /\ w'.list["sender"] # <<>> => k - 1 <= Cardinality(WokenIn(w', pc', "push"))
  <2>1. /\ pc[a] # "pop" /\ pc'[a] # "pop" /\ pc'[a] # "push" /\ "pop" # "push"
        /\ (w.list["sender"] # <<>> => k <= Cardinality(WokenIn(w, pc, "push")))
    BY <1>4, <1>6 DEF k
  <2>2. Passing(w, w', pc, pc', a, "main", "sender", "pop", "push", n, k)
    BY <1>1, <1>2, <1>3, <1>4, <1>5, <1>6, <2>1 DEF Passing
  <2> QED BY <2>2, PassedOn
<1>8. DtqServed(w', pc', obj')
  <2>1. Cardinality(WokenIn(w', pc', "push")) \in Nat
    BY CardinalityNat DEF WokenIn
  <2>2. w'.list["sender"] = w.list["sender"]
    BY <1>1, <1>3 DEF Fetched
  <2>3. \A t \in Thread : pc[t] \in {"clear", "reset"} => pc'[t] \in {"clear", "reset"}
    BY <1>6
  <2>4. w'.list["sender"] # <<>> =>
          \/ (n + 1) + Cardinality(WokenIn(w', pc', "push")) > Lwm
          \/ \E t \in Thread : pc'[t] \in {"clear", "reset"}
    BY <1>2, <1>4, <1>5, <1>7, <2>1, <2>2, <2>3, MarkBelow
  <2> QED BY <1>2, <1>7, <2>4 DEF DtqServed
<1>9. /\ ListsOK(w') /\ \A t \in w'.susp : w'.err[t] = "EOK"
      /\ \A t \in ToSet(w'.list["main"]) : pc'[t] = "pop"
      /\ \A t \in ToSet(w'.list["sender"]) : pc'[t] = "push"
      /\ \A t \in w'.susp : pc'[t] \in {"push", "pop"}
  <2>1. /\ ListsOK(w') /\ w'.susp \subseteq w.susp
        /\ \A t \in w'.susp : w'.err[t] = w.err[t]
        /\ ToSet(w'.list["main"]) \subseteq ToSet(w.list["main"])
        /\ ToSet(w'.list["sender"]) \subseteq ToSet(w.list["sender"])
    BY <1>1, <1>3 DEF Fetched
  <2>2. \A t \in w.susp : t \in Thread \ {a}
    BY <1>1, WFields DEF ListsOK
  <2>3. /\ ToSet(w.list["main"]) \subseteq w.susp /\ ToSet(w.list["sender"]) \subseteq w.susp
    BY <1>1 DEF ListsOK
  <2> QED BY <1>6, <2>1, <2>2, <2>3 DEF DtqInv
<1> QED BY <1>2, <1>6, <1>8, <1>9 DEF DtqInv

(* A datum is taken; at the mark a pusher is woken.                         *)
LEMMA DtqGets ==
  ASSUME DtqInv, Calm(w), NEW a \in Actor, a \in Thread => a \notin w.susp,
         pc[a] \in {"run", "pop"}, ~ obj.empty, Dtq!Fetch(a)
  PROVE  DtqInv'
<1> DEFINE n == Dtq!Length(obj)
           k == Cardinality(WokenIn(w, pc, "push"))
<1>1. /\ ListsOK(w) /\ "sender" \in List /\ "main" \in List \ {"sender"}
      /\ pc \in [Actor -> {"run", "push", "pop", "got", "clear", "reset"}]
  BY DEF DtqInv, List
<1>2. DtqOK(obj') /\ Dtq!Length(obj') = n - 1 /\ n \in Nat /\ n > 0
  <2>1. DtqOK(obj) /\ obj' = Dtq!Fetched
    BY DEF DtqInv, Dtq!Fetch
  <2>2. n \in 0 .. Size /\ n # 0
    BY <2>1, DtqLength
  <2>3. n \in Nat /\ n > 0
    BY <2>2, BoxSize
  <2> QED BY <2>1, <2>3, FetchedLength
<1>3. /\ w.list["main"] # <<>> => n <= Cardinality(WokenIn(w, pc, "pop"))
      /\ w.list["sender"] # <<>> =>
           n + k > Lwm \/ \E t \in Thread : pc[t] \in {"clear", "reset"}
  BY DEF DtqInv, DtqServed
<1>4. w' = IF n - 1 <= Lwm THEN Dtq!WakeFirst("sender") ELSE w
  BY <1>2 DEF Dtq!Fetch
<1>10. k \in Nat /\ k <= Cardinality(WokenIn(w, pc, "push"))
  BY CardinalityNat DEF WokenIn
<1> HIDE DEF n, k
<1>5. /\ pc' \in [Actor -> {"run", "push", "pop", "got", "clear", "reset"}] /\ pc'[a] = "got"
      /\ \A u \in Thread \ {a} : pc'[u] = pc[u]
  BY <1>1 DEF Actor, Dtq!Fetch, Dtq!Goto
<1>6. /\ ListsOK(w') /\ w'.susp \subseteq w.susp /\ DtqServed(w', pc', obj')
      /\ \A t \in w'.susp : w'.err[t] = w.err[t]
      /\ ToSet(w'.list["main"]) \subseteq ToSet(w.list["main"])
      /\ ToSet(w'.list["sender"]) \subseteq ToSet(w.list["sender"])
  <2>5. \A t \in Thread : pc[t] \in {"clear", "reset"} => pc'[t] \in {"clear", "reset"}
    BY <1>5
  <2>6. Cardinality(WokenIn(w', pc', "push")) \in Nat
    BY CardinalityNat DEF WokenIn
  <2>1. CASE n - 1 <= Lwm
    <3>1. Fetched(w, w', pc, "sender", "push")
      <4>1. \A t \in ToSet(w.list["sender"]) : pc[t] = "push"
        BY DEF DtqInv
      <4> QED BY <1>1, <1>4, <2>1, <4>1, WakeFirstFetches
    <3>2. pc[a] # "push" /\ pc'[a] # "push" /\ pc'[a] # "pop" /\ "pop" # "push"
      BY <1>5
    <3>3. w.list["sender"] # <<>> => k <= Cardinality(WokenIn(w, pc, "push"))
      BY <1>10
    <3>4. Passing(w, w', pc, pc', a, "sender", "main", "push", "pop", k, n)
      BY <1>1, <1>2, <1>3, <1>5, <1>10, <3>1, <3>2, <3>3 DEF Passing
    <3>5. /\ w'.list["sender"] # <<>> => k + 1 <= Cardinality(WokenIn(w', pc', "push"))
          /\ w'.list["main"] # <<>> => n - 1 <= Cardinality(WokenIn(w', pc', "pop"))
      BY <3>4, PassedOn
    <3>6. w'.list["sender"] # <<>> => w.list["sender"] # <<>>
      <4>1. ToSet(w'.list["sender"]) \subseteq ToSet(w.list["sender"])
        BY <1>1, <3>1 DEF Fetched
      <4>2. w'.list["sender"] \in Seq(Thread) /\ w.list["sender"] \in Seq(Thread)
        BY <1>1, <3>1, WFields DEF Fetched, ListsOK
      <4>3. \A s \in Seq(Thread) : s = <<>> <=> ToSet(s) = {}
        BY EmptyList
      <4> QED BY <4>1, <4>2, <4>3
    <3>9. w'.list["sender"] # <<>> =>
            \/ (n - 1) + Cardinality(WokenIn(w', pc', "push")) > Lwm
            \/ \E t \in Thread : pc'[t] \in {"clear", "reset"}
      BY <1>2, <1>3, <1>10, <2>5, <2>6, <3>5, <3>6, MarkBelow
    <3>7. DtqServed(w', pc', obj')
      BY <1>2, <3>5, <3>9 DEF DtqServed
    <3>8. /\ ListsOK(w') /\ w'.susp \subseteq w.susp
          /\ \A t \in w'.susp : w'.err[t] = w.err[t]
          /\ ToSet(w'.list["main"]) \subseteq ToSet(w.list["main"])
          /\ ToSet(w'.list["sender"]) \subseteq ToSet(w.list["sender"])
      BY <1>1, <3>1 DEF Fetched
    <3> QED BY <3>7, <3>8
  <2>2. CASE ~ n - 1 <= Lwm
    <3>1. w' = w
      BY <1>4, <2>2
    <3>2. Dtq!Length(obj') + Cardinality(WokenIn(w', pc', "push")) > Lwm
      BY <1>2, <2>2, <2>6, MarkBelow
    <3> DEFINE Q == WokenIn(w, pc, "pop")
    <3>3. WokenIn(w', pc', "pop") = Q \ {a}
      BY <1>5, <3>1 DEF WokenIn
    <3>4. Q \in SUBSET Thread
      BY DEF WokenIn
    <3>5. w.list["main"] # <<>> => n <= Cardinality(Q)
      BY <1>3
    <3> HIDE DEF Q
    <3>6. w.list["main"] # <<>> => n - 1 <= Cardinality(Q \ {a})
      <4>1. Cardinality(Q) \in Nat
        BY <3>4, CardinalityNat
      <4>2. CASE a \in Q
        <5>1. Cardinality(Q \ {a}) = Cardinality(Q) - 1
          BY <3>4, <4>2, CountOne
        <5> QED BY <1>2, <3>5, <4>1, <5>1
      <4>3. CASE a \notin Q
        <5>1. Q \ {a} = Q
          BY <4>3
        <5>2. w.list["main"] # <<>> => n - 1 <= Cardinality(Q)
          BY <1>2, <3>5, <4>1
        <5> QED BY <5>1, <5>2
      <4> QED BY <4>2, <4>3
    <3>7. DtqServed(w', pc', obj')
      BY <1>2, <3>1, <3>2, <3>3, <3>6 DEF DtqServed
    <3> QED BY <1>1, <3>1, <3>7
  <2> QED BY <2>1, <2>2
<1>7. /\ \A t \in w'.susp : w'.err[t] = "EOK"
      /\ \A t \in ToSet(w'.list["main"]) : pc'[t] = "pop"
      /\ \A t \in ToSet(w'.list["sender"]) : pc'[t] = "push"
      /\ \A t \in w'.susp : pc'[t] \in {"push", "pop"}
  <2>1. \A t \in w.susp : t \in Thread \ {a}
    BY <1>1, WFields DEF ListsOK
  <2>2. /\ ToSet(w.list["main"]) \subseteq w.susp /\ ToSet(w.list["sender"]) \subseteq w.susp
    BY <1>1 DEF ListsOK
  <2> QED BY <1>5, <1>6, <2>1, <2>2 DEF DtqInv
<1> QED BY <1>2, <1>5, <1>6, <1>7 DEF DtqInv

(* A thread goes to sleep in a call: a pusher while the queue is full, a    *)
(* popper while it is empty.                                                *)
DtqSleep(t, l, p, wait) ==
  /\ t \in Thread /\ t \notin w.susp /\ pc[t] \in {"run", p}
  /\ \/ l = "main" /\ p = "pop" /\ obj.empty
     \/ l = "sender" /\ p = "push" /\ obj.full
  /\ w' = SuspendTo(w, t, l, "FIFO", "EOK", wait)
  /\ pc' = [pc EXCEPT ![t] = p] /\ UNCHANGED obj

(* That leaves the others served.                                           *)
LEMMA DtqSleeps ==
  ASSUME DtqInv, Calm(w), NEW t, NEW l, NEW p, NEW wait, DtqSleep(t, l, p, wait)
  PROVE  DtqInv'
<1> USE DEF DtqSleep
<1>1. /\ ListsOK(w) /\ t \in Actor /\ t \in Thread /\ l \in List /\ "EOK" \in Error
      /\ pc \in [Actor -> {"run", "push", "pop", "got", "clear", "reset"}]
      /\ p \in {"push", "pop"}
  BY DEF DtqInv, Actor, Error, List
<1>2. Slept(w, w', t, l, "EOK")
  BY <1>1, SuspendToSleeps
<1>3. /\ ListsOK(w') /\ w'.susp = w.susp \cup {t} /\ w'.err = [w.err EXCEPT ![t] = "EOK"]
      /\ ToSet(w'.list[l]) = ToSet(w.list[l]) \cup {t}
      /\ \A m \in List \ {l} : w'.list[m] = w.list[m]
  BY <1>2 DEF Slept
<1>4. /\ pc' \in [Actor -> {"run", "push", "pop", "got", "clear", "reset"}] /\ pc'[t] = p
      /\ \A u \in Thread \ {t} : pc'[u] = pc[u]
  BY <1>1 DEF Actor
<1>5. \A u \in w'.susp : w'.err[u] = "EOK" /\ pc'[u] \in {"push", "pop"}
  BY <1>1, <1>3, <1>4, WFields DEF DtqInv, ListsOK
<1>6. /\ \A u \in ToSet(w'.list["main"]) : pc'[u] = "pop"
      /\ \A u \in ToSet(w'.list["sender"]) : pc'[u] = "push"
  <2>1. \A m \in List : \A u \in ToSet(w.list[m]) : u \in Thread \ {t}
    BY <1>1, WFields DEF ListsOK
  <2> QED BY <1>3, <1>4, <2>1 DEF DtqInv, List
<1>7. \A q : pc[t] # q /\ p # q => WokenIn(w', pc', q) = WokenIn(w, pc, q)
  <2> SUFFICES ASSUME NEW q, pc[t] # q, p # q PROVE WokenIn(w', pc', q) = WokenIn(w, pc, q)
    OBVIOUS
  <2>1. WokenIn(w', pc', q) = WokenIn(w, pc', q) \ {t}
    BY <1>1, <1>2, SleptLeaves
  <2>2. WokenIn(w, pc', q) = WokenIn(w, pc, q) \ {t}
    BY <1>4 DEF WokenIn
  <2>3. t \notin WokenIn(w, pc, q)
    BY DEF WokenIn
  <2> QED BY <2>1, <2>2, <2>3
<1>8. \A u \in Thread : pc[u] \in {"clear", "reset"} => pc'[u] \in {"clear", "reset"}
  BY <1>4
<1>9. DtqServed(w', pc', obj)
  <2>1. CASE l = "main" /\ p = "pop" /\ obj.empty
    <3>1. WokenIn(w', pc', "push") = WokenIn(w, pc, "push") /\ w'.list["sender"] = w.list["sender"]
      BY <1>3, <1>7, <2>1 DEF List
    <3>2. Dtq!Length(obj) <= Cardinality(WokenIn(w', pc', "pop"))
      <4>1. WokenIn(w', pc', "pop") \in SUBSET Thread
        BY DEF WokenIn
      <4>2. Cardinality(WokenIn(w', pc', "pop")) \in Nat
        BY <4>1, CardinalityNat
      <4>3. Dtq!Length(obj) = 0
        BY <2>1, DtqLength DEF DtqInv
      <4> QED BY <4>2, <4>3
    <3>3. w.list["sender"] # <<>> =>
            \/ Dtq!Length(obj) + Cardinality(WokenIn(w, pc, "push")) > Lwm
            \/ \E u \in Thread : pc[u] \in {"clear", "reset"}
      BY DEF DtqInv, DtqServed
    <3> QED BY <1>8, <3>1, <3>2, <3>3 DEF DtqServed
  <2>2. CASE l = "sender" /\ p = "push" /\ obj.full
    <3>1. WokenIn(w', pc', "pop") = WokenIn(w, pc, "pop") /\ w'.list["main"] = w.list["main"]
      BY <1>3, <1>7, <2>2 DEF List
    <3>2. Dtq!Length(obj) + Cardinality(WokenIn(w', pc', "push")) > Lwm
      <4>1. Dtq!Length(obj) = Size
        BY <2>2, DtqLength DEF DtqInv
      <4>2. Cardinality(WokenIn(w', pc', "push")) \in Nat
        BY CardinalityNat DEF WokenIn
      <4> QED BY <4>1, <4>2, BoxSize, MarkBelow
    <3>3. w.list["main"] # <<>> => Dtq!Length(obj) <= Cardinality(WokenIn(w, pc, "pop"))
      BY DEF DtqInv, DtqServed
    <3> QED BY <3>1, <3>2, <3>3 DEF DtqServed
  <2> QED BY <2>1, <2>2
<1>10. DtqServed(w', pc', obj') /\ DtqOK(obj')
  BY <1>9 DEF DtqInv
<1> QED BY <1>3, <1>4, <1>5, <1>6, <1>10 DEF DtqInv

(* A call goes on without waking anybody: it returns, having its datum or   *)
(* an error, or empties the queue, or enters or leaves a critical section.  *)
DtqMove(a, p) ==
  /\ a \in Actor /\ (a \in Thread => a \notin w.susp) /\ w' = w
  /\ pc' = [pc EXCEPT ![a] = p] /\ p \in {"run", "clear", "reset"}
  /\ pc[a] \in {"run", "got", "clear", "reset"} \/ (a \in Thread /\ w.err[a] # "EOK")
  /\ \/ UNCHANGED obj /\ pc[a] \notin {"clear", "reset"}
     \/ UNCHANGED obj /\ a \in Thread /\ p = "reset"
     \/ UNCHANGED obj /\ w.list["sender"] = <<>>
     \/ a \in Thread /\ p = "clear" /\ \E item : obj' = Dtq!Cleared(item)

(* That leaves everybody served.                                            *)
LEMMA DtqMoves ==
  ASSUME DtqInv, NEW a, NEW p, DtqMove(a, p)
  PROVE  DtqInv'
<1> USE DEF DtqMove
<1>1. /\ ListsOK(w) /\ w' = w /\ DtqOK(obj)
      /\ pc \in [Actor -> {"run", "push", "pop", "got", "clear", "reset"}]
  BY DEF DtqInv
<1>2. /\ pc' \in [Actor -> {"run", "push", "pop", "got", "clear", "reset"}] /\ pc'[a] = p
      /\ \A u \in Thread \ {a} : pc'[u] = pc[u]
  BY <1>1 DEF Actor
<1>3. \A u \in w.susp : u \in Thread \ {a}
  BY <1>1, WFields DEF ListsOK
<1>4. /\ ToSet(w.list["main"]) \subseteq w.susp /\ ToSet(w.list["sender"]) \subseteq w.susp
  BY <1>1 DEF ListsOK, List
<1>5. /\ \A t \in w'.susp : w'.err[t] = "EOK" /\ pc'[t] \in {"push", "pop"}
      /\ \A t \in ToSet(w'.list["main"]) : pc'[t] = "pop"
      /\ \A t \in ToSet(w'.list["sender"]) : pc'[t] = "push"
  BY <1>1, <1>2, <1>3, <1>4 DEF DtqInv
<1>6. /\ WokenIn(w', pc', "pop") = WokenIn(w, pc, "pop")
      /\ WokenIn(w', pc', "push") = WokenIn(w, pc, "push")
  BY <1>1, <1>2 DEF WokenIn
<1>7. DtqOK(obj') /\ DtqServed(w', pc', obj')
  <2>1. /\ w.list["main"] # <<>> => Dtq!Length(obj) <= Cardinality(WokenIn(w, pc, "pop"))
        /\ w.list["sender"] # <<>> =>
             \/ Dtq!Length(obj) + Cardinality(WokenIn(w, pc, "push")) > Lwm
             \/ \E u \in Thread : pc[u] \in {"clear", "reset"}
    BY DEF DtqInv, DtqServed
  <2>2. CASE UNCHANGED obj /\ pc[a] \notin {"clear", "reset"}
    BY <1>1, <1>2, <1>6, <2>1, <2>2 DEF DtqServed
  <2>3. CASE UNCHANGED obj /\ a \in Thread /\ p = "reset"
    BY <1>1, <1>2, <1>6, <2>1, <2>3 DEF DtqServed
  <2>4. CASE UNCHANGED obj /\ w.list["sender"] = <<>>
    BY <1>1, <1>6, <2>1, <2>4 DEF DtqServed
  <2>5. ASSUME a \in Thread, p = "clear", NEW item, obj' = Dtq!Cleared(item)
        PROVE  DtqOK(obj') /\ DtqServed(w', pc', obj')
    <3>1. DtqOK(obj') /\ Dtq!Length(obj') = 0
      BY <2>5, ClearedLength
    <3>2. 0 <= Cardinality(WokenIn(w, pc, "pop"))
      <4>1. WokenIn(w, pc, "pop") \in SUBSET Thread
        BY DEF WokenIn
      <4>2. Cardinality(WokenIn(w, pc, "pop")) \in Nat
        BY <4>1, CardinalityNat
      <4> QED BY <4>2
    <3> QED BY <1>2, <1>6, <2>5, <3>1, <3>2 DEF DtqServed
  <2> QED BY <2>2, <2>3, <2>4, <2>5
<1> QED BY <1>1, <1>2, <1>5, <1>7 DEF DtqInv

(* rt_data_queue_push, and the rest of one that has waited.                 *)
LEMMA DtqPushKeeps ==
  ASSUME Nested = FALSE, DtqInv, NEW a \in Actor,
         \/ \E m \in Mail : Dtq!Push(a, m)
         \/ a \in Thread /\ Dtq!PushWoken(a)
  PROVE  DtqInv'
<1>1. /\ Calm(w) /\ (a \in Thread => a \notin w.susp) /\ pc[a] \in {"run", "push"}
      /\ pc \in [Actor -> {"run", "push", "pop", "got", "clear", "reset"}]
  BY DtqRuns DEF Dtq!Push, Dtq!PushWoken, Dtq!Calls, DtqInv
<1>2. ASSUME NEW m, ~ obj.full, Dtq!Store(m), pc' = [pc EXCEPT ![a] = "run"]
      PROVE  DtqInv'
  BY <1>1, <1>2, DtqPuts
<1>3. ASSUME obj.full, a \in Thread, NEW wait, Dtq!WaitOn(a, "sender", wait),
             pc' = [pc EXCEPT ![a] = "push"], UNCHANGED obj
      PROVE  DtqInv'
  <2>1. w' = SuspendTo(w, a, "sender", "FIFO", "EOK", wait)
    BY <1>3, DtqWaiting DEF Dtq!WaitOn
  <2>2. DtqSleep(a, "sender", "push", wait)
    BY <1>1, <1>3, <2>1 DEF DtqSleep
  <2> QED BY <1>1, <2>2, DtqSleeps
<1>4. ASSUME NEW m \in Mail, Dtq!Push(a, m) PROVE DtqInv'
  <2>1. pc[a] = "run"
    BY <1>4 DEF Dtq!Push, Dtq!Calls
  <2>2. pc = [pc EXCEPT ![a] = "run"]
    BY <1>1, <2>1
  <2> QED BY <1>2, <1>3, <1>4, <2>2 DEF Dtq!Push, Dtq!Goto
<1>5. CASE a \in Thread /\ Dtq!PushWoken(a)
  <2>1. pc[a] = "push"
    BY <1>5 DEF Dtq!PushWoken
  <2>2. pc = [pc EXCEPT ![a] = "push"]
    BY <1>1, <2>1
  <2>3. CASE w.err[a] # "EOK" /\ Dtq!Return(a) /\ UNCHANGED <<w, obj>>
    <3>1. DtqMove(a, "run")
      BY <1>1, <1>5, <2>1, <2>3 DEF DtqMove, Dtq!Return, Dtq!Goto
    <3> QED BY <3>1, DtqMoves
  <2> QED BY <1>2, <1>3, <1>5, <2>2, <2>3 DEF Dtq!PushWoken, Dtq!Return, Dtq!Goto
<1> QED BY <1>4, <1>5

(* rt_data_queue_pop, and the rest of one that has waited.                  *)
LEMMA DtqPopKeeps ==
  ASSUME Nested = FALSE, DtqInv, NEW a \in Actor,
         Dtq!Pop(a) \/ (a \in Thread /\ Dtq!PopWoken(a))
  PROVE  DtqInv'
<1>1. /\ Calm(w) /\ (a \in Thread => a \notin w.susp) /\ pc[a] \in {"run", "pop"}
      /\ pc \in [Actor -> {"run", "push", "pop", "got", "clear", "reset"}]
  BY DtqRuns DEF Dtq!Pop, Dtq!PopWoken, Dtq!Calls, DtqInv
<1>2. CASE ~ obj.empty /\ Dtq!Fetch(a)
  BY <1>1, <1>2, DtqGets
<1>3. ASSUME obj.empty, a \in Thread, NEW wait, Dtq!WaitOn(a, "main", wait),
             pc' = [pc EXCEPT ![a] = "pop"], UNCHANGED obj
      PROVE  DtqInv'
  <2>1. w' = SuspendTo(w, a, "main", "FIFO", "EOK", wait)
    BY <1>3, DtqWaiting DEF Dtq!WaitOn
  <2>2. DtqSleep(a, "main", "pop", wait)
    BY <1>1, <1>3, <2>1 DEF DtqSleep
  <2> QED BY <1>1, <2>2, DtqSleeps
<1>4. CASE Dtq!Pop(a)
  BY <1>2, <1>3, <1>4 DEF Dtq!Pop, Dtq!Goto
<1>5. CASE a \in Thread /\ Dtq!PopWoken(a)
  <2>1. pc[a] = "pop"
    BY <1>5 DEF Dtq!PopWoken
  <2>2. pc = [pc EXCEPT ![a] = "pop"]
    BY <1>1, <2>1
  <2>3. CASE w.err[a] # "EOK" /\ Dtq!Return(a) /\ UNCHANGED <<w, obj>>
    <3>1. DtqMove(a, "run")
      BY <1>1, <1>5, <2>1, <2>3 DEF DtqMove, Dtq!Return, Dtq!Goto
    <3> QED BY <3>1, DtqMoves
  <2> QED BY <1>2, <1>3, <1>5, <2>2, <2>3 DEF Dtq!PopWoken
<1> QED BY <1>4, <1>5

(* The steps that wake nobody.                                              *)
LEMMA DtqGoesOn ==
  ASSUME Nested = FALSE, DtqInv, NEW a \in Actor,
         \/ Dtq!PopReturn(a)
         \/ a \in Thread /\ (Dtq!Clear(a) \/ Dtq!EnterReset(a) \/ Dtq!LeaveReset(a))
  PROVE  DtqInv'
<1>1. a \in Thread => a \notin w.susp
  BY DtqRuns DEF Dtq!PopReturn, Dtq!Clear, Dtq!EnterReset, Dtq!LeaveReset, Dtq!Calls
<1>2. CASE Dtq!PopReturn(a)
  <2>1. DtqMove(a, "run")
    BY <1>1, <1>2 DEF DtqMove, Dtq!PopReturn, Dtq!Return, Dtq!Goto
  <2> QED BY <2>1, DtqMoves
<1>3. CASE a \in Thread /\ Dtq!Clear(a)
  <2>1. DtqMove(a, "clear")
    BY <1>1, <1>3 DEF DtqMove, Dtq!Clear, Dtq!Calls, Dtq!Goto
  <2> QED BY <2>1, DtqMoves
<1>4. CASE a \in Thread /\ Dtq!EnterReset(a)
  <2>1. DtqMove(a, "reset")
    BY <1>1, <1>4 DEF DtqMove, Dtq!EnterReset, Dtq!Goto
  <2> QED BY <2>1, DtqMoves
<1>5. CASE a \in Thread /\ Dtq!LeaveReset(a)
  <2>1. DtqMove(a, "run")
    BY <1>1, <1>5 DEF DtqMove, Dtq!LeaveReset, Dtq!Goto, Dtq!List
  <2> QED BY <2>1, DtqMoves
<1> QED BY <1>2, <1>3, <1>4, <1>5

(* One round of a reset.                                                    *)
LEMMA DtqResetKeeps ==
  ASSUME Nested = FALSE, DtqInv, NEW t \in Thread, Dtq!ResetOne(t)
  PROVE  DtqInv'
<1>1. ListsOK(w) /\ Calm(w) /\ pc[t] = "reset" /\ UNCHANGED <<pc, obj>>
  BY DtqRuns DEF Dtq!ResetOne, DtqInv, Actor
<1>2. PICK l \in List : w.list[l] # <<>> /\ w' = Dequeue(w, l, "+ERROR")
  BY DtqWaiting DEF Dtq!ResetOne, Dtq!List, List
<1> DEFINE h == Head(w.list[l])
<1>3. h \in w.susp /\ Dequeued(w, w', h, "+ERROR")
  BY <1>1, <1>2, DequeueFrees DEF Error
<1> HIDE DEF h
<1>4. \A p : WokenIn(w', pc, p) = WokenIn(w, pc, p)
  BY <1>1, <1>3, DequeuedJoins
<1>5. /\ ListsOK(w') /\ w'.susp = w.susp \ {h} /\ w'.err = [w.err EXCEPT ![h] = "+ERROR"]
      /\ \A m \in List : ToSet(w'.list[m]) = ToSet(w.list[m]) \ {h}
      /\ \A m \in List : w'.list[m] = RemoveFirst(w.list[m], h)
  BY <1>3 DEF Dequeued, Freed
<1>6. \A u \in w'.susp : u \in w.susp /\ w'.err[u] = w.err[u]
  BY <1>1, <1>5, WFields DEF ListsOK
<1>7. "main" \in List /\ (w'.list["main"] # <<>> => w.list["main"] # <<>>)
  <2>1. w.list["main"] \in Seq(Thread) /\ w'.list["main"] \in Seq(Thread) /\ "main" \in List
    BY <1>1, <1>5, WFields DEF ListsOK, List
  <2>2. \A s \in Seq(Thread) : s = <<>> <=> ToSet(s) = {}
    BY EmptyList
  <2> QED BY <1>5, <2>1, <2>2
<1>8. DtqServed(w', pc', obj')
  BY <1>1, <1>4, <1>7 DEF DtqInv, DtqServed
<1>9. /\ \A u \in ToSet(w'.list["main"]) : pc'[u] = "pop"
      /\ \A u \in ToSet(w'.list["sender"]) : pc'[u] = "push"
  BY <1>1, <1>5 DEF DtqInv, List
<1>10. \A u \in w'.susp : w'.err[u] = "EOK" /\ pc'[u] \in {"push", "pop"}
  BY <1>1, <1>6 DEF DtqInv
<1> QED BY <1>1, <1>5, <1>8, <1>9, <1>10 DEF DtqInv

(* Time-outs and resumptions.                                               *)
LEMMA DtqWaits ==
  ASSUME Nested = FALSE, DtqInv, Dtq!WaitStep, UNCHANGED obj
  PROVE  DtqInv'
<1>1. ListsOK(w)
  BY DEF DtqInv
<1>2. Waited(w, w') /\ UNCHANGED <<pc, arg>>
  BY <1>1, DtqWaiting, WaitStepWaits
<1>3. \A q : WokenIn(w, pc, q) \subseteq WokenIn(w', pc, q)
  BY <1>1, <1>2, WaitedKeeps
<1>4. /\ ListsOK(w') /\ w'.susp \subseteq w.susp
      /\ \A l \in List : ToSet(w'.list[l]) \subseteq ToSet(w.list[l])
      /\ \A l \in List : w'.list[l] # <<>> => w.list[l] # <<>>
      /\ \A t \in w'.susp : w'.err[t] = w.err[t]
  BY <1>1, <1>2, WaitedShortens
<1>5. w'.list["main"] # <<>> => Dtq!Length(obj) <= Cardinality(WokenIn(w', pc, "pop"))
  <2> DEFINE K == WokenIn(w, pc, "pop")
             L == WokenIn(w', pc, "pop")
             n == Dtq!Length(obj)
  <2>1. L \in SUBSET Thread /\ K \subseteq L /\ n \in Nat
    BY <1>3, DtqLength, BoxSize DEF WokenIn, DtqInv
  <2>2. w'.list["main"] # <<>> => n <= Cardinality(K)
    BY <1>4 DEF DtqInv, DtqServed, List
  <2> HIDE DEF K, L, n
  <2>4. Cardinality(K) \in Nat /\ Cardinality(L) \in Nat /\ Cardinality(K) <= Cardinality(L)
    BY <2>1, CardinalityGrows
  <2>5. w'.list["main"] # <<>> => n <= Cardinality(L)
    BY <2>1, <2>2, <2>4
  <2> QED BY <2>5 DEF L, n
<1>6. DtqServed(w', pc', obj')
  <2> DEFINE K == WokenIn(w, pc, "push")
             L == WokenIn(w', pc, "push")
             n == Dtq!Length(obj)
  <2>1. w.list["sender"] # <<>> =>
          n + Cardinality(K) > Lwm \/ \E u \in Thread : pc[u] \in {"clear", "reset"}
    BY DEF DtqInv, DtqServed
  <2>2. "sender" \in List /\ pc' = pc /\ obj' = obj
    BY <1>2 DEF List
  <2>4. L \in SUBSET Thread /\ K \subseteq L /\ n \in Nat
    BY <1>3, DtqLength, BoxSize DEF WokenIn, DtqInv
  <2> HIDE DEF K, L, n
  <2>5. Cardinality(K) \in Nat /\ Cardinality(L) \in Nat /\ Cardinality(K) <= Cardinality(L)
    BY <2>4, CardinalityGrows
  <2>3. w'.list["sender"] # <<>> =>
          n + Cardinality(L) > Lwm \/ \E u \in Thread : pc[u] \in {"clear", "reset"}
    BY <1>4, <2>1, <2>2, <2>4, <2>5, MarkBelow
  <2> QED BY <1>5, <2>2, <2>3 DEF DtqServed, L, n
<1> QED BY <1>2, <1>4, <1>6 DEF DtqInv, List

(* No step of the data queue breaks the invariant.                          *)
LEMMA DtqKeeps ==
  ASSUME Nested = FALSE, DtqInv, Dtq!Next
  PROVE  DtqInv'
<1>1. ASSUME NEW a \in Actor, Dtq!Pop(a) \/ Dtq!PopReturn(a) \/ \E m \in Mail : Dtq!Push(a, m)
      PROVE  DtqInv'
  BY <1>1, DtqPopKeeps, DtqGoesOn, DtqPushKeeps
<1>2. ASSUME NEW t \in Thread, \/ Dtq!PushWoken(t) \/ Dtq!PopWoken(t)
                               \/ Dtq!Clear(t) \/ Dtq!EnterReset(t) \/ Dtq!LeaveReset(t)
      PROVE  DtqInv'
  BY <1>2, DtqPopKeeps, DtqPushKeeps, DtqGoesOn DEF Actor
<1>3. ASSUME NEW t \in Thread, Dtq!ResetOne(t) PROVE DtqInv'
  BY <1>3, DtqResetKeeps
<1> QED BY <1>1, <1>2, <1>3, DtqWaits DEF Dtq!Next, Dtq!Actor, Actor

(* It gives what the runs check.                                            *)
LEMMA DtqServes ==
  ASSUME DtqInv
  PROVE  Dtq!NoneLeft
BY DEF DtqInv, DtqServed, Dtq!NoneLeft, Dtq!Woken, WokenIn, Dtq!Cardinality, Cardinality

-----------------------------------------------------------------------------
(* The wait queue. *)

(* The wait queue suspends and wakes by these operators.                    *)
LEMMA WtqWaiting ==
  /\ \A v, t, e, wait : Wtq!Suspend(v, t, e, wait) = Suspend(v, t, e, wait)
  /\ \A v, nodes : Wtq!WakeOne(v, nodes) = WakeOne(v, nodes)
  /\ \A v, nodes : Wtq!WithoutWoken(v, nodes) = WithoutWoken(v, nodes)
  /\ \A v, nodes : Wtq!WakeAll(v, nodes) = WakeAll(v, nodes)
  /\ \A s, e : Wtq!RemoveFirst(s, e) = RemoveFirst(s, e)
  /\ Wtq!WaitStep <=> WaitStep
<1> USE DEF Wtq!Suspend, Suspend, Wtq!Ready, Ready, Wtq!Unlink, Unlink,
            Wtq!CanReady, CanReady, Wtq!List, List, Wtq!RemoveFirst, RemoveFirst,
            Wtq!RemoveAt, RemoveAt, Wtq!SelectInSeq, SelectInSeq,
            Wtq!SelectInSubSeq, SelectInSubSeq, Wtq!Min, Min, Wtq!ForEach, ForEach,
            Wtq!WakeOne, WakeOne, Wtq!WakeAll, WakeAll, Wtq!WithoutWoken, WithoutWoken,
            Wtq!FirstReady, FirstReady, Wtq!Try, Try
<1>1. ASSUME NEW v, NEW t, NEW e, NEW wait
     PROVE  Wtq!Suspend(v, t, e, wait) = Suspend(v, t, e, wait)
  BY ZenonT(30)
<1>2. ASSUME NEW v, NEW nodes
     PROVE  Wtq!WakeOne(v, nodes) = WakeOne(v, nodes)
  BY ZenonT(30)
<1>3. ASSUME NEW v, NEW nodes
     PROVE  Wtq!WithoutWoken(v, nodes) = WithoutWoken(v, nodes)
  BY ZenonT(30)
<1>4. ASSUME NEW v, NEW nodes
     PROVE  Wtq!WakeAll(v, nodes) = WakeAll(v, nodes)
  BY ZenonT(30)
<1>5. ASSUME NEW s, NEW e
     PROVE  Wtq!RemoveFirst(s, e) = RemoveFirst(s, e)
  BY ZenonT(30)
<1>6. Wtq!WaitStep <=> WaitStep
  BY ZenonT(30) DEF Wtq!WaitStep, WaitStep, Wtq!Expire, Expire, Wtq!Timeout,
                    Timeout, Wtq!Resume, Resume, Wtq!InCallback, InCallback,
                    Wtq!CanRun, CanRun, Wtq!Actor, Actor
<1> HIDE DEF Wtq!Suspend, Suspend, Wtq!Ready, Ready, Wtq!Unlink, Unlink,
             Wtq!CanReady, CanReady, Wtq!List, List, Wtq!RemoveFirst, RemoveFirst,
             Wtq!RemoveAt, RemoveAt, Wtq!SelectInSeq, SelectInSeq,
             Wtq!SelectInSubSeq, SelectInSubSeq, Wtq!Min, Min, Wtq!ForEach, ForEach,
             Wtq!WakeOne, WakeOne, Wtq!WakeAll, WakeAll, Wtq!WithoutWoken, WithoutWoken,
             Wtq!FirstReady, FirstReady, Wtq!Try, Try
<1> QED BY <1>1, <1>2, <1>3, <1>4, <1>5, <1>6

WtqFields == [flag : {"CLEAN", "WAKEUP"}, list : Seq(Thread), cond : BOOLEAN]

(* The waiter's node is in the queue while it sleeps, and in no other's     *)
(* call.                                                                    *)
WtqQueue(v, c, s) ==
  /\ c \in [Actor -> {"run", "wait", "asleep", "remove", "wake"}] /\ c[Single] # "wake"
  /\ s \in WtqFields
  /\ v.susp \subseteq {Single}
  /\ Single \in v.susp => c[Single] = "asleep" /\ s.list = <<Single>>
  /\ c[Single] \in {"run", "wait"} => s.list = <<>>
  /\ s.list = <<>> \/ s.list = <<Single>>

(* Beside a condition that holds the waiter sleeps, or is about to and will *)
(* find no wake-up, only while one is still to come or its time is over.    *)
WtqTold(v, c, s) ==
  s.cond /\ (Single \in v.susp \/ (c[Single] = "wait" /\ s.flag = "CLEAN")) =>
    \/ \E a \in Actor : c[a] = "wake"
    \/ Single \in v.susp /\ v.timer[Single] \in {"firing", "missed"}

WtqInv == ListsOK(w) /\ WtqQueue(w, pc, obj) /\ WtqTold(w, pc, obj)

(* The waiter is a thread.                                                  *)
LEMMA WtqSingle == Single \in Thread /\ Single \in Actor
  BY WaiterAssumption DEF Wtq!WaitQueueAssumption, Actor

(* Initially.                                                               *)
LEMMA WtqStarts ==
  ASSUME Wtq!Init
  PROVE  WtqInv
<1>1. /\ w = InitW /\ pc = [a \in Actor |-> "run"]
      /\ obj = [flag |-> "CLEAN", list |-> <<>>, cond |-> FALSE]
  BY DEF Wtq!Init, Wtq!InitW, InitW, Wtq!List, List, Wtq!Actor, Actor
<1>2. ListsOK(w) /\ w.susp = {}
  BY <1>1, InitialLists
<1>3. obj \in WtqFields /\ obj.list = <<>> /\ ~ obj.cond
  BY <1>1 DEF WtqFields
<1>4. pc \in [Actor -> {"run", "wait", "asleep", "remove", "wake"}] /\ pc[Single] = "run"
  BY <1>1, WtqSingle
<1> QED BY <1>2, <1>3, <1>4 DEF WtqInv, WtqQueue, WtqTold

(* The waiter steps: it is awake, and its call stands at p.                 *)
LEMMA WtqMoves ==
  ASSUME Nested = FALSE, WtqInv, Wtq!CanRun(Single),
         NEW p \in {"run", "wait", "asleep", "remove"}, pc' = [pc EXCEPT ![Single] = p]
  PROVE  /\ w.susp = {} /\ Calm(w) /\ pc'[Single] = p
         /\ pc' \in [Actor -> {"run", "wait", "asleep", "remove", "wake"}]
         /\ (\E a \in Actor : pc[a] = "wake") <=> (\E a \in Actor : pc'[a] = "wake")
<1>1. Single \in Thread /\ Single \in Actor /\ CanRun(Single)
  BY WtqSingle DEF Wtq!CanRun, CanRun, Wtq!InCallback, InCallback
<1>2. Single \notin w.susp /\ Calm(w)
  BY <1>1, RunsCalm DEF WtqInv
<1>3. pc \in [Actor -> {"run", "wait", "asleep", "remove", "wake"}] /\ pc[Single] # "wake"
  BY DEF WtqInv, WtqQueue
<1> QED BY <1>1, <1>2, <1>3 DEF WtqInv, WtqQueue

(* It looks at the condition.                                               *)
LEMMA WtqTestKeeps ==
  ASSUME Nested = FALSE, WtqInv, Wtq!Test(Single)
  PROVE  WtqInv'
<1>1. w' = w /\ Wtq!CanRun(Single) /\ pc[Single] = "run" /\ obj \in WtqFields
  BY DEF Wtq!Test, Wtq!Free, WtqInv, WtqQueue
<1>2. CASE obj' = [obj EXCEPT !.cond = FALSE] /\ pc' = pc
  <2>1. obj' \in WtqFields /\ obj'.list = obj.list /\ ~ obj'.cond
    BY <1>1, <1>2 DEF WtqFields
  <2> QED BY <1>1, <1>2, <2>1 DEF WtqInv, WtqQueue, WtqTold
<1>3. CASE ~ obj.cond /\ obj' = obj /\ pc' = [pc EXCEPT ![Single] = "wait"]
  <2>1. /\ w.susp = {} /\ pc'[Single] = "wait"
        /\ pc' \in [Actor -> {"run", "wait", "asleep", "remove", "wake"}]
    BY <1>1, <1>3, WtqMoves
  <2> QED BY <1>1, <1>3, <2>1 DEF WtqInv, WtqQueue, WtqTold
<1> QED BY <1>2, <1>3 DEF Wtq!Test, Wtq!Goto

(* _rt_wqueue_wait                                                          *)
LEMMA WtqWaitKeeps ==
  ASSUME Nested = FALSE, WtqInv, Wtq!Wait(Single)
  PROVE  WtqInv'
<1>1. /\ Wtq!CanRun(Single) /\ pc[Single] = "wait" /\ obj \in WtqFields /\ obj.list = <<>>
      /\ ListsOK(w) /\ Single \in Thread
  BY WtqSingle DEF Wtq!Wait, WtqInv, WtqQueue
<1>2. CASE /\ obj.flag = "WAKEUP" /\ w' = [w EXCEPT !.err[Single] = "EOK"]
           /\ obj' = [obj EXCEPT !.flag = "CLEAN"] /\ pc' = [pc EXCEPT ![Single] = "remove"]
  <2>1. /\ w.susp = {} /\ pc'[Single] = "remove"
        /\ pc' \in [Actor -> {"run", "wait", "asleep", "remove", "wake"}]
    BY <1>1, <1>2, WtqMoves
  <2>2. obj' \in WtqFields /\ obj'.list = <<>>
    BY <1>1, <1>2 DEF WtqFields
  <2>3. ListsOK(w') /\ w'.susp = {}
    <3> DEFINE e == [w.err EXCEPT ![Single] = "EOK"]
    <3>1. w' = [w EXCEPT !.err = e]
      BY <1>2
    <3>2. w \in WState /\ e \in [Thread -> Error]
      BY <1>1, WFields DEF ListsOK, Error
    <3> HIDE DEF e
    <3>3. /\ w' \in WState /\ w'.list = w.list /\ w'.susp = w.susp /\ w'.timer = w.timer
      BY <3>1, <3>2 DEF WState
    <3> QED BY <1>1, <2>1, <3>3 DEF ListsOK
  <2> QED BY <2>1, <2>2, <2>3 DEF WtqInv, WtqQueue, WtqTold
<1>3. ASSUME obj.flag # "WAKEUP", NEW wait, w' = Suspend(w, Single, "EOK", wait),
             obj' = [obj EXCEPT !.list = Append(@, Single)], pc' = [pc EXCEPT ![Single] = "asleep"]
      PROVE  WtqInv'
  <2>1. /\ w.susp = {} /\ pc'[Single] = "asleep"
        /\ pc' \in [Actor -> {"run", "wait", "asleep", "remove", "wake"}]
        /\ (\E a \in Actor : pc[a] = "wake") <=> (\E a \in Actor : pc'[a] = "wake")
    BY <1>1, <1>3, WtqMoves
  <2>2. Suspended(w, w', Single, "EOK", wait)
    BY <1>1, <1>3, SuspendSleeps DEF Error
  <2>3. ListsOK(w') /\ w'.susp = {Single}
    BY <2>1, <2>2 DEF Suspended
  <2>4. <<Single>> \in Seq(Thread) /\ Append(<<>>, Single) = <<Single>>
    BY <1>1
  <2>5. /\ obj' \in WtqFields /\ obj'.list = <<Single>> /\ obj'.cond = obj.cond
    BY <1>1, <1>3, <2>4 DEF WtqFields
  <2>6. obj.flag = "CLEAN"
    BY <1>1, <1>3 DEF WtqFields
  <2>7. WtqTold(w', pc', obj')
    <3>1. obj.cond => \E a \in Actor : pc[a] = "wake"
      BY <1>1, <2>1, <2>6 DEF WtqInv, WtqTold
    <3> QED BY <2>1, <2>5, <3>1 DEF WtqTold
  <2> QED BY <2>1, <2>3, <2>5, <2>7 DEF WtqInv, WtqQueue
<1> QED BY <1>2, <1>3, WtqWaiting DEF Wtq!Wait, Wtq!Goto

(* It goes on.                                                              *)
LEMMA WtqAwakeKeeps ==
  ASSUME Nested = FALSE, WtqInv, Wtq!Awake(Single) \/ Wtq!RemoveNode(Single)
  PROVE  WtqInv'
<1>1. /\ Wtq!CanRun(Single) /\ obj \in WtqFields /\ w' = w /\ ListsOK(w)
      /\ obj.list = <<>> \/ obj.list = <<Single>>
  BY DEF Wtq!Awake, Wtq!RemoveNode, WtqInv, WtqQueue
<1>2. CASE Wtq!Awake(Single)
  <2>1. pc' = [pc EXCEPT ![Single] = "remove"] /\ obj' = [obj EXCEPT !.flag = "CLEAN"]
    BY <1>2 DEF Wtq!Awake, Wtq!Goto
  <2>2. /\ w.susp = {} /\ pc'[Single] = "remove"
        /\ pc' \in [Actor -> {"run", "wait", "asleep", "remove", "wake"}]
    BY <1>1, <2>1, WtqMoves
  <2>3. obj' \in WtqFields /\ obj'.list = obj.list
    BY <1>1, <2>1 DEF WtqFields
  <2> QED BY <1>1, <2>2, <2>3 DEF WtqInv, WtqQueue, WtqTold
<1>3. CASE Wtq!RemoveNode(Single)
  <2>1. pc' = [pc EXCEPT ![Single] = "run"] /\ obj' = [obj EXCEPT !.list = RemoveFirst(@, Single)]
    BY <1>3, WtqWaiting DEF Wtq!RemoveNode, Wtq!Goto
  <2>2. /\ w.susp = {} /\ pc'[Single] = "run"
        /\ pc' \in [Actor -> {"run", "wait", "asleep", "remove", "wake"}]
    BY <1>1, <2>1, WtqMoves
  <2>3. RemoveFirst(obj.list, Single) = <<>>
    <3>1. obj.list \in Seq(Thread) /\ IsInjective(obj.list) /\ ToSet(obj.list) \subseteq {Single}
      BY <1>1 DEF WtqFields, IsInjective, ToSet
    <3>2. /\ RemoveFirst(obj.list, Single) \in Seq(Thread)
          /\ ToSet(RemoveFirst(obj.list, Single)) = ToSet(obj.list) \ {Single}
      BY <3>1, RemoveFirstProperties
    <3>3. ToSet(RemoveFirst(obj.list, Single)) = {}
      BY <3>1, <3>2
    <3> QED BY <3>2, <3>3, EmptyList
  <2>4. obj' \in WtqFields /\ obj'.list = <<>>
    <3>1. obj' = [obj EXCEPT !.list = <<>>]
      BY <2>1, <2>3
    <3>2. <<>> \in Seq(Thread)
      OBVIOUS
    <3> QED BY <1>1, <3>1, <3>2 DEF WtqFields
  <2> QED BY <1>1, <2>2, <2>4 DEF WtqInv, WtqQueue, WtqTold
<1> QED BY <1>2, <1>3

(* Another makes the condition hold.                                        *)
LEMMA WtqProduceKeeps ==
  ASSUME Nested = FALSE, WtqInv, NEW a \in Actor, Wtq!Produce(a)
  PROVE  WtqInv'
<1>1. /\ w' = w /\ a # Single /\ obj \in WtqFields /\ Single \in Actor
      /\ obj' = [obj EXCEPT !.cond = TRUE] /\ pc' = [pc EXCEPT ![a] = "wake"]
      /\ pc \in [Actor -> {"run", "wait", "asleep", "remove", "wake"}]
  BY WtqSingle DEF Wtq!Produce, Wtq!Goto, WtqInv, WtqQueue
<1>2. obj' \in WtqFields /\ obj'.list = obj.list
  BY <1>1 DEF WtqFields
<1>3. /\ pc' \in [Actor -> {"run", "wait", "asleep", "remove", "wake"}] /\ pc'[a] = "wake"
      /\ pc'[Single] = pc[Single]
  BY <1>1
<1> QED BY <1>1, <1>2, <1>3 DEF WtqInv, WtqQueue, WtqTold

(* It wakes the waiter, whatever the queue holds.                           *)
LEMMA WtqWakeKeeps ==
  ASSUME Nested = FALSE, WtqInv, NEW a \in Actor, Wtq!WakeUp(a) \/ Wtq!WakeUpAll(a)
  PROVE  WtqInv'
<1> DEFINE q == obj.list
<1>1. /\ pc[a] = "wake" /\ pc' = [pc EXCEPT ![a] = "run"] /\ CanRun(a)
      /\ \/ /\ w' = WakeOne(w, q)
            /\ obj' = [obj EXCEPT !.flag = "WAKEUP", !.list = WithoutWoken(w, q)]
         \/ /\ w' = WakeAll(w, q)
            /\ obj' = [obj EXCEPT !.flag = "WAKEUP", !.list = q]
  <2>1. CASE Wtq!WakeUp(a)
    BY <2>1, WtqWaiting DEF Wtq!WakeUp, Wtq!Goto, Wtq!CanRun, CanRun, Wtq!InCallback, InCallback
  <2>2. CASE Wtq!WakeUpAll(a)
    <3>1. obj' = [obj EXCEPT !.flag = "WAKEUP"]
      BY <2>2 DEF Wtq!WakeUpAll
    <3>2. obj' = [obj EXCEPT !.flag = "WAKEUP", !.list = q]
      BY <3>1 DEF WtqInv, WtqQueue, WtqFields
    <3> QED BY <2>2, <3>2, WtqWaiting
            DEF Wtq!WakeUpAll, Wtq!Goto, Wtq!CanRun, CanRun, Wtq!InCallback, InCallback
  <2> QED BY <2>1, <2>2
<1>2. /\ Calm(w) /\ ListsOK(w) /\ Single \in Thread /\ Single \in Actor /\ obj \in WtqFields
      /\ pc \in [Actor -> {"run", "wait", "asleep", "remove", "wake"}] /\ a # Single
      /\ q \in Seq(Thread) /\ (q = <<>> \/ q = <<Single>>) /\ w.susp \subseteq {Single}
      /\ (Single \in w.susp => q = <<Single>>)
  BY <1>1, RunsCalm, WtqSingle DEF WtqInv, WtqQueue, WtqFields
<1> HIDE DEF q
<1>3. PICK S, r : /\ WokenUp(w, w', S) /\ w.susp \subseteq S
                  /\ obj' = [obj EXCEPT !.flag = "WAKEUP", !.list = r]
                  /\ r \in Seq(Thread) /\ (r = <<>> \/ r = q)
  <2>1. CASE w' = WakeAll(w, q) /\ obj' = [obj EXCEPT !.flag = "WAKEUP", !.list = q]
    <3>1. WokenUp(w, w', ToSet(q))
      BY <1>2, <2>1, WakeAllWakes
    <3>2. w.susp \subseteq ToSet(q)
      BY <1>2 DEF ToSet
    <3> QED BY <1>2, <2>1, <3>1, <3>2
  <2>2. CASE w' = WakeOne(w, q) /\ obj' = [obj EXCEPT !.flag = "WAKEUP", !.list = WithoutWoken(w, q)]
    <3> DEFINE r == WithoutWoken(w, q)
    <3>1. WokenFirst(w, w', q, r)
      BY <1>2, <2>2, WakeOneWakes
    <3> HIDE DEF r
    <3>2. CASE ToSet(q) \cap w.susp = {} /\ WokenUp(w, w', ToSet(q)) /\ r = q
      <4>1. w.susp \subseteq ToSet(q)
        BY <1>2 DEF ToSet
      <4> QED BY <1>2, <2>2, <3>2, <4>1 DEF r
    <3>3. ASSUME NEW k \in DOMAIN q, q[k] \in w.susp, WokenUp(w, w', First(q, k)), r = RemoveAt(q, k)
          PROVE  \E S : /\ WokenUp(w, w', S) /\ w.susp \subseteq S /\ r \in Seq(Thread) /\ r = <<>>
      <4>1. q = <<Single>> /\ k = 1
        BY <1>2, <3>3
      <4>2. First(q, k) = {Single}
        BY <4>1 DEF First
      <4>3. r = <<>>
        BY <3>3, <4>1 DEF RemoveAt
      <4> QED BY <1>2, <3>3, <4>2, <4>3
    <3> QED BY <2>2, <3>1, <3>2, <3>3 DEF WokenFirst, r
  <2> QED BY <1>1, <2>1, <2>2 DEF q
<1>4. ListsOK(w') /\ w'.susp = {}
  BY <1>3 DEF WokenUp
<1>5. obj' \in WtqFields /\ obj'.list = r /\ obj'.flag = "WAKEUP"
  BY <1>2, <1>3 DEF WtqFields
<1>6. /\ pc' \in [Actor -> {"run", "wait", "asleep", "remove", "wake"}]
      /\ pc'[Single] = pc[Single]
  BY <1>1, <1>2
<1> QED BY <1>2, <1>3, <1>4, <1>5, <1>6 DEF WtqInv, WtqQueue, WtqTold, q

(* Time-outs and resumptions.                                               *)
LEMMA WtqWaits ==
  ASSUME Nested = FALSE, WtqInv, Wtq!WaitStep, UNCHANGED obj
  PROVE  WtqInv'
<1>1. ListsOK(w) /\ w.susp \subseteq {Single} /\ Single \in Thread
      /\ w.timer \in [Thread -> {"off", "armed", "firing", "missed"}]
  BY WFields, WtqSingle DEF WtqInv, WtqQueue, ListsOK
<1>2. PICK t \in Thread : Expire(t) \/ Timeout(t) \/ Resume(t)
  BY WtqWaiting DEF WaitStep
<1>3. pc' = pc
  BY <1>2 DEF Expire, Timeout, Resume
<1>4. CASE Expire(t)
  <2>1. ListsOK(w') /\ w'.susp = w.susp /\ w'.timer = [w.timer EXCEPT ![t] = "firing"]
    BY <1>1, <1>4, ExpireWaits
  <2>2. w.timer[Single] \in {"firing", "missed"} => w'.timer[Single] \in {"firing", "missed"}
    BY <1>1, <2>1
  <2> QED BY <1>3, <2>1, <2>2 DEF WtqInv, WtqQueue, WtqTold
<1>5. CASE Timeout(t) \/ Resume(t)
  <2>1. t \in w.susp /\ Left(w, w', t)
    BY <1>1, <1>5, TimeoutWaits, ResumeWaits
  <2>2. ListsOK(w') /\ w'.susp = {} /\ Single \in w.susp
    BY <1>1, <2>1 DEF Left, Freed
  <2>3. pc[Single] = "asleep"
    BY <2>2 DEF WtqInv, WtqQueue
  <2> QED BY <1>3, <2>2, <2>3 DEF WtqInv, WtqQueue, WtqTold
<1> QED BY <1>2, <1>4, <1>5

(* No step of the wait queue breaks the invariant.                          *)
LEMMA WtqKeeps ==
  ASSUME Nested = FALSE, WtqInv, Wtq!Next
  PROVE  WtqInv'
<1>1. Wtq!Actor = Actor
  BY DEF Wtq!Actor, Actor
<1> QED BY <1>1, WtqTestKeeps, WtqWaitKeeps, WtqAwakeKeeps, WtqProduceKeeps, WtqWakeKeeps,
           WtqWaits DEF Wtq!Next

(* It gives what the runs check.                                            *)
LEMMA WtqServes ==
  ASSUME WtqInv
  PROVE  Wtq!WaiterWoken
BY DEF WtqInv, WtqTold, Wtq!WaiterWoken, Wtq!Actor, Actor
=============================================================================
