------------------------------- MODULE Condvar -------------------------------
(***************************************************************************)
(* The condition variable of components/drivers/ipc/condvar.c, used as a   *)
(* monitor: under one mutex, threads produce items and signal, or wait     *)
(* until there is one and consume it.  The mutex itself is in module       *)
(* Mutex; here only its owner matters.                                     *)
(***************************************************************************)
EXTENDS Waiting

CONSTANTS
  ItemMax,   \* a bound on the items
  Null       \* the owner of a free mutex

CondvarAssumption == ItemMax \in Nat \ {0} /\ Null \notin Thread

VARIABLE cv \* event (list and flag), waiters_cnt, whether waiting_mtx is
            \* set, the owner of the mutex, and the items

vars == <<w, pc, arg, cv>>

(*   locked   has the mutex                                                 *)
(*   join     waits: has looked at waiting_mtx                              *)
(*   asleep   suspended, or woken                                           *)
(*   leave    before the waiters are counted down                           *)
(*   relock   before rt_mutex_take                                          *)
(*   retest   returned from the wait, with the mutex                        *)
(*   signal   has produced an item, the signal to come                      *)
(*   clear    before the flag is cleared                                    *)
(*   done     before rt_mutex_release                                       *)
TypeOK ==
  /\ WaitTypeOK
  /\ pc \in [Actor -> {"run", "locked", "join", "asleep", "leave", "relock", "retest",
                       "signal", "clear", "done"}]
  /\ cv \in [list : Seq(Thread), flag : {"CLEAN", "WAKEUP"}, cnt : 0 .. Cardinality(Thread),
             mtx : BOOLEAN, owner : Thread \cup {Null}, items : 0 .. ItemMax]

(* rt_condvar_init *)
Init ==
  /\ w = InitW
  /\ pc = [a \in Actor |-> "run"]
  /\ arg = [a \in Actor |-> {}]
  /\ cv = [list |-> <<>>, flag |-> "CLEAN", cnt |-> 0, mtx |-> FALSE, owner |-> Null,
           items |-> 0]

Goto(t, p) == pc' = [pc EXCEPT ![t] = p] /\ UNCHANGED arg

At(t, p) == pc[t] = p /\ CanRun(t)

-----------------------------------------------------------------------------
(* The monitor's users. *)

Lock(t) ==
  /\ \/ At(t, "run") /\ Goto(t, "locked")
     \/ At(t, "relock") /\ Goto(t, "retest")
  /\ cv.owner = Null /\ cv' = [cv EXCEPT !.owner = t]
  /\ UNCHANGED w

Consume(t) ==
  /\ At(t, "locked") \/ At(t, "retest")
  /\ cv.items > 0 /\ cv' = [cv EXCEPT !.items = @ - 1]
  /\ Goto(t, "done")
  /\ UNCHANGED w

Produce(t) ==
  /\ At(t, "locked") /\ cv.items < ItemMax
  /\ cv' = [cv EXCEPT !.items = @ + 1]
  /\ Goto(t, "signal")
  /\ UNCHANGED w

(* A waiter whose time is over need not look again.                         *)
GiveUp(t) ==
  /\ At(t, "retest") /\ w.err[t] = "-ETIMEOUT"
  /\ Goto(t, "done")
  /\ UNCHANGED <<w, cv>>

Unlock(t) ==
  /\ At(t, "done")
  /\ cv' = [cv EXCEPT !.owner = Null]
  /\ Goto(t, "run")
  /\ UNCHANGED w

-----------------------------------------------------------------------------
(* rt_condvar_timedwait: the first waiter sets waiting_mtx ...              *)
Join(t) ==
  /\ At(t, "locked") \/ At(t, "retest")
  /\ cv.items = 0
  /\ cv' = [cv EXCEPT !.mtx = TRUE]
  /\ Goto(t, "join")
  /\ UNCHANGED w

(* Mutant: the mutex is released before the thread is in the queue.         *)
Sleep_ReleasesFirst(t) ==
  \/ /\ At(t, "join") /\ cv.owner = t
     /\ cv' = [cv EXCEPT !.owner = Null]
     /\ UNCHANGED <<w, pc, arg>>
  \/ /\ At(t, "join") /\ cv.owner # t
     /\ \E wait \in Waits : w' = Suspend(w, t, w.err[t], wait)
     /\ cv' = [cv EXCEPT !.cnt = @ + 1, !.list = Append(@, t)]
     /\ Goto(t, "asleep")

(* ... and in a critical section the thread is counted, put to sleep and    *)
(* into the queue, and the mutex released; its error stays as it was.       *)
Sleep(t) ==
  /\ At(t, "join")
  /\ IF cv.flag = "WAKEUP"
     THEN cv' = [cv EXCEPT !.cnt = @ + 1, !.owner = Null] /\ UNCHANGED w
     ELSE /\ \E wait \in Waits : w' = Suspend(w, t, w.err[t], wait)
          /\ cv' = [cv EXCEPT !.cnt = @ + 1, !.list = Append(@, t), !.owner = Null]
  /\ Goto(t, "asleep")

(* Awake, it takes its node out of the queue ...                            *)
Awake(t) ==
  /\ At(t, "asleep")
  /\ cv' = [cv EXCEPT !.list = RemoveFirst(@, t)]
  /\ Goto(t, "leave")
  /\ UNCHANGED w

(* ... and the last waiter resets waiting_mtx.  The code asserts that it    *)
(* was set; without assertions it goes on, as here.                         *)
Leave(t) ==
  /\ At(t, "leave")
  /\ cv' = [cv EXCEPT !.cnt = @ - 1, !.mtx = @ /\ cv.cnt # 1]
  /\ Goto(t, "relock")
  /\ UNCHANGED w

-----------------------------------------------------------------------------
(* Mutant: only the first thread in the queue is tried.                     *)
Signal_FirstOnly(t) ==
  /\ At(t, "signal")
  /\ w' = IF cv.cnt > 0 /\ cv.list # <<>> THEN Try(w, Head(cv.list)) ELSE w
  /\ cv' = [cv EXCEPT !.flag = "WAKEUP",
                      !.list = IF cv.list # <<>> /\ CanReady(w, Head(@)) THEN Tail(@) ELSE @]
  /\ Goto(t, "clear")

(* rt_condvar_signal *)
Signal(t) ==
  /\ At(t, "signal")
  /\ IF cv.cnt > 0
     THEN /\ w' = WakeOne(w, cv.list)
          /\ cv' = [cv EXCEPT !.flag = "WAKEUP", !.list = WithoutWoken(w, @)]
     ELSE UNCHANGED <<w, cv>>
  /\ Goto(t, "clear")

(* rt_condvar_broadcast *)
Broadcast(t) ==
  /\ At(t, "signal")
  /\ IF cv.cnt > 0
     THEN w' = WakeAll(w, cv.list) /\ cv' = [cv EXCEPT !.flag = "WAKEUP"]
     ELSE UNCHANGED <<w, cv>>
  /\ Goto(t, "clear")

(* Both clear the flag that the wake-up has set.                            *)
Clear(t) ==
  /\ At(t, "clear")
  /\ cv' = [cv EXCEPT !.flag = "CLEAN"]
  /\ Goto(t, "done")
  /\ UNCHANGED w

Next ==
  \/ \E t \in Thread : \/ Lock(t) \/ Consume(t) \/ Produce(t) \/ GiveUp(t) \/ Unlock(t)
                       \/ Join(t) \/ Sleep(t) \/ Awake(t) \/ Leave(t)
                       \/ Signal(t) \/ Broadcast(t) \/ Clear(t)
  \/ WaitStep /\ UNCHANGED cv

Spec == Init /\ [][Next]_vars

-----------------------------------------------------------------------------
Asleep(t) == pc[t] = "asleep" /\ t \in w.susp

(* The assertion of condvar.c:133: the last waiter to leave finds           *)
(* waiting_mtx set.                                                         *)
LastFindsMutex ==
  \A t \in Thread : pc[t] = "leave" /\ cv.cnt = 1 => cv.mtx

(* No signal is lost: while threads sleep in the queue, each item is        *)
(* matched by a signal to come, or by a thread already woken that has not   *)
(* yet looked; a signal passes over threads that time out.                  *)
SignalsServed ==
  (\E t \in Thread : Asleep(t) /\ w.timer[t] \notin {"firing", "missed"}) =>
    cv.items <= Cardinality({t \in Thread :
      \/ pc[t] = "signal"
      \/ pc[t] \in {"asleep", "leave", "relock", "retest"} /\ ~ Asleep(t) /\ w.err[t] = "EOK"})
=============================================================================
