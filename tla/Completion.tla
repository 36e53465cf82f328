----------------------------- MODULE Completion -----------------------------
(***************************************************************************)
(* The completion of components/drivers/ipc/completion_up.c: one word that *)
(* holds the waiting thread and a flag, and no wait list.                  *)
(***************************************************************************)
EXTENDS Waiting

CONSTANT Null \* no thread

CompletionAssumption == Null \notin Thread

VARIABLE comp \* susp_thread_n_flag, as its two parts

vars == <<w, pc, arg, comp>>

(*   wait     in rt_completion_wait, suspended or woken                     *)
(*   got      about to return with success                                  *)
TypeOK ==
  /\ WaitTypeOK
  /\ pc \in [Actor -> {"run", "wait", "got"}]
  /\ comp \in [thread : Thread \cup {Null}, done : BOOLEAN]

(* RT_COMPLETION_NEW_STAT                                                   *)
Stat(t, done) == [thread |-> t, done |-> done]

Init ==
  /\ w = InitW
  /\ pc = [a \in Actor |-> "run"]
  /\ arg = [a \in Actor |-> {}]
  /\ comp = Stat(Null, FALSE)

Goto(a, p) == pc' = [pc EXCEPT ![a] = p]

-----------------------------------------------------------------------------
(* rt_completion_wait; without time to wait, a wait in vain changes         *)
(* nothing.  By the assertion only one thread waits at a time.              *)
Wait(t) ==
  /\ Free(t)
  /\ \/ /\ comp.done
        /\ comp' = Stat(Null, FALSE)
        /\ Goto(t, "got") /\ UNCHANGED w
     \/ /\ ~ comp.done /\ \A u \in Thread : pc[u] # "wait"
        /\ comp' = Stat(t, FALSE)
        /\ \E wait \in Waits : w' = Suspend(w, t, "EOK", wait)
        /\ Goto(t, "wait")
  /\ UNCHANGED arg

(* Mutant: the error number decides, not the word.                          *)
WaitWoken_ByError(t) ==
  /\ pc[t] = "wait" /\ CanRun(t)
  /\ comp' = Stat(Null, FALSE)
  /\ Goto(t, IF w.err[t] = "EOK" THEN "got" ELSE "run")
  /\ UNCHANGED <<w, arg>>

(* The rest of the call: an unchanged word means that the wait has failed;  *)
(* a changed one is looked at again, with no time left to wait.             *)
WaitWoken(t) ==
  /\ pc[t] = "wait" /\ CanRun(t)
  /\ comp' = IF comp = Stat(t, FALSE) \/ comp.done THEN Stat(Null, FALSE) ELSE comp
  /\ Goto(t, IF comp.done THEN "got" ELSE "run")
  /\ UNCHANGED <<w, arg>>

Return(t) ==
  /\ pc[t] = "got" /\ CanRun(t)
  /\ Goto(t, "run")
  /\ UNCHANGED <<w, arg, comp>>

Wake(t) == IF t = Null THEN w ELSE Ready(w, t)

(* Mutant: the word keeps the thread, and a second call is not refused.     *)
Done_KeepsThread(a) ==
  /\ Free(a)
  /\ w' = Wake(comp.thread)
  /\ comp' = [comp EXCEPT !.done = TRUE]
  /\ UNCHANGED <<pc, arg>>

(* rt_completion_done, rt_completion_wakeup; -RT_EBUSY changes nothing.     *)
Done(a) ==
  /\ Free(a) /\ ~ comp.done
  /\ w' = Wake(comp.thread)
  /\ comp' = Stat(Null, TRUE)
  /\ UNCHANGED <<pc, arg>>

(* rt_completion_init of a completion that nobody waits for.                *)
Reinit(a) ==
  /\ Free(a) /\ \A u \in Thread : pc[u] # "wait"
  /\ comp' = Stat(Null, FALSE)
  /\ UNCHANGED <<w, pc, arg>>

Next ==
  \/ \E t \in Thread : \/ Wait(t) \/ WaitWoken(t) \/ Return(t)
                       \/ (Expire(t) \/ Timeout(t)) /\ UNCHANGED comp
  \/ \E a \in Actor : Done(a) \/ Reinit(a)

Spec == Init /\ [][Next]_vars

-----------------------------------------------------------------------------
(* However a completion, the time-out and a nested handler fall together:   *)
(* a thread that sleeps in its wait is the one the word names, or its       *)
(* time-out is under way; and the time-out finds it asleep.                 *)
WaiterFound ==
  /\ \A t \in Thread :
       t \in w.susp => comp = Stat(t, FALSE) \/ w.timer[t] = "missed"
  /\ CallbackFindsThread

(* A completion is used up only by a wait that succeeds (or by a new        *)
(* initialisation, which moves nobody).                                     *)
DoneTaken ==
  comp.done /\ ~ comp'.done /\ pc' # pc =>
    \E t \in Thread : pc[t] # "got" /\ pc'[t] = "got"
=============================================================================
