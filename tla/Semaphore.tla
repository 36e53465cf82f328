------------------------------ MODULE Semaphore ------------------------------
(***************************************************************************)
(* The counting semaphore of ipc.c.                                        *)
(***************************************************************************)
EXTENDS Waiting

CONSTANTS
  Flag,      \* RT_IPC_FLAG_PRIO or RT_IPC_FLAG_FIFO
  ValueMax   \* RT_SEM_VALUE_MAX

SemaphoreAssumption == Flag \in {"FIFO", "PRIO"} /\ ValueMax \in Nat \ {0}

VARIABLE sem \* the value, its limit, whether the object exists; as history,
            \* era flips with each reset, owed counts the tokens released
            \* and not yet taken

vars == <<w, pc, arg, sem>>

TypeOK ==
  /\ WaitTypeOK
  /\ pc \in [Actor -> {"run", "take"}]
  /\ sem \in [value : 0 .. ValueMax, max : 1 .. ValueMax, live : BOOLEAN,
             era : BOOLEAN, owed : 0 .. ValueMax + Cardinality(Thread)]

(* A new value is a new count of tokens, beside those given to threads.     *)
Revalue(v) == [sem EXCEPT !.value = v, !.era = ~ @, !.owed = (@ - sem.value) + v]

Init ==
  /\ w = InitW
  /\ pc = [a \in Actor |-> "run"]
  /\ arg = [a \in Actor |-> {}]
  /\ sem \in {[value |-> v, max |-> ValueMax, live |-> TRUE, era |-> FALSE, owed |-> v] :
                v \in 0 .. ValueMax}

-----------------------------------------------------------------------------
(* rt_sem_take; without time to wait, a take of value 0 changes nothing.    *)
Take(t) ==
  /\ Free(t) /\ sem.live
  /\ \/ /\ sem.value > 0
        /\ sem' = [sem EXCEPT !.value = @ - 1, !.owed = @ - 1]
        /\ UNCHANGED <<w, pc>>
     \/ /\ sem.value = 0
        /\ \E wait \in Waits : w' = SuspendTo(w, t, "main", Flag, "+EINTR", wait)
        /\ pc' = [pc EXCEPT ![t] = "take"]
        /\ UNCHANGED sem
  /\ UNCHANGED arg

(* The rest of the call: the result is the error the thread was woken with. *)
TakeReturn(t) ==
  /\ pc[t] = "take" /\ CanRun(t)
  /\ sem' = [sem EXCEPT !.owed = IF w.err[t] = "EOK" THEN @ - 1 ELSE @]
  /\ pc' = [pc EXCEPT ![t] = "run"]
  /\ UNCHANGED <<w, arg>>

(* Mutant: the value is increased although the token goes to a waiter.      *)
Release_CountsBoth(a) ==
  /\ Free(a) /\ sem.live
  /\ w' = Dequeue(w, "main", "EOK")
  /\ sem.value < sem.max /\ sem' = [sem EXCEPT !.value = @ + 1, !.owed = @ + 1]
  /\ UNCHANGED <<pc, arg>>

(* rt_sem_release: a release of a full semaphore changes nothing.           *)
Release(a) ==
  /\ Free(a) /\ sem.live
  /\ \/ /\ w.list["main"] # <<>>
        /\ w' = Dequeue(w, "main", "EOK")
        /\ sem' = [sem EXCEPT !.owed = @ + 1]
     \/ /\ w.list["main"] = <<>> /\ sem.value < sem.max
        /\ sem' = [sem EXCEPT !.value = @ + 1, !.owed = @ + 1]
        /\ UNCHANGED w
  /\ UNCHANGED <<pc, arg>>

(* Mutant: the value is set and nobody is woken.                            *)
Reset_KeepsWaiters(a, v) ==
  /\ Free(a) /\ sem.live
  /\ sem' = Revalue(v)
  /\ UNCHANGED <<w, pc, arg>>

(* RT_IPC_CMD_RESET: the new value is not compared with the limit.          *)
Reset(a, v) ==
  /\ Free(a) /\ sem.live
  /\ w' = ResumeAll(w, "main", "+ERROR")
  /\ sem' = Revalue(v)
  /\ UNCHANGED <<pc, arg>>

(* RT_IPC_CMD_SET_VLIMIT: a value above the new limit stays.                *)
SetLimit(a, m) ==
  /\ Free(a) /\ sem.live
  /\ w' = IF m < sem.value THEN ResumeAll(w, "main", "+ERROR") ELSE w
  /\ sem' = [sem EXCEPT !.max = m]
  /\ UNCHANGED <<pc, arg>>

(* rt_sem_detach, rt_sem_delete, and a later rt_sem_init of the object.     *)
Detach(a) ==
  /\ Free(a) /\ sem.live
  /\ w' = ResumeAll(w, "main", "+ERROR")
  /\ sem' = [sem EXCEPT !.live = FALSE]
  /\ UNCHANGED <<pc, arg>>

Reinit(a, v) ==
  /\ Free(a) /\ ~ sem.live
  /\ sem' = [Revalue(v) EXCEPT !.max = ValueMax, !.live = TRUE]
  /\ UNCHANGED <<w, pc, arg>>

Next ==
  \/ \E t \in Thread : Take(t) \/ TakeReturn(t)
  \/ \E a \in Actor : \/ Release(a) \/ Detach(a)
                      \/ \E v \in 0 .. ValueMax : Reset(a, v) \/ Reinit(a, v)
                      \/ \E m \in 1 .. ValueMax : SetLimit(a, m)
  \/ WaitStep /\ UNCHANGED sem

Spec == Init /\ [][Next]_vars

-----------------------------------------------------------------------------
(* Nobody sleeps beside a token: while threads wait, the value is 0.        *)
NoneAsleep == w.list["main"] # <<>> => sem.value = 0

(* No token is lost and none is taken twice: those released and not yet     *)
(* taken are in the value, or given to threads that are on their way.       *)
TokensKept == sem.owed = sem.value + Cardinality(Woken("take"))

(* The semaphore implements Tokens: whatever the interleaving of takes,     *)
(* releases, time-outs and resumptions, no token is lost or counted twice.  *)
Abstract == INSTANCE Tokens WITH
  Limit <- ValueMax,
  count <- sem.value,
  given <- Woken("take"),
  era   <- sem.era
=============================================================================
