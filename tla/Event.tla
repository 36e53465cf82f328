-------------------------------- MODULE Event --------------------------------
(***************************************************************************)
(* The event set of ipc.c.                                                 *)
(***************************************************************************)
EXTENDS Waiting

CONSTANTS
  Flag,      \* RT_IPC_FLAG_PRIO or RT_IPC_FLAG_FIFO
  Bit        \* the bits in use

EventAssumption == Flag \in {"FIFO", "PRIO"} /\ IsFiniteSet(Bit)

VARIABLE event \* the bits that are set and whether the object exists

vars == <<w, pc, arg, event>>

Some == SUBSET Bit \ {{}}

(* The arguments of a receive and thread->event_set; all: RT_EVENT_FLAG_AND *)
(* (else OR), clear: RT_EVENT_FLAG_CLEAR.                                   *)
Asked == [want : Some, got : Some, all : BOOLEAN, clear : BOOLEAN]

NoRequest == [want |-> {}, got |-> {}, all |-> FALSE, clear |-> FALSE]

TypeOK ==
  /\ WaitTypeOK
  /\ pc \in [Actor -> {"run", "recv"}]
  /\ arg \in [Actor -> Asked \cup {NoRequest}]
  /\ event \in [set : SUBSET Bit, live : BOOLEAN]

NewEvent == [set |-> {}, live |-> TRUE]

Init ==
  /\ w = InitW
  /\ pc = [a \in Actor |-> "run"]
  /\ arg = [a \in Actor |-> NoRequest]
  /\ event = NewEvent

-----------------------------------------------------------------------------
(* The condition of a request. *)
Holds(r, set) == IF r.all THEN r.want \subseteq set ELSE r.want \cap set # {}

(* rt_event_recv.  A receive that does not wait clears what it asked for;   *)
(* without time to wait, a receive in vain changes nothing.                 *)
Recv(t, r) ==
  /\ Free(t) /\ event.live
  /\ pc' = [pc EXCEPT ![t] = "recv"]
  /\ \/ /\ Holds(r, event.set)
        /\ w' = [w EXCEPT !.err[t] = "EOK"]
        /\ arg' = [arg EXCEPT ![t] = [r EXCEPT !.got = r.want \cap event.set]]
        /\ event' = IF r.clear THEN [event EXCEPT !.set = @ \ r.want] ELSE event
     \/ /\ ~ Holds(r, event.set)
        /\ \E wait \in Waits : w' = SuspendTo(w, t, "main", Flag, "-EINTR", wait)
        /\ arg' = [arg EXCEPT ![t] = r]
        /\ UNCHANGED event

(* The rest of the call: thread->error and thread->event_set are the        *)
(* result.                                                                  *)
RecvReturn(t) ==
  /\ pc[t] = "recv" /\ CanRun(t)
  /\ pc' = [pc EXCEPT ![t] = "run"]
  /\ arg' = [arg EXCEPT ![t] = NoRequest]
  /\ UNCHANGED <<w, event>>

(* What a waiting request receives from the bits that are set.              *)
Received(r, set) == IF r.all THEN r ELSE [r EXCEPT !.got = @ \cap set]

(* Wake the threads of a set in the order of the list; the error is EOK     *)
(* whether or not the thread could be woken.                                *)
WakeThem(threads) ==
  LET one(v, t) == IF t \in threads THEN [Ready(v, t) EXCEPT !.err[t] = "EOK"] ELSE v
  IN  ForEach(w, w.list["main"], one)

(* Mutant: the walk ends at the first thread it wakes.                      *)
Send_FirstOnly(a, bits) ==
  /\ Free(a) /\ event.live
  /\ LET set     == event.set \cup bits
         waiting == w.list["main"]
         hits    == {i \in DOMAIN waiting : Holds(arg[waiting[i]], set)}
         served  == IF hits = {} THEN {} ELSE {waiting[Min(hits)]}
         after   == [t \in Actor |-> IF t \in served THEN Received(arg[t], set) ELSE arg[t]]
     IN  /\ w' = WakeThem(served)
         /\ arg' = after
         /\ event' = [event EXCEPT !.set =
              set \ UNION {after[t].got : t \in {u \in served : arg[u].clear}}]
  /\ UNCHANGED pc

(* Mutant: what a woken thread received is cleared without being asked.     *)
Send_ClearsAlways(a, bits) ==
  /\ Free(a) /\ event.live
  /\ LET set    == event.set \cup bits
         served == {t \in ToSet(w.list["main"]) : Holds(arg[t], set)}
         after  == [t \in Actor |-> IF t \in served THEN Received(arg[t], set) ELSE arg[t]]
     IN  /\ w' = WakeThem(served)
         /\ arg' = after
         /\ event' = [event EXCEPT !.set = set \ UNION {after[t].got : t \in served}]
  /\ UNCHANGED pc

(* rt_event_send: every waiting thread whose condition holds is woken, and  *)
(* what those with the CLEAR option received is cleared after the walk.     *)
Send(a, bits) ==
  /\ Free(a) /\ event.live
  /\ LET set    == event.set \cup bits
         served == {t \in ToSet(w.list["main"]) : Holds(arg[t], set)}
         after  == [t \in Actor |-> IF t \in served THEN Received(arg[t], set) ELSE arg[t]]
     IN  /\ w' = WakeThem(served)
         /\ arg' = after
         /\ event' = [event EXCEPT !.set =
              set \ UNION {after[t].got : t \in {u \in served : arg[u].clear}}]
  /\ UNCHANGED pc

(* RT_IPC_CMD_RESET *)
Reset(a) ==
  /\ Free(a) /\ event.live
  /\ w' = ResumeAll(w, "main", "+ERROR")
  /\ event' = NewEvent
  /\ UNCHANGED <<pc, arg>>

(* rt_event_detach, rt_event_delete, and a later rt_event_init.             *)
Detach(a) ==
  /\ Free(a) /\ event.live
  /\ w' = ResumeAll(w, "main", "+ERROR")
  /\ event' = [event EXCEPT !.live = FALSE]
  /\ UNCHANGED <<pc, arg>>

Reinit(a) ==
  /\ Free(a) /\ ~ event.live
  /\ event' = NewEvent
  /\ UNCHANGED <<w, pc, arg>>

Next ==
  \/ \E t \in Thread :
       \/ \E want \in Some, all, clear \in BOOLEAN :
            Recv(t, [want |-> want, got |-> want, all |-> all, clear |-> clear])
       \/ RecvReturn(t)
  \/ \E a \in Actor : Reset(a) \/ Detach(a) \/ Reinit(a) \/ \E bits \in Some : Send(a, bits)
  \/ WaitStep /\ UNCHANGED event

Spec == Init /\ [][Next]_vars

-----------------------------------------------------------------------------
(* Nobody sleeps although its condition holds, and a receive that will      *)
(* succeed hands out bits it asked for, all of them when it asked for all,  *)
(* whatever was sent, cleared or reset since it was woken.                  *)
NoneMissed ==
  /\ \A t \in ToSet(w.list["main"]) : ~ Holds(arg[t], event.set)
  /\ \A t \in Woken("recv") : arg[t].got \subseteq arg[t].want /\ Holds(arg[t], arg[t].got)

(* A bit that is sent or set is not lost: it leaves the set only into the   *)
(* hands of a receive that succeeds, or by a reset.                         *)
NotDropped ==
  \/ \E a \in Actor : Reset(a) \/ Reinit(a)
  \/ \A b \in event.set \ event'.set :
       \E t \in Woken("recv")' : arg'[t].clear /\ b \in arg'[t].got
=============================================================================
