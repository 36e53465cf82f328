------------------------------- MODULE Mailbox -------------------------------
(***************************************************************************)
(* The mailbox of ipc.c: a ring of one-word mails, copied with interrupts  *)
(* disabled.                                                               *)
(***************************************************************************)
EXTENDS Waiting

CONSTANTS
  Flag,      \* RT_IPC_FLAG_PRIO or RT_IPC_FLAG_FIFO
  Size,      \* the number of places
  Mail,      \* the mails
  Null       \* no mail

RT_MB_ENTRY_MAX == 65535

MailboxAssumption ==
  /\ Flag \in {"FIFO", "PRIO"}
  /\ Size \in 1 .. RT_MB_ENTRY_MAX
  /\ Null \notin Mail

VARIABLE mb \* msg_pool, in_offset, out_offset, entry

vars == <<w, pc, arg, mb>>

Place == 0 .. Size - 1

(*   send     in a send that has waited: suspended, or woken                *)
(*   recv     in a receive that has waited                                  *)
(*   got      about to return with a mail                                   *)
TypeOK ==
  /\ WaitTypeOK
  /\ pc \in [Actor -> {"run", "send", "recv", "got"}]
  /\ arg \in [Actor -> [mail : Mail \cup {Null}, wait : {"none", "finite", "forever"}]]
  /\ mb \in [pool : [Place -> Mail \cup {Null}], in : Place, out : Place, entry : 0 .. Size]

Idle == [mail |-> Null, wait |-> "none"]

Empty(pool) == [pool |-> pool, in |-> 0, out |-> 0, entry |-> 0]

Init ==
  /\ w = InitW
  /\ pc = [a \in Actor |-> "run"]
  /\ arg = [a \in Actor |-> Idle]
  /\ mb = Empty([i \in Place |-> Null])

-----------------------------------------------------------------------------
(* The loops around a wait. *)

SuspendOn(t, l, wait) == w' = SuspendTo(w, t, l, Flag, "-EINTR", wait)

(* The time left after a wait of limited time: some, or none.               *)
Left(t) == IF arg[t].wait = "finite" THEN {"finite", "none"} ELSE {arg[t].wait}

Return(a) == pc' = [pc EXCEPT ![a] = "run"] /\ arg' = [arg EXCEPT ![a] = Idle]

(* The loop comes to its wait again; with no time left the call fails.      *)
WaitsAgain(t, l, left, e) ==
  \/ left = "none" /\ Return(t) /\ w' = [w EXCEPT !.err[t] = e]
  \/ left # "none" /\ SuspendOn(t, l, left) /\ arg' = [arg EXCEPT ![t].wait = left] /\ UNCHANGED pc

(* Mutant: a send does not wake a receiver when mails were there already.   *)
Put_WakesFirst(m) ==
  /\ mb' = [mb EXCEPT !.pool[mb.in] = m, !.in = (@ + 1) % Size, !.entry = @ + 1]
  /\ w' = IF mb.entry = 0 THEN Dequeue(w, "main", "EOK") ELSE w

(* Store the mail at the end and wake a receiver.                           *)
Put(m) ==
  /\ mb' = [mb EXCEPT !.pool[mb.in] = m, !.in = (@ + 1) % Size, !.entry = @ + 1]
  /\ w' = Dequeue(w, "main", "EOK")

(* Take the first mail and wake a sender.                                   *)
Get(a) ==
  /\ mb' = [mb EXCEPT !.out = (@ + 1) % Size, !.entry = @ - 1]
  /\ w' = Dequeue(w, "sender", "EOK")
  /\ pc' = [pc EXCEPT ![a] = "got"]
  /\ arg' = [arg EXCEPT ![a] = [mail |-> mb.pool[mb.out], wait |-> "none"]]

(* rt_mb_send_wait; without time to wait, a send in vain changes nothing.   *)
Send(a, m) ==
  /\ Free(a)
  /\ \/ mb.entry < Size /\ Put(m) /\ UNCHANGED <<pc, arg>>
     \/ /\ mb.entry = Size /\ a \in Thread
        /\ \E wait \in Waits :
             SuspendOn(a, "sender", wait) /\ arg' = [arg EXCEPT ![a] = [mail |-> m, wait |-> wait]]
        /\ pc' = [pc EXCEPT ![a] = "send"]
        /\ UNCHANGED mb

(* It goes on after a wait: fails, stores the mail, or waits again.         *)
SendWoken(t) ==
  /\ pc[t] = "send" /\ CanRun(t)
  /\ \/ w.err[t] # "EOK" /\ Return(t) /\ UNCHANGED <<w, mb>>
     \/ w.err[t] = "EOK" /\ mb.entry < Size /\ Put(arg[t].mail) /\ Return(t)
     \/ /\ w.err[t] = "EOK" /\ mb.entry = Size
        /\ \E left \in Left(t) : WaitsAgain(t, "sender", left, "-EINTR")
        /\ UNCHANGED mb

(* Mutant: the place before the first is taken without wrapping around.     *)
Urgent_NoWrap(a, m) ==
  /\ Free(a) /\ mb.entry < Size
  /\ LET out == IF mb.out > 0 THEN mb.out - 1 ELSE 0
     IN  mb' = [mb EXCEPT !.pool[out] = m, !.out = out, !.entry = @ + 1]
  /\ w' = Dequeue(w, "main", "EOK")
  /\ UNCHANGED <<pc, arg>>

(* rt_mb_urgent                                                             *)
Urgent(a, m) ==
  /\ Free(a) /\ mb.entry < Size
  /\ LET out == IF mb.out > 0 THEN mb.out - 1 ELSE Size - 1
     IN  mb' = [mb EXCEPT !.pool[out] = m, !.out = out, !.entry = @ + 1]
  /\ w' = Dequeue(w, "main", "EOK")
  /\ UNCHANGED <<pc, arg>>

(* rt_mb_recv *)
Recv(a) ==
  /\ Free(a)
  /\ \/ mb.entry > 0 /\ Get(a)
     \/ /\ mb.entry = 0 /\ a \in Thread
        /\ \E wait \in Waits :
             SuspendOn(a, "main", wait) /\ arg' = [arg EXCEPT ![a].wait = wait]
        /\ pc' = [pc EXCEPT ![a] = "recv"]
        /\ UNCHANGED mb

RecvWoken(t) ==
  /\ pc[t] = "recv" /\ CanRun(t)
  /\ \/ w.err[t] # "EOK" /\ Return(t) /\ UNCHANGED <<w, mb>>
     \/ w.err[t] = "EOK" /\ mb.entry > 0 /\ Get(t)
     \/ /\ w.err[t] = "EOK" /\ mb.entry = 0
        /\ \E left \in Left(t) : WaitsAgain(t, "main", left, "-ETIMEOUT")
        /\ UNCHANGED mb

(* The call returns with the mail.                                          *)
RecvReturn(a) ==
  /\ pc[a] = "got" /\ (a \in Thread => CanRun(a))
  /\ Return(a)
  /\ UNCHANGED <<w, mb>>

(* RT_IPC_CMD_RESET, and rt_mb_detach or rt_mb_delete followed by           *)
(* rt_mb_init.                                                              *)
Reset(a) ==
  /\ Free(a)
  /\ w' = ResumeAll(ResumeAll(w, "main", "+ERROR"), "sender", "+ERROR")
  /\ mb' = Empty(mb.pool)
  /\ UNCHANGED <<pc, arg>>

Next ==
  \/ \E a \in Actor : \/ \E m \in Mail : Send(a, m) \/ Urgent(a, m)
                      \/ Recv(a) \/ RecvReturn(a) \/ Reset(a)
  \/ \E t \in Thread : SendWoken(t) \/ RecvWoken(t)
  \/ WaitStep /\ UNCHANGED mb

Spec == Init /\ [][Next]_vars

-----------------------------------------------------------------------------
(* No lost wake-up: while threads still wait, each mail (each place left)   *)
(* is matched by a thread already woken that has not yet looked.            *)
NoLostWakeup ==
  /\ w.list["main"] # <<>> => mb.entry <= Cardinality(Woken("recv"))
  /\ w.list["sender"] # <<>> => Size - mb.entry <= Cardinality(Woken("send"))

(* The mailbox implements Fifo, the mail of a call that is about to return  *)
(* being in its hands: urgent mails wrap around to the end of the ring, and *)
(* the order survives every mixture of them with sends and receives.        *)
Abstract == INSTANCE Fifo WITH
  Msg      <- Mail,
  Capacity <- Size,
  InPlace  <- FALSE,
  queue    <- [i \in 1 .. mb.entry |-> mb.pool[(mb.out + i - 1) % Size]],
  hand     <- [a \in Actor |-> IF pc[a] = "got" THEN arg[a].mail ELSE Null]
=============================================================================
