------------------------------- MODULE SerialRx -------------------------------
(***************************************************************************)
(* Console input: the receive FIFO of serial/dev_serial.c between the UART *)
(* interrupt and the shell, which sleeps on a semaphore while the FIFO is  *)
(* empty (finsh/shell.c).                                                  *)
(***************************************************************************)
EXTENDS Waiting

CONSTANTS
  Reader,    \* the shell's thread
  Size,      \* serial->config.bufsz
  Byte,      \* the bytes
  Null,      \* a place not yet written
  Burst,     \* bound: bytes fetched in one interrupt
  SemMax     \* RT_SEM_VALUE_MAX

(* The UART has one receive register: an interrupt fetches fewer bytes than *)
(* the FIFO holds.                                                          *)
SerialAssumption ==
  /\ Reader \in Thread /\ Null \notin Byte
  /\ Size \in Nat \ {0} /\ Burst \in 1 .. Size - 1
  /\ SemMax \in Nat \ {0}

VARIABLE rx \* buffer, get_index, put_index, is_full, and rx_sem's value

vars == <<w, pc, arg, rx>>

Place == 0 .. Size - 1

(*   take     the FIFO was empty, rt_sem_take still to come                 *)
(*   wait     in rt_sem_take                                                *)
(*   isr      a handler in rt_hw_serial_isr; arg counts its bytes           *)
TypeOK ==
  /\ WaitTypeOK
  /\ pc \in [Actor -> {"run", "take", "wait", "isr"}]
  /\ arg \in [Actor -> 0 .. Burst]
  /\ rx \in [buffer : [Place -> Byte \cup {Null}], get : Place, put : Place,
             full : BOOLEAN, sem : 0 .. SemMax]

(* rt_serial_open *)
Init ==
  /\ w = InitW
  /\ pc = [a \in Actor |-> "run"]
  /\ arg = [a \in Actor |-> 0]
  /\ rx = [buffer |-> [i \in Place |-> Null], get |-> 0, put |-> 0,
           full |-> FALSE, sem |-> 0]

-----------------------------------------------------------------------------
InHandler == \E i \in Isr : pc[i] = "isr"
Runs(a) == CanRun(a) /\ (InHandler => pc[a] = "isr")

Goto(a, p) == pc' = [pc EXCEPT ![a] = p]

(* Mutant: a full FIFO is not told from an empty one.                       *)
Store_NoFull(b) ==
  rx' = [rx EXCEPT !.buffer[rx.put] = b, !.put = (@ + 1) % Size]

(* A byte goes to the put index, whatever is there.  When that meets the    *)
(* get index the FIFO is full.                                              *)
Store(b) ==
  LET put == (rx.put + 1) % Size
  IN  rx' = [rx EXCEPT !.buffer[rx.put] = b, !.put = put,
                       !.full = @ \/ put = rx.get]

(* RT_SERIAL_EVENT_RX_IND: fetch bytes until the register is empty ...      *)
Fetch(i, b) ==
  /\ Runs(i) /\ arg[i] < Burst
  /\ Store(b)
  /\ Goto(i, "isr")
  /\ arg' = [arg EXCEPT ![i] = @ + 1]
  /\ UNCHANGED w

(* Mutant: the reader is told only of the first byte in the FIFO.           *)
Indicates_First == (rx.put + Size - rx.get) % Size = 1

(* ... and tell the reader if the indexes differ: a full FIFO counts as     *)
(* empty.                                                                   *)
Indicates == rx.put # rx.get

(* finsh_rx_ind releases rx_sem.                                            *)
Indicate(i) ==
  /\ pc[i] = "isr" /\ Runs(i)
  /\ Goto(i, "run")
  /\ arg' = [arg EXCEPT ![i] = 0]
  /\ CASE ~ Indicates -> UNCHANGED <<w, rx>>
       [] Indicates /\ w.list["main"] # <<>> -> w' = Dequeue(w, "main", "EOK") /\ UNCHANGED rx
       [] OTHER -> rx' = [rx EXCEPT !.sem = IF @ < SemMax THEN @ + 1 ELSE @] /\ UNCHANGED w

(* Mutant: a read does not clear is_full.                                   *)
Read_KeepsFull(t) ==
  /\ Runs(t) /\ pc[t] = "run"
  /\ rx' = [rx EXCEPT !.get = (@ + 1) % Size]
  /\ UNCHANGED <<w, pc, arg>>

(* finsh_getchar: read a byte ...                                           *)
Read(t) ==
  /\ Runs(t) /\ pc[t] = "run"
  /\ IF rx.get = rx.put /\ ~ rx.full
     THEN Goto(t, "take") /\ UNCHANGED rx
     ELSE rx' = [rx EXCEPT !.get = (@ + 1) % Size, !.full = FALSE] /\ UNCHANGED pc
  /\ UNCHANGED <<w, arg>>

(* ... or sleep on rx_sem and read again.                                   *)
Take(t) ==
  /\ Runs(t) /\ pc[t] = "take"
  /\ \/ rx.sem > 0 /\ rx' = [rx EXCEPT !.sem = @ - 1] /\ Goto(t, "run") /\ UNCHANGED w
     \/ rx.sem = 0 /\ w' = SuspendTo(w, t, "main", "FIFO", "+EINTR", "forever")
        /\ Goto(t, "wait") /\ UNCHANGED rx
  /\ UNCHANGED arg

TakeReturn(t) ==
  /\ Runs(t) /\ pc[t] = "wait"
  /\ Goto(t, "run")
  /\ UNCHANGED <<w, arg, rx>>

Next ==
  \/ Read(Reader) \/ Take(Reader) \/ TakeReturn(Reader)
  \/ \E i \in Isr : Indicate(i) \/ \E b \in Byte : Fetch(i, b)
  \/ Resume(Reader) /\ UNCHANGED rx

Spec == Init /\ [][Next]_vars

-----------------------------------------------------------------------------
Unread ==
  LET n == IF rx.get = rx.put
           THEN IF rx.full THEN Size ELSE 0
           ELSE (rx.put + Size - rx.get) % Size
  IN  [i \in 1 .. n |-> rx.buffer[(rx.get + i - 1) % Size]]

(* The shell is never asleep beside input: neither a byte that comes        *)
(* between its empty read and its rt_sem_take is missed, nor one that is    *)
(* stored when the FIFO wraps.                                              *)
ShellServed ==
  w.list["main"] # <<>> /\ ~ InHandler => Unread = <<>>

(* A byte that arrives at a full FIFO is not a step of ByteStream: the      *)
(* indexes part, and it is the one byte left of Size + 1, where the comment *)
(* in the code discards one, `this read char'.                              *)
Overruns ==
  /\ rx.full /\ rx.get = rx.put
  /\ \E i \in Isr, b \in Byte : Fetch(i, b) /\ Unread' = <<b>>

(* The FIFO implements ByteStream, but for a byte that arrives when it is   *)
(* full: what is read are the bytes received, in their order, none twice    *)
(* and none lost.                                                           *)
Abstract == INSTANCE ByteStream WITH Capacity <- Size, stream <- Unread
=============================================================================
