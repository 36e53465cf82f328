---------------------------- MODULE ObjectsProofs ----------------------------
(***************************************************************************)
(* What the objects that threads wait for promise in every behaviour: the  *)
(* invariants of IpcProofs, and those proved here of the serial device,    *)
(* the condition variable and the pins, hold of the object looked at.      *)
(* The tick interrupt is taken not to be interrupted by a handler that     *)
(* uses the object, except for the completion, which promises the same     *)
(* when it is.                                                             *)
(***************************************************************************)
EXTENDS Objects, IpcProofs

-----------------------------------------------------------------------------
(* The receive FIFO and the shell. *)

(* The shell's semaphore suspends and wakes by these operators.             *)
LEMMA SerWaiting ==
  /\ \A v, t, l, flag, e, wait :
       Ser!SuspendTo(v, t, l, flag, e, wait) = SuspendTo(v, t, l, flag, e, wait)
  /\ \A v, l, e : Ser!Dequeue(v, l, e) = Dequeue(v, l, e)
  /\ \A v, t : Ser!Ready(v, t) = Ready(v, t)
<1> USE DEF Ser!Suspend, Suspend, Ser!Enqueue, Enqueue, Ser!InsertAt,
            InsertAt, Ser!Ready, Ready, Ser!Unlink, Unlink, Ser!CanReady,
            CanReady, Ser!List, List, Ser!RemoveFirst, RemoveFirst,
            Ser!RemoveAt, RemoveAt, Ser!SelectInSeq, SelectInSeq,
            Ser!SelectInSubSeq, SelectInSubSeq, Ser!Min, Min, Ser!Dequeue,
            Dequeue, Ser!SuspendTo, SuspendTo
<1>1. ASSUME NEW v, NEW t, NEW l, NEW flag, NEW e, NEW wait
     PROVE  Ser!SuspendTo(v, t, l, flag, e, wait) = SuspendTo(v, t, l, flag, e, wait)
  BY ZenonT(30)
<1>2. ASSUME NEW v, NEW l, NEW e
     PROVE  Ser!Dequeue(v, l, e) = Dequeue(v, l, e)
  BY ZenonT(30)
<1>3. ASSUME NEW v, NEW t
     PROVE  Ser!Ready(v, t) = Ready(v, t)
  BY ZenonT(30)
<1> HIDE DEF Ser!Suspend, Suspend, Ser!Enqueue, Enqueue, Ser!InsertAt,
             InsertAt, Ser!Ready, Ready, Ser!Unlink, Unlink, Ser!CanReady,
             CanReady, Ser!List, List, Ser!RemoveFirst, RemoveFirst,
             Ser!RemoveAt, RemoveAt, Ser!SelectInSeq, SelectInSeq,
             Ser!SelectInSubSeq, SelectInSubSeq, Ser!Min, Min, Ser!Dequeue,
             Dequeue, Ser!SuspendTo, SuspendTo
<1> QED BY <1>1, <1>2, <1>3

SerFields ==
  [buffer : [Ser!Place -> Mail \cup {Null}], get : Ser!Place, put : Ser!Place,
   full : BOOLEAN, sem : 0 .. ValueMax]

(* One handler at a time fetches bytes, at least one and fewer than the     *)
(* FIFO holds.                                                              *)
SerHandlers ==
  /\ pc \in [Actor -> {"run", "take", "wait", "isr"}]
  /\ arg \in [Actor -> 0 .. Size]
  /\ \A t \in Thread : pc[t] # "isr"
  /\ \A i \in Isr : pc[i] \in {"run", "isr"} /\ (pc[i] = "isr" <=> arg[i] # 0)
  /\ \A i, j \in Isr : pc[i] = "isr" /\ pc[j] = "isr" => i = j

(* The put index is n places ahead of the get index.                        *)
Ahead(s, n) == s.put = IF s.get + n < Size + 1 THEN s.get + n ELSE s.get + n - (Size + 1)

(* The shell sleeps, or is about to and will find no token.                 *)
Resting(v, c, s) == Single \in v.susp \/ (c[Single] = "take" /\ s.sem = 0)

(* Nothing is unread, but for what the handler that is running has fetched. *)
Drained(c, b, s) ==
  /\ (\A i \in Isr : c[i] # "isr") => s.get = s.put /\ ~ s.full
  /\ \A i \in Isr : c[i] = "isr" => Ahead(s, b[i])

(* No time-out is used, only the shell waits, and it rests only while       *)
(* nothing is unread.                                                       *)
SerInv ==
  /\ ListsOK(w) /\ \A t \in Thread : w.timer[t] = "off"
  /\ w.susp = ToSet(w.list["main"]) /\ w.susp \subseteq {Single}
  /\ Single \in w.susp => pc[Single] = "wait"
  /\ SerHandlers
  /\ obj \in SerFields
  /\ Resting(w, pc, obj) => Drained(pc, arg, obj)

(* What the constants are.                                                  *)
LEMMA SerConstants ==
  /\ Single \in Thread /\ Single \in Actor /\ Size \in Nat /\ Size >= 1
  /\ ValueMax \in Nat /\ ValueMax >= 1
  /\ Thread \cap Isr = {} /\ Ser!Place = 0 .. Size
<1>1. Single \in Thread /\ Size \in 1 .. Size + 1 - 1 /\ ValueMax \in Nat \ {0}
      /\ Size + 1 \in Nat \ {0}
  BY ObjectsAssumption DEF Ser!SerialAssumption
<1>2. Thread \cap Isr = {}
  BY IpcAssumption DEF Sem!WaitingAssumption
<1>3. Size \in Nat /\ Size >= 1
  <2>1. Size \in Int
    BY <1>1
  <2> QED BY <1>1, <2>1
<1> QED BY <1>1, <1>2, <1>3 DEF Actor, Ser!Place

(* Initially.                                                               *)
LEMMA SerStarts ==
  ASSUME Ser!Init
  PROVE  SerInv
<1>1. /\ w = InitW /\ pc = [a \in Actor |-> "run"] /\ arg = [a \in Actor |-> 0]
      /\ obj = [buffer |-> [i \in Ser!Place |-> Null], get |-> 0, put |-> 0,
                full |-> FALSE, sem |-> 0]
  BY DEF Ser!Init, Ser!InitW, InitW, Ser!List, List, Ser!Actor, Actor
<1>2. /\ ListsOK(w) /\ w.susp = {} /\ w.susp = ToSet(w.list["main"])
      /\ \A t \in Thread : w.timer[t] = "off"
  BY <1>1, InitialLists DEF List, ToSet, InitW
<1>3. SerHandlers
  BY <1>1, SerConstants DEF SerHandlers, Actor
<1>4. obj \in SerFields
  BY <1>1, SerConstants DEF SerFields
<1>5. Drained(pc, arg, obj)
  BY <1>1 DEF Drained, Actor
<1> QED BY <1>2, <1>3, <1>4, <1>5 DEF SerInv

(* One place further round.                                                 *)
LEMMA SerPlace ==
  ASSUME NEW i \in Ser!Place
  PROVE  /\ (i + 1) % (Size + 1) \in Ser!Place
         /\ (i + 1) % (Size + 1) = IF i = Size THEN 0 ELSE i + 1
<1>1. Size \in Nat /\ Size >= 1 /\ i \in 0 .. Size /\ Ser!Place = 0 .. Size
  BY SerConstants
<1>2. CASE i = Size
  BY <1>1, <1>2
<1>3. CASE i # Size
  BY <1>1, <1>3
<1> QED BY <1>1, <1>2, <1>3

(* A handler fetches a byte.                                                *)
LEMMA SerFetchKeeps ==
  ASSUME SerInv, NEW i \in Isr, NEW b \in Mail, Ser!Fetch(i, b)
  PROVE  SerInv'
<1> DEFINE put == (obj.put + 1) % (Size + 1)
           full == obj.full \/ put = obj.get
           buffer == [obj.buffer EXCEPT ![obj.put] = b]
<1>1. /\ Ser!Runs(i) /\ arg[i] < Size /\ w' = w /\ pc' = [pc EXCEPT ![i] = "isr"]
      /\ arg' = [arg EXCEPT ![i] = arg[i] + 1]
      /\ obj' = [obj EXCEPT !.buffer = buffer, !.put = put, !.full = full]
  BY DEF Ser!Fetch, Ser!Store, Ser!Goto
<1>2. /\ pc \in [Actor -> {"run", "take", "wait", "isr"}] /\ arg \in [Actor -> 0 .. Size]
      /\ i \in Actor /\ arg[i] \in 0 .. Size /\ obj \in SerFields /\ Single \in Actor
      /\ Size \in Nat /\ Size >= 1 /\ Ser!Place = 0 .. Size /\ Single # i
  BY SerConstants DEF SerInv, SerHandlers, Actor
<1>3. \A j \in Isr : pc[j] = "isr" => j = i
  BY <1>1 DEF Ser!Runs, Ser!InHandler, SerInv, SerHandlers
<1>4. SerHandlers'
  <2>1. arg[i] + 1 \in 0 .. Size /\ arg[i] + 1 # 0
    BY <1>1, <1>2
  <2>2. /\ pc' \in [Actor -> {"run", "take", "wait", "isr"}] /\ arg' \in [Actor -> 0 .. Size]
        /\ pc'[i] = "isr" /\ arg'[i] # 0
        /\ \A a \in Actor \ {i} : pc'[a] = pc[a] /\ arg'[a] = arg[a]
    BY <1>1, <1>2, <2>1
  <2>3. \A t \in Thread : t \in Actor /\ t # i
    BY <1>2, SerConstants DEF Actor
  <2>4. \A j \in Isr : j \in Actor
    BY DEF Actor
  <2> QED BY <1>3, <2>2, <2>3, <2>4 DEF SerInv, SerHandlers
<1>5. put \in Ser!Place /\ put = IF obj.put = Size THEN 0 ELSE obj.put + 1
  BY <1>2, SerPlace DEF SerFields
<1>6. buffer \in [Ser!Place -> Mail \cup {Null}] /\ full \in BOOLEAN
  BY <1>2 DEF SerFields, SerInv
<1> HIDE DEF put, full, buffer
<1>7. /\ obj' \in SerFields /\ obj'.get = obj.get /\ obj'.put = put /\ obj'.sem = obj.sem
  BY <1>1, <1>2, <1>5, <1>6 DEF SerFields
<1>8. Resting(w', pc', obj') => Drained(pc', arg', obj')
  <2> SUFFICES ASSUME Resting(w', pc', obj') PROVE Drained(pc', arg', obj')
    OBVIOUS
  <2>1. Resting(w, pc, obj)
    BY <1>1, <1>2, <1>7 DEF Resting
  <2>2. Ahead(obj, arg[i])
    <3>1. CASE pc[i] = "isr"
      BY <2>1, <3>1 DEF SerInv, Drained
    <3>2. CASE pc[i] # "isr"
      <4>1. arg[i] = 0 /\ obj.put = obj.get
        BY <1>3, <2>1, <3>2 DEF SerInv, Drained, SerHandlers
      <4>2. obj.get \in 0 .. Size
        BY <1>2 DEF SerFields
      <4> QED BY <1>2, <4>1, <4>2 DEF Ahead
    <3> QED BY <3>1, <3>2
  <2>3. obj.get \in 0 .. Size /\ obj.put \in 0 .. Size
    BY <1>2 DEF SerFields
  <2>4. Ahead(obj', arg[i] + 1)
    <3> DEFINE g == obj.get
               p == obj.put
               n == arg[i]
    <3>1. g \in 0 .. Size /\ p \in 0 .. Size /\ n \in 0 .. Size /\ n < Size /\ Size \in Nat
      BY <1>1, <1>2, <2>3
    <3>2. p = IF g + n < Size + 1 THEN g + n ELSE g + n - (Size + 1)
      BY <2>2 DEF Ahead
    <3>3. put = IF p = Size THEN 0 ELSE p + 1
      BY <1>5
    <3>4. obj'.get = g /\ obj'.put = put
      BY <1>7
    <3> HIDE DEF g, p, n
    <3>5. put = IF g + (n + 1) < Size + 1 THEN g + (n + 1) ELSE g + (n + 1) - (Size + 1)
      BY <3>1, <3>2, <3>3
    <3> QED BY <3>4, <3>5 DEF Ahead, n
  <2>5. arg'[i] = arg[i] + 1 /\ pc'[i] = "isr" /\ \A j \in Isr : pc'[j] = "isr" => j = i
    BY <1>1, <1>2, <1>3 DEF Actor
  <2> QED BY <2>4, <2>5 DEF Drained
<1>9. pc'[Single] = pc[Single]
  BY <1>1, <1>2
<1> QED BY <1>1, <1>4, <1>7, <1>8, <1>9 DEF SerInv
(* It tells the shell at the end: it has fetched fewer bytes than the FIFO  *)
(* holds, so that the indexes of a FIFO that was drained differ.            *)
LEMMA SerIndicateKeeps ==
  ASSUME SerInv, NEW i \in Isr, Ser!Indicate(i)
  PROVE  SerInv'
<1>1. /\ pc[i] = "isr" /\ pc' = [pc EXCEPT ![i] = "run"] /\ arg' = [arg EXCEPT ![i] = 0]
      /\ \/ obj.put = obj.get /\ w' = w /\ obj' = obj
         \/ /\ w.list["main"] # <<>> /\ w' = Dequeue(w, "main", "EOK") /\ obj' = obj
         \/ /\ obj.put # obj.get /\ w.list["main"] = <<>> /\ w' = w
            /\ obj' = [obj EXCEPT !.sem = IF @ < ValueMax THEN @ + 1 ELSE @]
  BY SerWaiting DEF Ser!Indicate, Ser!Indicates, Ser!Goto
<1>2. /\ pc \in [Actor -> {"run", "take", "wait", "isr"}] /\ arg \in [Actor -> 0 .. Size]
      /\ i \in Actor /\ arg[i] \in 1 .. Size /\ obj \in SerFields /\ Single \in Actor
      /\ Size \in Nat /\ Size >= 1 /\ Ser!Place = 0 .. Size /\ Single # i
      /\ ValueMax \in Nat /\ ValueMax >= 1 /\ ListsOK(w)
  <2>1. arg[i] # 0 /\ arg[i] \in 0 .. Size
    BY <1>1 DEF SerInv, SerHandlers, Actor
  <2> QED BY <2>1, SerConstants DEF SerInv, SerHandlers, Actor
<1>3. SerHandlers'
  <2>1. /\ pc' \in [Actor -> {"run", "take", "wait", "isr"}] /\ arg' \in [Actor -> 0 .. Size]
        /\ pc'[i] = "run" /\ arg'[i] = 0
        /\ \A a \in Actor \ {i} : pc'[a] = pc[a] /\ arg'[a] = arg[a]
    BY <1>1, <1>2
  <2>2. \A t \in Thread : t \in Actor /\ t # i
    BY <1>2, SerConstants DEF Actor
  <2>3. \A j \in Isr : j \in Actor
    BY DEF Actor
  <2> QED BY <2>1, <2>2, <2>3 DEF SerInv, SerHandlers
<1>4. pc'[Single] = pc[Single]
  BY <1>1, <1>2
<1>5. Resting(w, pc, obj) => obj.put # obj.get
  <2> SUFFICES ASSUME Resting(w, pc, obj) PROVE obj.put # obj.get
    OBVIOUS
  <2> DEFINE g == obj.get
             n == arg[i]
  <2>1. obj.put = IF g + n < Size + 1 THEN g + n ELSE g + n - (Size + 1)
    BY <1>1 DEF SerInv, Drained, Ahead
  <2>2. g \in 0 .. Size /\ n \in 1 .. Size
    BY <1>2 DEF SerFields
  <2> HIDE DEF g, n
  <2>3. obj.put # g
    BY <1>2, <2>1, <2>2
  <2> QED BY <2>3 DEF g
<1>6. CASE obj.put = obj.get /\ w' = w /\ obj' = obj
  <2>1. ~ Resting(w', pc', obj')
    BY <1>4, <1>5, <1>6 DEF Resting
  <2> QED BY <1>3, <1>4, <1>6, <2>1 DEF SerInv
<1>7. CASE w.list["main"] # <<>> /\ w' = Dequeue(w, "main", "EOK") /\ obj' = obj
  <2> DEFINE h == Head(w.list["main"])
  <2>1. Calm(w) /\ "main" \in List /\ "EOK" \in Error
    BY DEF SerInv, Calm, List, Error
  <2>2. h \in ToSet(w.list["main"]) /\ Dequeued(w, w', h, "EOK")
    BY <1>2, <1>7, <2>1, DequeueFrees
  <2> HIDE DEF h
  <2>3. /\ ListsOK(w') /\ w'.susp = w.susp \ {h} /\ w'.timer = [w.timer EXCEPT ![h] = "off"]
        /\ ToSet(w'.list["main"]) = ToSet(w.list["main"]) \ {h}
    BY <2>1, <2>2 DEF Dequeued, Freed
  <2>4. w'.susp = {} /\ w'.susp = ToSet(w'.list["main"])
    BY <2>2, <2>3 DEF SerInv
  <2>5. w.timer \in [Thread -> {"off", "armed", "firing", "missed"}]
    BY <1>2, WFields DEF ListsOK
  <2>6. \A t \in Thread : w'.timer[t] = "off"
    BY <2>3, <2>5 DEF SerInv
  <2>7. Single \in w.susp /\ pc[Single] = "wait"
    BY <2>2 DEF SerInv
  <2>8. ~ Resting(w', pc', obj')
    BY <1>4, <2>4, <2>7 DEF Resting
  <2> QED BY <1>2, <1>3, <1>7, <2>3, <2>4, <2>6, <2>8 DEF SerInv
<1>8. CASE /\ obj.put # obj.get /\ w.list["main"] = <<>> /\ w' = w
           /\ obj' = [obj EXCEPT !.sem = IF @ < ValueMax THEN @ + 1 ELSE @]
  <2> DEFINE s == IF obj.sem < ValueMax THEN obj.sem + 1 ELSE obj.sem
  <2>1. obj.sem \in 0 .. ValueMax
    BY <1>2 DEF SerFields
  <2>2. s \in 0 .. ValueMax /\ s # 0
    BY <1>2, <2>1
  <2>3. obj' = [obj EXCEPT !.sem = s]
    BY <1>8
  <2> HIDE DEF s
  <2>4. obj' \in SerFields /\ obj'.sem # 0
    BY <1>2, <2>2, <2>3 DEF SerFields
  <2>5. w.susp = {}
    BY <1>8 DEF SerInv, ToSet
  <2>6. ~ Resting(w', pc', obj')
    BY <1>8, <2>4, <2>5 DEF Resting
  <2> QED BY <1>3, <1>4, <1>8, <2>4, <2>6 DEF SerInv
<1> QED BY <1>1, <1>6, <1>7, <1>8

(* The shell goes elsewhere in its calls: it is awake, and no handler runs. *)
LEMMA SerRuns ==
  ASSUME SerInv, Ser!Runs(Single), NEW p \in {"run", "take", "wait"},
         pc' = [pc EXCEPT ![Single] = p], arg' = arg
  PROVE  /\ Single \notin w.susp /\ w.susp = {} /\ w.list["main"] = <<>>
         /\ \A i \in Isr : pc[i] # "isr"
         /\ SerHandlers' /\ pc'[Single] = p
<1>1. Single \in Thread /\ Single \in Actor /\ Thread \cap Isr = {}
  BY SerConstants
<1>2. Single \notin w.susp
  BY <1>1 DEF Ser!Runs, Ser!CanRun
<1>3. w.list["main"] \in Seq(Thread) /\ w.susp = {}
  BY <1>2, WFields DEF SerInv, ListsOK, List
<1>4. w.list["main"] = <<>>
  <2>1. ToSet(w.list["main"]) = {}
    BY <1>3 DEF SerInv
  <2> QED BY <1>3, <2>1, EmptyList
<1>5. \A i \in Isr : pc[i] # "isr"
  BY <1>1 DEF Ser!Runs, Ser!InHandler, SerInv, SerHandlers
<1>6. /\ pc' \in [Actor -> {"run", "take", "wait", "isr"}] /\ pc'[Single] = p
      /\ \A a \in Actor \ {Single} : pc'[a] = pc[a]
  BY <1>1 DEF SerInv, SerHandlers
<1>7. SerHandlers'
  <2>1. \A i \in Isr : i \in Actor /\ i # Single
    BY <1>1 DEF Actor
  <2>2. \A t \in Thread : t \in Actor
    BY DEF Actor
  <2> QED BY <1>6, <2>1, <2>2 DEF SerInv, SerHandlers
<1> QED BY <1>2, <1>3, <1>4, <1>5, <1>6, <1>7

(* It reads a byte, or finds that there is none.                            *)
LEMMA SerReadKeeps ==
  ASSUME SerInv, Ser!Read(Single)
  PROVE  SerInv'
<1>1. w' = w /\ arg' = arg /\ Ser!Runs(Single) /\ pc[Single] = "run" /\ obj \in SerFields
  BY DEF Ser!Read, SerInv
<1>2. CASE obj.get = obj.put /\ ~ obj.full /\ pc' = [pc EXCEPT ![Single] = "take"] /\ obj' = obj
  <2>1. /\ w.susp = {} /\ (\A i \in Isr : pc[i] # "isr") /\ SerHandlers'
    BY <1>1, <1>2, SerRuns
  <2>2. Drained(pc', arg', obj')
    <3>1. \A i \in Isr : i \in Actor /\ i # Single
      BY SerConstants DEF Actor
    <3>2. \A i \in Isr : pc'[i] # "isr"
      BY <1>2, <2>1, <3>1 DEF SerInv, SerHandlers
    <3> QED BY <1>2, <3>2 DEF Drained
  <2> QED BY <1>1, <1>2, <2>1, <2>2 DEF SerInv
<1>3. CASE obj' = [obj EXCEPT !.get = (@ + 1) % (Size + 1), !.full = FALSE] /\ pc' = pc
  <2>1. (obj.get + 1) % (Size + 1) \in Ser!Place
    BY <1>1, SerPlace DEF SerFields
  <2>2. obj' \in SerFields
    BY <1>1, <1>3, <2>1 DEF SerFields
  <2>3. Single \in Thread
    BY SerConstants
  <2>4. ~ Resting(w', pc', obj')
    BY <1>1, <1>3, <2>3 DEF Resting, Ser!Runs, Ser!CanRun
  <2>5. SerHandlers'
    BY <1>1, <1>3 DEF SerInv, SerHandlers
  <2> QED BY <1>1, <1>3, <2>2, <2>4, <2>5 DEF SerInv
<1> QED BY <1>2, <1>3 DEF Ser!Read, Ser!Goto

(* It takes a token, or sleeps.                                             *)
LEMMA SerTakeKeeps ==
  ASSUME SerInv, Ser!Take(Single)
  PROVE  SerInv'
<1>1. arg' = arg /\ Ser!Runs(Single) /\ pc[Single] = "take" /\ obj \in SerFields
      /\ ListsOK(w) /\ Single \in Thread /\ ValueMax \in Nat
  BY SerConstants DEF Ser!Take, SerInv
<1>2. CASE /\ obj.sem > 0 /\ obj' = [obj EXCEPT !.sem = @ - 1] /\ pc' = [pc EXCEPT ![Single] = "run"]
           /\ w' = w
  <2>1. w.susp = {} /\ SerHandlers' /\ pc'[Single] = "run"
    BY <1>1, <1>2, SerRuns
  <2>2. obj.sem - 1 \in 0 .. ValueMax
    BY <1>1, <1>2 DEF SerFields
  <2>3. obj' \in SerFields
    BY <1>1, <1>2, <2>2 DEF SerFields
  <2>4. ~ Resting(w', pc', obj')
    BY <1>2, <2>1 DEF Resting
  <2> QED BY <1>2, <2>1, <2>3, <2>4 DEF SerInv
<1>3. CASE /\ obj.sem = 0 /\ w' = SuspendTo(w, Single, "main", "FIFO", "+EINTR", "forever")
           /\ pc' = [pc EXCEPT ![Single] = "wait"] /\ obj' = obj
  <2>1. /\ w.susp = {} /\ w.list["main"] = <<>> /\ (\A i \in Isr : pc[i] # "isr")
        /\ SerHandlers' /\ pc'[Single] = "wait"
    BY <1>1, <1>3, SerRuns
  <2>2. Slept(w, w', Single, "main", "+EINTR")
    BY <1>1, <1>3, <2>1, SuspendToSleeps DEF List, Error
  <2>3. /\ ListsOK(w') /\ w'.susp = {Single} /\ ToSet(w'.list["main"]) = {Single}
    <3>1. ToSet(w.list["main"]) = {}
      BY <2>1 DEF ToSet
    <3>2. /\ ListsOK(w') /\ w'.susp = w.susp \cup {Single}
          /\ ToSet(w'.list["main"]) = ToSet(w.list["main"]) \cup {Single}
      BY <2>2 DEF Slept
    <3> QED BY <2>1, <3>1, <3>2
  <2>4. \A t \in Thread : w'.timer[t] = "off"
    <3>1. w'.timer = [w.timer EXCEPT ![Single] = "off"]
      BY <1>1, <1>3 DEF SuspendTo, Suspend, ListsOK, WState
    <3>2. w.timer \in [Thread -> {"off", "armed", "firing", "missed"}]
      BY <1>1, WFields DEF ListsOK
    <3> QED BY <3>1, <3>2 DEF SerInv
  <2>5. Resting(w, pc, obj)
    BY <1>1, <1>3 DEF Resting
  <2>6. obj.get = obj.put /\ ~ obj.full
    BY <2>1, <2>5 DEF SerInv, Drained
  <2>7. Drained(pc', arg', obj')
    <3>1. \A i \in Isr : i \in Actor /\ i # Single
      BY SerConstants DEF Actor
    <3>2. \A i \in Isr : pc'[i] # "isr"
      BY <1>3, <2>1, <3>1 DEF SerInv, SerHandlers
    <3> QED BY <1>3, <2>6, <3>2 DEF Drained
  <2> QED BY <1>1, <1>3, <2>1, <2>3, <2>4, <2>7 DEF SerInv
<1> QED BY <1>2, <1>3, SerWaiting DEF Ser!Take, Ser!Goto

(* It goes on.                                                              *)
LEMMA SerReturnKeeps ==
  ASSUME SerInv, Ser!TakeReturn(Single)
  PROVE  SerInv'
<1>1. /\ w' = w /\ arg' = arg /\ obj' = obj /\ Ser!Runs(Single)
      /\ pc' = [pc EXCEPT ![Single] = "run"]
  BY DEF Ser!TakeReturn, Ser!Goto
<1>2. w.susp = {} /\ SerHandlers' /\ pc'[Single] = "run"
  BY <1>1, SerRuns
<1>3. ~ Resting(w', pc', obj')
  BY <1>1, <1>2 DEF Resting
<1> QED BY <1>1, <1>2, <1>3 DEF SerInv

(* Some code resumes it.                                                    *)
LEMMA SerResumeKeeps ==
  ASSUME SerInv, Ser!Resume(Single), UNCHANGED obj
  PROVE  SerInv'
<1>1. /\ Single \in w.susp /\ w' = Ready(w, Single) /\ pc' = pc /\ arg' = arg /\ obj' = obj
      /\ ListsOK(w) /\ Single \in Thread /\ w.timer[Single] = "off"
  BY SerWaiting, SerConstants DEF Ser!Resume, SerInv
<1>2. Freed(w, w', Single)
  BY <1>1, ReadyFrees
<1>3. /\ ListsOK(w') /\ w'.susp = w.susp \ {Single} /\ w'.timer = [w.timer EXCEPT ![Single] = "off"]
      /\ ToSet(w'.list["main"]) = ToSet(w.list["main"]) \ {Single}
  BY <1>2 DEF Freed, List
<1>4. w'.susp = {} /\ w'.susp = ToSet(w'.list["main"])
  BY <1>3 DEF SerInv
<1>5. w.timer \in [Thread -> {"off", "armed", "firing", "missed"}]
  BY <1>1, WFields DEF ListsOK
<1>6. \A t \in Thread : w'.timer[t] = "off"
  BY <1>3, <1>5 DEF SerInv
<1>7. pc[Single] = "wait"
  BY <1>1 DEF SerInv
<1>8. ~ Resting(w', pc', obj')
  BY <1>1, <1>4, <1>7 DEF Resting
<1>9. SerHandlers'
  BY <1>1 DEF SerInv, SerHandlers
<1> QED BY <1>1, <1>3, <1>4, <1>6, <1>8, <1>9 DEF SerInv

(* No step of the FIFO and the shell breaks the invariant.                  *)
LEMMA SerKeeps ==
  ASSUME SerInv, Ser!Next
  PROVE  SerInv'
BY SerFetchKeeps, SerIndicateKeeps, SerReadKeeps, SerTakeKeeps, SerReturnKeeps,
   SerResumeKeeps DEF Ser!Next

(* It gives what the runs check.                                            *)
LEMMA SerServes ==
  ASSUME SerInv
  PROVE  Ser!ShellServed
<1> SUFFICES ASSUME w.list["main"] # <<>>, ~ Ser!InHandler
             PROVE  Ser!Unread = <<>>
  BY DEF Ser!ShellServed
<1>1. w.list["main"] \in Seq(Thread) /\ ToSet(w.list["main"]) \subseteq {Single}
  BY WFields DEF SerInv, ListsOK, List
<1>2. Single \in w.susp
  BY <1>1, EmptyList DEF SerInv
<1>3. obj.get = obj.put /\ ~ obj.full
  BY <1>2 DEF SerInv, Resting, Drained, Ser!InHandler
<1>4. Ser!Unread = [i \in 1 .. 0 |-> obj.buffer[(obj.get + i - 1) % (Size + 1)]]
  BY <1>3 DEF Ser!Unread
<1>5. 1 .. 0 = {}
  OBVIOUS
<1> QED BY <1>4, <1>5

-----------------------------------------------------------------------------
(* The condition variable. *)

(* It suspends and wakes by these operators.                                *)
LEMMA CvrWaiting ==
  /\ \A v, t, e, wait : Cvr!Suspend(v, t, e, wait) = Suspend(v, t, e, wait)
  /\ \A v, nodes : Cvr!WakeOne(v, nodes) = WakeOne(v, nodes)
  /\ \A v, nodes : Cvr!WithoutWoken(v, nodes) = WithoutWoken(v, nodes)
  /\ \A v, nodes : Cvr!WakeAll(v, nodes) = WakeAll(v, nodes)
  /\ \A s, e : Cvr!RemoveFirst(s, e) = RemoveFirst(s, e)
  /\ Cvr!WaitStep <=> WaitStep
<1> USE DEF Cvr!Suspend, Suspend, Cvr!Ready, Ready, Cvr!Unlink, Unlink,
            Cvr!CanReady, CanReady, Cvr!List, List, Cvr!RemoveFirst, RemoveFirst,
            Cvr!RemoveAt, RemoveAt, Cvr!SelectInSeq, SelectInSeq,
            Cvr!SelectInSubSeq, SelectInSubSeq, Cvr!Min, Min, Cvr!ForEach, ForEach,
            Cvr!WakeOne, WakeOne, Cvr!WakeAll, WakeAll, Cvr!WithoutWoken, WithoutWoken,
            Cvr!FirstReady, FirstReady, Cvr!Try, Try
<1>1. ASSUME NEW v, NEW t, NEW e, NEW wait
     PROVE  Cvr!Suspend(v, t, e, wait) = Suspend(v, t, e, wait)
  BY ZenonT(30)
<1>2. ASSUME NEW v, NEW nodes
     PROVE  Cvr!WakeOne(v, nodes) = WakeOne(v, nodes)
  BY ZenonT(30)
<1>3. ASSUME NEW v, NEW nodes
     PROVE  Cvr!WithoutWoken(v, nodes) = WithoutWoken(v, nodes)
  BY ZenonT(30)
<1>4. ASSUME NEW v, NEW nodes
     PROVE  Cvr!WakeAll(v, nodes) = WakeAll(v, nodes)
  BY ZenonT(30)
<1>5. ASSUME NEW s, NEW e
     PROVE  Cvr!RemoveFirst(s, e) = RemoveFirst(s, e)
  BY ZenonT(30)
<1>6. Cvr!WaitStep <=> WaitStep
  BY ZenonT(30) DEF Cvr!WaitStep, WaitStep, Cvr!Expire, Expire, Cvr!Timeout,
                    Timeout, Cvr!Resume, Resume, Cvr!InCallback, InCallback,
                    Cvr!CanRun, CanRun, Cvr!Actor, Actor
<1> HIDE DEF Cvr!Suspend, Suspend, Cvr!Ready, Ready, Cvr!Unlink, Unlink,
             Cvr!CanReady, CanReady, Cvr!List, List, Cvr!RemoveFirst, RemoveFirst,
             Cvr!RemoveAt, RemoveAt, Cvr!SelectInSeq, SelectInSeq,
             Cvr!SelectInSubSeq, SelectInSubSeq, Cvr!Min, Min, Cvr!ForEach, ForEach,
             Cvr!WakeOne, WakeOne, Cvr!WakeAll, WakeAll, Cvr!WithoutWoken, WithoutWoken,
             Cvr!FirstReady, FirstReady, Cvr!Try, Try
<1> QED BY <1>1, <1>2, <1>3, <1>4, <1>5, <1>6

CvrCalls == {"run", "locked", "join", "asleep", "leave", "relock", "retest",
             "signal", "clear", "done"}

CvrFields ==
  [list : Seq(Thread), flag : {"CLEAN", "WAKEUP"}, cnt : Nat, mtx : BOOLEAN,
   owner : Thread \cup {Null}, items : Nat]

(* Who is between the two counts of rt_condvar_timedwait.                   *)
CvrCounted(c) == {t \in Thread : c[t] \in {"asleep", "leave"}}

(* The mutex keeps the others out of the monitor, and waiting_cnt is that   *)
(* of the threads in the wait.                                              *)
CvrMonitor(c, s) ==
  /\ c \in [Actor -> CvrCalls] /\ s \in CvrFields
  /\ \A t \in Thread :
       c[t] \in {"locked", "join", "retest", "signal", "clear", "done"} => s.owner = t
  /\ \A t \in Thread : c[t] = "join" => s.items = 0
  /\ s.cnt = Cardinality(CvrCounted(c))

(* Every suspended thread has its node in the queue.                        *)
CvrQueue(v, c, s) ==
  /\ IsInjective(s.list) /\ v.susp \subseteq ToSet(s.list)
  /\ \A t \in ToSet(s.list) : c[t] = "asleep"

(* Who can still be woken, and who is to look at the items.                 *)
CvrSleeps(v) == {t \in v.susp : v.timer[t] \notin {"firing", "missed"}}

CvrComing(v, c) ==
  {t \in Thread : \/ c[t] = "signal"
                  \/ /\ c[t] \in {"asleep", "leave", "relock", "retest"}
                     /\ t \notin v.susp /\ v.err[t] = "EOK"}

CvrTold(v, c, s) == CvrSleeps(v) # {} => s.items <= Cardinality(CvrComing(v, c))

CvrInv ==
  ListsOK(w) /\ CvrMonitor(pc, obj) /\ CvrQueue(w, pc, obj) /\ CvrTold(w, pc, obj)

(* Initially.                                                               *)
LEMMA CvrStarts ==
  ASSUME Cvr!Init
  PROVE  CvrInv
<1>1. /\ w = InitW /\ pc = [a \in Actor |-> "run"]
      /\ obj = [list |-> <<>>, flag |-> "CLEAN", cnt |-> 0, mtx |-> FALSE, owner |-> Null,
                items |-> 0]
  BY DEF Cvr!Init, Cvr!InitW, InitW, Cvr!List, List, Cvr!Actor, Actor
<1>2. ListsOK(w) /\ w.susp = {}
  BY <1>1, InitialLists
<1>3. /\ obj \in CvrFields /\ obj.list = <<>> /\ obj.items = 0 /\ obj.cnt = 0
  <2>1. <<>> \in Seq(Thread)
    OBVIOUS
  <2> QED BY <1>1, <2>1 DEF CvrFields
<1>4. pc \in [Actor -> CvrCalls] /\ \A t \in Thread : pc[t] = "run"
  BY <1>1 DEF Actor, CvrCalls
<1>5. CvrCounted(pc) = {}
  BY <1>4 DEF CvrCounted
<1>6. CvrMonitor(pc, obj)
  BY <1>3, <1>4, <1>5, FS_EmptySet DEF CvrMonitor
<1>7. CvrQueue(w, pc, obj)
  BY <1>2, <1>3 DEF CvrQueue, IsInjective, ToSet
<1>8. CvrTold(w, pc, obj)
  BY <1>2 DEF CvrTold, CvrSleeps
<1> QED BY <1>2, <1>6, <1>7, <1>8 DEF CvrInv

(* A thread inside the monitor is alone there, and awake.                   *)
LEMMA CvrInside ==
  ASSUME Nested = FALSE, CvrInv, NEW t \in Thread, Cvr!CanRun(t)
  PROVE  /\ t \notin w.susp /\ Calm(w) /\ t \in Actor
         /\ pc \in [Actor -> CvrCalls] /\ obj \in CvrFields
         /\ CvrCounted(pc) \in SUBSET Thread /\ CvrComing(w, pc) \in SUBSET Thread
<1>1. CanRun(t) /\ t \in Actor
  BY DEF Cvr!CanRun, CanRun, Cvr!InCallback, InCallback, Actor
<1>2. t \notin w.susp /\ Calm(w)
  BY <1>1, RunsCalm DEF CvrInv
<1> QED BY <1>1, <1>2 DEF CvrInv, CvrMonitor, CvrCounted, CvrComing

(* Nobody is less told than before: those who are to look still are.        *)
LEMMA CvrStillTold ==
  ASSUME NEW v, NEW c, NEW s, CvrTold(v, c, s), NEW u, NEW d, NEW r,
         CvrSleeps(u) # {} => CvrSleeps(v) # {}, s.items \in Nat, r.items = s.items,
         CvrComing(v, c) \subseteq CvrComing(u, d)
  PROVE  CvrTold(u, d, r)
<1> DEFINE A == CvrComing(v, c)
           B == CvrComing(u, d)
<1>1. A \in SUBSET Thread /\ B \in SUBSET Thread /\ A \subseteq B
  BY DEF CvrComing
<1>2. CvrSleeps(v) # {} => s.items <= Cardinality(A)
  BY DEF CvrTold
<1> HIDE DEF A, B
<1>3. IsFiniteSet(B)
  <2>1. IsFiniteSet(Thread)
    BY IpcAssumption DEF Sem!WaitingAssumption, Sem!IsFiniteSet, IsFiniteSet
  <2> QED BY <1>1, <2>1, FS_Subset
<1>4. Cardinality(A) <= Cardinality(B)
  BY <1>1, <1>3, FS_Subset
<1>5. Cardinality(A) \in Nat /\ Cardinality(B) \in Nat
  BY <1>1, CardinalityNat
<1>6. CvrSleeps(u) # {} => r.items <= Cardinality(B)
  BY <1>2, <1>4, <1>5
<1> QED BY <1>6 DEF CvrTold, B

(* Nor where there is nothing to look for.                                  *)
LEMMA CvrNoneToTell ==
  ASSUME NEW u, NEW d, NEW r, r.items = 0 \/ u.susp = {}
  PROVE  CvrTold(u, d, r)
<1>1. CvrComing(u, d) \in SUBSET Thread
  BY DEF CvrComing
<1>2. Cardinality(CvrComing(u, d)) \in Nat
  BY <1>1, CardinalityNat
<1> QED BY <1>2 DEF CvrTold, CvrSleeps

(* A thread that has the mutex, or takes it, moves on inside the monitor or *)
(* leaves it: it changes no list and is not counted.                        *)
LEMMA CvrMoves ==
  ASSUME Nested = FALSE, CvrInv, NEW t \in Thread, Cvr!CanRun(t), w' = w,
         pc[t] \notin {"asleep", "leave"}, obj.owner \in {t, Null},
         NEW p \in CvrCalls \ {"asleep", "leave", "relock"}, pc' = [pc EXCEPT ![t] = p],
         obj' \in CvrFields, obj'.list = obj.list, obj'.cnt = obj.cnt,
         obj'.owner = IF p = "run" THEN Null ELSE t,
         p = "join" => obj'.items = 0,
         CvrTold(w, pc', obj')
  PROVE  CvrInv'
<1>1. /\ t \in Actor /\ pc \in [Actor -> CvrCalls] /\ obj \in CvrFields /\ Null \notin Thread
  BY CvrInside, ObjectsAssumption DEF Cvr!CondvarAssumption
<1>2. \A u \in Thread \ {t} :
        pc[u] \notin {"locked", "join", "retest", "signal", "clear", "done"}
  BY <1>1 DEF CvrInv, CvrMonitor
<1>3. pc' \in [Actor -> CvrCalls] /\ pc'[t] = p /\ \A u \in Thread \ {t} : pc'[u] = pc[u]
  BY <1>1 DEF Actor
<1>4. CvrCounted(pc') = CvrCounted(pc)
  BY <1>3 DEF CvrCounted
<1>5. CvrMonitor(pc', obj')
  BY <1>1, <1>2, <1>3, <1>4 DEF CvrInv, CvrMonitor
<1>6. CvrQueue(w, pc', obj')
  BY <1>3 DEF CvrInv, CvrQueue
<1> QED BY <1>5, <1>6 DEF CvrInv

(* Taking the mutex.                                                        *)
LEMMA CvrLockKeeps ==
  ASSUME Nested = FALSE, CvrInv, NEW t \in Thread, Cvr!Lock(t)
  PROVE  CvrInv'
<1>1. /\ Cvr!CanRun(t) /\ w' = w /\ obj.owner = Null /\ obj' = [obj EXCEPT !.owner = t]
      /\ \/ pc[t] = "run" /\ pc' = [pc EXCEPT ![t] = "locked"]
         \/ pc[t] = "relock" /\ pc' = [pc EXCEPT ![t] = "retest"]
  BY DEF Cvr!Lock, Cvr!At, Cvr!Goto
<1>2. t \in Actor /\ pc \in [Actor -> CvrCalls] /\ obj \in CvrFields /\ t \notin w.susp
  BY <1>1, CvrInside
<1>3. PICK p \in {"locked", "retest"} : /\ pc' = [pc EXCEPT ![t] = p]
                                        /\ p = "locked" => pc[t] = "run"
                                        /\ p = "retest" => pc[t] = "relock"
  BY <1>1
<1>4. /\ obj' \in CvrFields /\ obj'.list = obj.list /\ obj'.cnt = obj.cnt /\ obj'.owner = t
      /\ obj'.items = obj.items /\ obj.items \in Nat
  BY <1>1, <1>2 DEF CvrFields
<1>5. CvrComing(w, pc) \subseteq CvrComing(w, pc')
  BY <1>2, <1>3 DEF CvrComing, Actor
<1>6. CvrTold(w, pc', obj')
  BY <1>4, <1>5, CvrStillTold DEF CvrInv
<1>7. p \in CvrCalls \ {"asleep", "leave", "relock"} /\ p # "run" /\ p # "join"
  BY DEF CvrCalls
<1> QED BY <1>1, <1>3, <1>4, <1>6, <1>7, CvrMoves

(* An item is consumed by one that comes to look, or by one that has come.  *)
LEMMA CvrConsumeKeeps ==
  ASSUME Nested = FALSE, CvrInv, NEW t \in Thread, Cvr!Consume(t)
  PROVE  CvrInv'
<1> DEFINE A == CvrComing(w, pc)
           B == CvrComing(w, pc')
<1>1. /\ Cvr!CanRun(t) /\ w' = w /\ obj.items > 0 /\ obj' = [obj EXCEPT !.items = obj.items - 1]
      /\ pc[t] \in {"locked", "retest"} /\ pc' = [pc EXCEPT ![t] = "done"]
  BY DEF Cvr!Consume, Cvr!At, Cvr!Goto
<1>2. t \in Actor /\ pc \in [Actor -> CvrCalls] /\ obj \in CvrFields
  BY <1>1, CvrInside
<1>3. obj.owner = t
  BY <1>1 DEF CvrInv, CvrMonitor
<1>4. obj.items \in Nat /\ obj.items - 1 \in Nat
  BY <1>1, <1>2 DEF CvrFields
<1>5. /\ obj' \in CvrFields /\ obj'.list = obj.list /\ obj'.cnt = obj.cnt /\ obj'.owner = t
      /\ obj'.items = obj.items - 1
  BY <1>1, <1>2, <1>3, <1>4 DEF CvrFields
<1>6. B = A \ {t}
  BY <1>1, <1>2 DEF CvrComing, Actor
<1>7. A \in SUBSET Thread
  BY DEF CvrComing
<1>8. CvrSleeps(w) # {} => obj.items <= Cardinality(A)
  BY DEF CvrInv, CvrTold
<1> HIDE DEF A, B
<1>9. Cardinality(A) \in Nat /\ (B = A \/ Cardinality(B) = Cardinality(A) - 1)
  <2>1. t \notin A => B = A
    BY <1>6
  <2> QED BY <1>6, <1>7, <2>1, CountOne
<1>10. CvrTold(w, pc', obj')
  BY <1>4, <1>5, <1>8, <1>9 DEF CvrTold, B
<1>11. "done" \in CvrCalls \ {"asleep", "leave", "relock"}
  BY DEF CvrCalls
<1> QED BY <1>1, <1>3, <1>5, <1>10, <1>11, CvrMoves

(* The producer is to signal the item.                                      *)
LEMMA CvrProduceKeeps ==
  ASSUME Nested = FALSE, CvrInv, NEW t \in Thread, Cvr!Produce(t)
  PROVE  CvrInv'
<1> DEFINE A == CvrComing(w, pc)
           B == CvrComing(w, pc')
<1>1. /\ Cvr!CanRun(t) /\ w' = w /\ obj' = [obj EXCEPT !.items = obj.items + 1]
      /\ pc[t] = "locked" /\ pc' = [pc EXCEPT ![t] = "signal"]
  BY DEF Cvr!Produce, Cvr!At, Cvr!Goto
<1>2. t \in Actor /\ pc \in [Actor -> CvrCalls] /\ obj \in CvrFields
  BY <1>1, CvrInside
<1>3. obj.owner = t
  BY <1>1 DEF CvrInv, CvrMonitor
<1>4. obj.items \in Nat /\ obj.items + 1 \in Nat
  BY <1>2 DEF CvrFields
<1>5. /\ obj' \in CvrFields /\ obj'.list = obj.list /\ obj'.cnt = obj.cnt /\ obj'.owner = t
      /\ obj'.items = obj.items + 1
  BY <1>1, <1>2, <1>3, <1>4 DEF CvrFields
<1>6. B = A \cup {t} /\ t \notin A
  BY <1>1, <1>2 DEF CvrComing, Actor
<1>7. A \in SUBSET Thread
  BY DEF CvrComing
<1>8. CvrSleeps(w) # {} => obj.items <= Cardinality(A)
  BY DEF CvrInv, CvrTold
<1> HIDE DEF A, B
<1>9. Cardinality(A) \in Nat /\ Cardinality(B) = Cardinality(A) + 1
  BY <1>6, <1>7, CountOne
<1>10. CvrTold(w, pc', obj')
  BY <1>4, <1>5, <1>8, <1>9 DEF CvrTold, B
<1>11. "signal" \in CvrCalls \ {"asleep", "leave", "relock"}
  BY DEF CvrCalls
<1> QED BY <1>1, <1>3, <1>5, <1>10, <1>11, CvrMoves

(* The others that move on with the mutex were not to look, or have nothing *)
(* to look for.                                                             *)
LEMMA CvrOwnerKeeps ==
  ASSUME Nested = FALSE, CvrInv, NEW t \in Thread,
         Cvr!GiveUp(t) \/ Cvr!Unlock(t) \/ Cvr!Join(t) \/ Cvr!Clear(t)
  PROVE  CvrInv'
<1>1. /\ Cvr!CanRun(t) /\ w' = w
      /\ \/ /\ pc[t] = "retest" /\ w.err[t] = "-ETIMEOUT" /\ obj' = obj
            /\ pc' = [pc EXCEPT ![t] = "done"]
         \/ /\ pc[t] = "done" /\ obj' = [obj EXCEPT !.owner = Null]
            /\ pc' = [pc EXCEPT ![t] = "run"]
         \/ /\ pc[t] \in {"locked", "retest"} /\ obj.items = 0 /\ obj' = [obj EXCEPT !.mtx = TRUE]
            /\ pc' = [pc EXCEPT ![t] = "join"]
         \/ /\ pc[t] = "clear" /\ obj' = [obj EXCEPT !.flag = "CLEAN"]
            /\ pc' = [pc EXCEPT ![t] = "done"]
  BY DEF Cvr!GiveUp, Cvr!Unlock, Cvr!Join, Cvr!Clear, Cvr!At, Cvr!Goto
<1>2. t \in Actor /\ pc \in [Actor -> CvrCalls] /\ obj \in CvrFields
  BY <1>1, CvrInside
<1>3. obj.owner = t
  BY <1>1 DEF CvrInv, CvrMonitor
<1>4. PICK p \in {"done", "run", "join"} :
        /\ pc' = [pc EXCEPT ![t] = p] /\ (p = "join" => obj.items = 0)
        /\ p # "join" => t \notin CvrComing(w, pc)
        /\ obj' \in CvrFields /\ obj'.list = obj.list /\ obj'.cnt = obj.cnt
        /\ obj'.items = obj.items /\ obj'.owner = IF p = "run" THEN Null ELSE t
  BY <1>1, <1>2, <1>3 DEF CvrFields, CvrComing
<1>5. CvrTold(w, pc', obj')
  <2>1. CASE p = "join"
    BY <1>4, <2>1, CvrNoneToTell
  <2>2. CASE p # "join"
    <3>1. CvrComing(w, pc) \subseteq CvrComing(w, pc')
      BY <1>2, <1>4, <2>2 DEF CvrComing, Actor
    <3>2. obj.items \in Nat
      BY <1>2 DEF CvrFields
    <3> QED BY <1>4, <3>1, <3>2, CvrStillTold DEF CvrInv
  <2> QED BY <2>1, <2>2
<1>6. p \in CvrCalls \ {"asleep", "leave", "relock"}
  BY DEF CvrCalls
<1> QED BY <1>1, <1>3, <1>4, <1>5, <1>6, CvrMoves

(* The sleeper is counted and queued as it releases the mutex, and there is *)
(* no item.                                                                 *)
LEMMA CvrSleepKeeps ==
  ASSUME Nested = FALSE, CvrInv, NEW t \in Thread, Cvr!Sleep(t)
  PROVE  CvrInv'
<1>1. /\ Cvr!CanRun(t) /\ pc[t] = "join" /\ pc' = [pc EXCEPT ![t] = "asleep"]
      /\ \/ obj' = [obj EXCEPT !.cnt = obj.cnt + 1, !.owner = Null] /\ w' = w
         \/ /\ \E wait : w' = Suspend(w, t, w.err[t], wait)
            /\ obj' = [obj EXCEPT !.cnt = obj.cnt + 1, !.list = Append(obj.list, t), !.owner = Null]
  BY CvrWaiting DEF Cvr!Sleep, Cvr!At, Cvr!Goto
<1>2. /\ t \in Actor /\ pc \in [Actor -> CvrCalls] /\ obj \in CvrFields /\ Null \notin Thread
      /\ ListsOK(w) /\ w.err[t] \in Error
  BY <1>1, CvrInside, WFields, ObjectsAssumption DEF Cvr!CondvarAssumption, CvrInv, ListsOK
<1>3. obj.owner = t /\ obj.items = 0 /\ IsInjective(obj.list) /\ w.susp \subseteq ToSet(obj.list)
  BY <1>1 DEF CvrInv, CvrMonitor, CvrQueue
<1>4. t \notin ToSet(obj.list) /\ obj.list \in Seq(Thread) /\ obj.cnt \in Nat
  BY <1>1, <1>2 DEF CvrInv, CvrQueue, CvrFields
<1>5. /\ Append(obj.list, t) \in Seq(Thread) /\ IsInjective(Append(obj.list, t))
      /\ ToSet(Append(obj.list, t)) = ToSet(obj.list) \cup {t}
  BY <1>3, <1>4, AppendNew
<1>6. /\ obj' \in CvrFields /\ obj'.cnt = obj.cnt + 1 /\ obj'.owner = Null /\ obj'.items = 0
      /\ \/ obj'.list = obj.list /\ w' = w
         \/ /\ \E wait : w' = Suspend(w, t, w.err[t], wait)
            /\ obj'.list = Append(obj.list, t)
  <2>1. obj.cnt + 1 \in Nat
    BY <1>4
  <2>2. CASE obj' = [obj EXCEPT !.cnt = obj.cnt + 1, !.owner = Null] /\ w' = w
    BY <1>2, <1>3, <2>1, <2>2 DEF CvrFields
  <2> DEFINE q == Append(obj.list, t)
  <2>3. CASE /\ \E wait : w' = Suspend(w, t, w.err[t], wait)
             /\ obj' = [obj EXCEPT !.cnt = obj.cnt + 1, !.list = q, !.owner = Null]
    <3>1. q \in Seq(Thread)
      BY <1>5
    <3> HIDE DEF q
    <3>2. /\ obj' \in CvrFields /\ obj'.cnt = obj.cnt + 1 /\ obj'.owner = Null /\ obj'.items = 0
          /\ obj'.list = q
      BY <1>2, <1>3, <2>1, <2>3, <3>1 DEF CvrFields
    <3> QED BY <2>3, <3>2 DEF q
  <2> QED BY <1>1, <2>2, <2>3
<1>7. /\ pc' \in [Actor -> CvrCalls] /\ pc'[t] = "asleep"
      /\ \A u \in Thread \ {t} : pc'[u] = pc[u]
  BY <1>1, <1>2 DEF Actor, CvrCalls
<1>8. CvrMonitor(pc', obj')
  <2>1. \A u \in Thread \ {t} :
          pc[u] \notin {"locked", "join", "retest", "signal", "clear", "done"}
    BY <1>2, <1>3 DEF CvrInv, CvrMonitor
  <2> DEFINE A == CvrCounted(pc)
             B == CvrCounted(pc')
  <2>2. A \in SUBSET Thread /\ B = A \cup {t} /\ t \notin A
    BY <1>1, <1>7 DEF CvrCounted
  <2>3. obj.cnt = Cardinality(A)
    BY DEF CvrInv, CvrMonitor
  <2> HIDE DEF A, B
  <2>4. obj'.cnt = Cardinality(B)
    BY <1>6, <2>2, <2>3, CountOne
  <2> QED BY <1>6, <1>7, <2>1, <2>4 DEF CvrMonitor, B
<1>9. ListsOK(w') /\ CvrQueue(w', pc', obj')
  <2>1. CASE obj'.list = obj.list /\ w' = w
    <3>1. ToSet(obj.list) \subseteq Thread
      BY <1>4, EmptyList
    <3>2. \A u \in ToSet(obj.list) : pc[u] = "asleep"
      BY DEF CvrInv, CvrQueue
    <3> QED BY <1>2, <1>3, <1>4, <1>7, <2>1, <3>1, <3>2 DEF CvrQueue
  <2>2. ASSUME NEW wait, w' = Suspend(w, t, w.err[t], wait), obj'.list = Append(obj.list, t)
        PROVE  ListsOK(w') /\ CvrQueue(w', pc', obj')
    <3>1. Suspended(w, w', t, w.err[t], wait)
      BY <1>2, <2>2, SuspendSleeps
    <3>2. ListsOK(w') /\ w'.susp = w.susp \cup {t}
      BY <3>1 DEF Suspended
    <3>3. \A u \in ToSet(obj.list) : pc[u] = "asleep"
      BY DEF CvrInv, CvrQueue
    <3>4. \A u \in ToSet(obj'.list) : pc'[u] = "asleep"
      <4>1. ToSet(obj.list) \subseteq Thread
        BY <1>4, EmptyList
      <4> QED BY <1>5, <1>7, <2>2, <3>3, <4>1
    <3> QED BY <1>3, <1>5, <2>2, <3>2, <3>4 DEF CvrQueue
  <2> QED BY <1>6, <2>1, <2>2
<1>10. CvrTold(w', pc', obj')
  BY <1>6, CvrNoneToTell
<1> QED BY <1>8, <1>9, <1>10 DEF CvrInv

(* Awake, the thread leaves the queue and is counted down; it still is to   *)
(* look.                                                                    *)
LEMMA CvrLeaveKeeps ==
  ASSUME Nested = FALSE, CvrInv, NEW t \in Thread, Cvr!Awake(t) \/ Cvr!Leave(t)
  PROVE  CvrInv'
<1>1. /\ Cvr!CanRun(t) /\ w' = w
      /\ \/ /\ pc[t] = "asleep" /\ obj' = [obj EXCEPT !.list = RemoveFirst(obj.list, t)]
            /\ pc' = [pc EXCEPT ![t] = "leave"]
         \/ /\ pc[t] = "leave"
            /\ obj' = [obj EXCEPT !.cnt = obj.cnt - 1, !.mtx = obj.mtx /\ obj.cnt # 1]
            /\ pc' = [pc EXCEPT ![t] = "relock"]
  BY CvrWaiting DEF Cvr!Awake, Cvr!Leave, Cvr!At, Cvr!Goto
<1>2. /\ t \in Actor /\ pc \in [Actor -> CvrCalls] /\ obj \in CvrFields /\ t \notin w.susp
      /\ ListsOK(w) /\ obj.list \in Seq(Thread) /\ obj.items \in Nat /\ obj.cnt \in Nat
  BY <1>1, CvrInside DEF CvrInv, CvrFields
<1>3. /\ IsInjective(obj.list) /\ w.susp \subseteq ToSet(obj.list)
      /\ \A u \in ToSet(obj.list) : pc[u] = "asleep"
  BY DEF CvrInv, CvrQueue
<1> DEFINE r == RemoveFirst(obj.list, t)
<1>4. r \in Seq(Thread) /\ IsInjective(r) /\ ToSet(r) = ToSet(obj.list) \ {t}
  BY <1>2, <1>3, RemoveFirstProperties
<1> HIDE DEF r
<1>5. ToSet(obj.list) \subseteq Thread
  BY <1>2, EmptyList
<1>6. CASE /\ pc[t] = "asleep" /\ obj' = [obj EXCEPT !.list = r]
           /\ pc' = [pc EXCEPT ![t] = "leave"]
  <2>1. /\ obj' \in CvrFields /\ obj'.list = r /\ obj'.cnt = obj.cnt
        /\ obj'.owner = obj.owner /\ obj'.items = obj.items
    BY <1>2, <1>4, <1>6 DEF CvrFields
  <2>2. /\ pc' \in [Actor -> CvrCalls] /\ pc'[t] = "leave"
        /\ \A u \in Thread \ {t} : pc'[u] = pc[u]
    BY <1>2, <1>6 DEF Actor, CvrCalls
  <2>3. CvrCounted(pc') = CvrCounted(pc)
    BY <1>6, <2>2 DEF CvrCounted
  <2>4. CvrMonitor(pc', obj')
    BY <2>1, <2>2, <2>3 DEF CvrInv, CvrMonitor
  <2>5. CvrQueue(w, pc', obj')
    BY <1>2, <1>3, <1>4, <1>5, <2>1, <2>2 DEF CvrQueue
  <2>6. CvrComing(w, pc) \subseteq CvrComing(w, pc')
    BY <1>2, <1>6, <2>2 DEF CvrComing
  <2>7. CvrTold(w, pc', obj')
    BY <1>2, <2>1, <2>6, CvrStillTold DEF CvrInv
  <2> QED BY <1>1, <1>2, <2>4, <2>5, <2>7 DEF CvrInv
<1>7. CASE /\ pc[t] = "leave"
           /\ obj' = [obj EXCEPT !.cnt = obj.cnt - 1, !.mtx = obj.mtx /\ obj.cnt # 1]
           /\ pc' = [pc EXCEPT ![t] = "relock"]
  <2> DEFINE A == CvrCounted(pc)
             B == CvrCounted(pc')
  <2>1. /\ pc' \in [Actor -> CvrCalls] /\ pc'[t] = "relock"
        /\ \A u \in Thread \ {t} : pc'[u] = pc[u]
    BY <1>2, <1>7 DEF Actor, CvrCalls
  <2>2. A \in SUBSET Thread /\ B = A \ {t} /\ t \in A
    BY <1>7, <2>1 DEF CvrCounted
  <2>3. obj.cnt = Cardinality(A)
    BY DEF CvrInv, CvrMonitor
  <2> HIDE DEF A, B
  <2>4. obj.cnt - 1 = Cardinality(B) /\ obj.cnt - 1 \in Nat
    BY <1>2, <2>2, <2>3, CountOne
  <2>5. /\ obj' \in CvrFields /\ obj'.list = obj.list /\ obj'.cnt = obj.cnt - 1
        /\ obj'.owner = obj.owner /\ obj'.items = obj.items
    <3>1. (obj.mtx /\ obj.cnt # 1) \in BOOLEAN
      OBVIOUS
    <3> DEFINE m == obj.mtx /\ obj.cnt # 1
               n == obj.cnt - 1
    <3>2. obj' = [obj EXCEPT !.cnt = n, !.mtx = m] /\ m \in BOOLEAN /\ n \in Nat
      BY <1>7, <2>4, <3>1
    <3> HIDE DEF m, n
    <3>3. obj' \in CvrFields /\ obj'.list = obj.list /\ obj'.cnt = n
          /\ obj'.owner = obj.owner /\ obj'.items = obj.items
      BY <1>2, <3>2 DEF CvrFields
    <3> QED BY <3>3 DEF n
  <2>6. CvrMonitor(pc', obj')
    BY <2>1, <2>4, <2>5 DEF CvrInv, CvrMonitor, B
  <2>7. CvrQueue(w, pc', obj')
    BY <1>3, <1>5, <1>7, <2>1, <2>5 DEF CvrQueue
  <2>8. CvrComing(w, pc) \subseteq CvrComing(w, pc')
    BY <1>2, <1>7, <2>1 DEF CvrComing
  <2>9. CvrTold(w, pc', obj')
    BY <1>2, <2>5, <2>8, CvrStillTold DEF CvrInv
  <2> QED BY <1>1, <1>2, <2>6, <2>7, <2>9 DEF CvrInv
<1> QED BY <1>1, <1>6, <1>7 DEF r

(* Time-outs and resumptions.                                               *)
LEMMA CvrWaits ==
  ASSUME Nested = FALSE, CvrInv, Cvr!WaitStep, UNCHANGED obj
  PROVE  CvrInv'
<1>1. /\ ListsOK(w) /\ w.susp \in SUBSET Thread /\ w.err \in [Thread -> Error]
      /\ w.timer \in [Thread -> {"off", "armed", "firing", "missed"}]
      /\ obj.items \in Nat
  BY WFields DEF CvrInv, CvrMonitor, CvrFields, ListsOK
<1>2. PICK t \in Thread : Expire(t) \/ Timeout(t) \/ Resume(t)
  BY CvrWaiting DEF WaitStep
<1>3. pc' = pc /\ obj' = obj
  BY <1>2 DEF Expire, Timeout, Resume
<1>4. /\ ListsOK(w') /\ w'.susp \subseteq w.susp
      /\ CvrSleeps(w') \subseteq CvrSleeps(w) /\ CvrComing(w, pc) \subseteq CvrComing(w', pc)
  <2>1. CASE Expire(t)
    <3>1. /\ ListsOK(w') /\ w'.susp = w.susp /\ w'.err = w.err
          /\ w'.timer = [w.timer EXCEPT ![t] = "firing"]
      BY <1>1, <2>1, ExpireWaits
    <3> QED BY <1>1, <3>1 DEF CvrSleeps, CvrComing
  <2>2. CASE Timeout(t) \/ Resume(t)
    <3>1. t \in w.susp /\ Left(w, w', t)
      BY <1>1, <2>2, TimeoutWaits, ResumeWaits
    <3>2. /\ ListsOK(w') /\ w'.susp = w.susp \ {t}
          /\ w'.timer = [w.timer EXCEPT ![t] = "off"]
          /\ w'.err = w.err \/ w'.err = [w.err EXCEPT ![t] = "-ETIMEOUT"]
      BY <3>1 DEF Left, Freed
    <3>3. CvrSleeps(w') \subseteq CvrSleeps(w)
      BY <1>1, <3>2 DEF CvrSleeps
    <3>4. CvrComing(w, pc) \subseteq CvrComing(w', pc)
      <4> SUFFICES ASSUME NEW u \in CvrComing(w, pc) PROVE u \in CvrComing(w', pc)
        OBVIOUS
      <4>1. CASE pc[u] = "signal"
        BY <4>1 DEF CvrComing
      <4>2. CASE pc[u] # "signal"
        <5>1. u \notin w.susp /\ u # t /\ w.err[u] = "EOK" /\ u \in Thread
          BY <3>1, <4>2 DEF CvrComing
        <5>2. w'.err[u] = "EOK" /\ u \notin w'.susp
          BY <1>1, <3>2, <5>1
        <5> QED BY <4>2, <5>2 DEF CvrComing
      <4> QED BY <4>1, <4>2
    <3> QED BY <3>2, <3>3, <3>4
  <2> QED BY <1>2, <2>1, <2>2
<1>5. CvrTold(w', pc', obj')
  <2>1. CvrSleeps(w') # {} => CvrSleeps(w) # {}
    BY <1>4
  <2> QED BY <1>1, <1>3, <1>4, <2>1, CvrStillTold DEF CvrInv
<1> QED BY <1>3, <1>4, <1>5 DEF CvrInv, CvrMonitor, CvrQueue

(* Taking out the node at position k takes out its thread.                  *)
LEMMA RemoveAtProperties ==
  ASSUME NEW S, NEW s \in Seq(S), IsInjective(s), NEW k \in DOMAIN s
  PROVE  /\ RemoveAt(s, k) \in Seq(S) /\ IsInjective(RemoveAt(s, k))
         /\ ToSet(RemoveAt(s, k)) = ToSet(s) \ {s[k]}
<1>1. k \in 1 .. Len(s) /\ {j \in 1 .. Len(s) : s[j] = s[k]} = {k}
  BY DEF IsInjective
<1>2. Min({k}) = k
  BY <1>1 DEF Min
<1>3. SelectInSeq(s, LAMBDA v : v = s[k]) = k
  BY <1>1, <1>2 DEF SelectInSeq
<1>4. RemoveFirst(s, s[k]) = RemoveAt(s, k)
  BY <1>1, <1>3 DEF RemoveFirst
<1> QED BY <1>4, RemoveFirstProperties

(* A thread t that has produced an item wakes one that sleeps, or nobody    *)
(* sleeps after.                                                            *)
LEMMA CvrWakes ==
  ASSUME Nested = FALSE, CvrInv, NEW t \in Thread, Cvr!CanRun(t), pc[t] = "signal",
         pc' = [pc EXCEPT ![t] = "clear"],
         NEW S, WokenUp(w, w', S), NEW r \in Seq(Thread), IsInjective(r),
         ToSet(r) \subseteq ToSet(obj.list), w'.susp \subseteq ToSet(r),
         obj' \in CvrFields, obj'.list = r, obj'.cnt = obj.cnt, obj'.owner = obj.owner,
         obj'.items = obj.items,
         w'.susp = {} \/ \E u \in S : u \in w.susp
  PROVE  CvrInv'
<1>1. /\ t \in Actor /\ pc \in [Actor -> CvrCalls] /\ obj \in CvrFields /\ Calm(w)
      /\ ListsOK(w) /\ obj.list \in Seq(Thread) /\ obj.items \in Nat
      /\ w.susp \subseteq ToSet(obj.list) /\ \A u \in ToSet(obj.list) : pc[u] = "asleep"
  BY CvrInside DEF CvrInv, CvrFields, CvrQueue
<1>2. ToSet(obj.list) \subseteq Thread
  BY <1>1, EmptyList
<1>3. /\ pc' \in [Actor -> CvrCalls] /\ pc'[t] = "clear"
      /\ \A u \in Thread \ {t} : pc'[u] = pc[u]
  BY <1>1 DEF Actor, CvrCalls
<1>4. CvrCounted(pc') = CvrCounted(pc)
  BY <1>3 DEF CvrCounted
<1>5. CvrMonitor(pc', obj')
  BY <1>3, <1>4 DEF CvrInv, CvrMonitor
<1>6. ListsOK(w') /\ CvrQueue(w', pc', obj')
  <2>1. ListsOK(w')
    BY DEF WokenUp
  <2>2. \A u \in ToSet(r) : pc'[u] = "asleep"
    BY <1>1, <1>2, <1>3
  <2> QED BY <2>1, <2>2 DEF CvrQueue
<1>7. ASSUME NEW u \in S, u \in w.susp
      PROVE  CvrTold(w', pc', obj')
  <2> DEFINE A == CvrComing(w, pc)
             B == (A \ {t}) \cup {u}
             C == CvrComing(w', pc')
  <2>1. u \in Thread /\ pc[u] = "asleep" /\ u # t
    BY <1>1, <1>2, <1>7
  <2>2. /\ A \in SUBSET Thread /\ C \in SUBSET Thread /\ t \in A /\ u \notin A
        /\ u \in CvrSleeps(w)
    BY <1>1, <1>7, <2>1 DEF CvrComing, CvrSleeps, Calm
  <2>3. B \subseteq C
    <3>1. /\ w'.susp = w.susp \ S
          /\ \A v \in Thread : w'.err[v] = IF v \in S THEN "EOK" ELSE w.err[v]
      BY DEF WokenUp
    <3> SUFFICES ASSUME NEW v \in B PROVE v \in C
      OBVIOUS
    <3>2. CASE v = u
      BY <1>3, <1>7, <2>1, <3>1, <3>2 DEF CvrComing
    <3>3. CASE v \in A /\ v # t
      BY <1>3, <3>1, <3>3 DEF CvrComing
    <3> QED BY <3>2, <3>3
  <2>4. obj.items <= Cardinality(A)
    BY <2>2 DEF CvrInv, CvrTold
  <2> HIDE DEF A, C
  <2>5. Cardinality(B) = Cardinality(A) /\ Cardinality(A) \in Nat
    <3> DEFINE D == A \ {t}
    <3>1. D \in SUBSET Thread /\ u \notin D /\ Cardinality(D) = Cardinality(A) - 1
      BY <2>2, CountOne
    <3>2. Cardinality(A) \in Nat
      BY <2>2, CountOne
    <3> HIDE DEF D
    <3>3. Cardinality(D \cup {u}) = Cardinality(D) + 1
      BY <2>1, <3>1, CountOne
    <3> QED BY <3>1, <3>2, <3>3 DEF D
  <2>6. IsFiniteSet(C)
    <3>1. IsFiniteSet(Thread)
      BY IpcAssumption DEF Sem!WaitingAssumption, Sem!IsFiniteSet, IsFiniteSet
    <3> QED BY <2>2, <3>1, FS_Subset
  <2> HIDE DEF B
  <2>7. Cardinality(B) <= Cardinality(C)
    BY <2>3, <2>6, FS_Subset
  <2>8. Cardinality(C) \in Nat
    BY <2>2, CardinalityNat
  <2> QED BY <1>1, <2>4, <2>5, <2>7, <2>8 DEF CvrTold, C
<1>8. CvrTold(w', pc', obj')
  BY <1>7, CvrNoneToTell
<1> QED BY <1>5, <1>6, <1>8 DEF CvrInv

(* rt_condvar_signal and rt_condvar_broadcast do so: whoever sleeps is      *)
(* counted, and in the queue.                                               *)
LEMMA CvrSignalKeeps ==
  ASSUME Nested = FALSE, CvrInv, NEW t \in Thread, Cvr!Signal(t) \/ Cvr!Broadcast(t)
  PROVE  CvrInv'
<1> DEFINE q == obj.list
           rest == WithoutWoken(w, q)
<1>1. /\ Cvr!CanRun(t) /\ pc[t] = "signal" /\ pc' = [pc EXCEPT ![t] = "clear"]
      /\ \/ obj.cnt > 0 /\ w' = WakeOne(w, q) /\ obj' = [obj EXCEPT !.flag = "WAKEUP", !.list = rest]
         \/ obj.cnt > 0 /\ w' = WakeAll(w, q) /\ obj' = [obj EXCEPT !.flag = "WAKEUP"]
         \/ ~ obj.cnt > 0 /\ w' = w /\ obj' = obj
  BY CvrWaiting DEF Cvr!Signal, Cvr!Broadcast, Cvr!At, Cvr!Goto
<1>2. /\ t \in Actor /\ pc \in [Actor -> CvrCalls] /\ obj \in CvrFields /\ Calm(w)
      /\ ListsOK(w) /\ w.susp \in SUBSET Thread /\ w.err \in [Thread -> Error]
      /\ q \in Seq(Thread) /\ IsInjective(q)
      /\ w.susp \subseteq ToSet(q) /\ \A u \in ToSet(q) : pc[u] = "asleep"
  BY <1>1, CvrInside, WFields DEF CvrInv, CvrFields, CvrQueue, ListsOK
<1> HIDE DEF q, rest
<1>3. CASE w' = WakeOne(w, q) /\ obj' = [obj EXCEPT !.flag = "WAKEUP", !.list = rest]
  <2>1. WokenFirst(w, w', q, rest)
    BY <1>2, <1>3, WakeOneWakes DEF rest
  <2>2. CASE ToSet(q) \cap w.susp = {} /\ WokenUp(w, w', ToSet(q)) /\ rest = q
    <3>1. w'.susp = {}
      BY <1>2, <2>2 DEF WokenUp
    <3>2. /\ obj' \in CvrFields /\ obj'.list = q /\ obj'.cnt = obj.cnt
          /\ obj'.owner = obj.owner /\ obj'.items = obj.items
      BY <1>2, <1>3, <2>2 DEF CvrFields
    <3> QED BY <1>1, <1>2, <2>2, <3>1, <3>2, CvrWakes DEF q
  <2>3. ASSUME NEW k \in DOMAIN q, q[k] \in w.susp, WokenUp(w, w', First(q, k)),
               rest = RemoveAt(q, k)
        PROVE  CvrInv'
    <3>1. rest \in Seq(Thread) /\ IsInjective(rest) /\ ToSet(rest) = ToSet(q) \ {q[k]}
      BY <1>2, <2>3, RemoveAtProperties
    <3>2. q[k] \in First(q, k)
      BY <1>2, <2>3 DEF First
    <3>3. w'.susp \subseteq ToSet(rest)
      BY <1>2, <2>3, <3>1, <3>2 DEF WokenUp
    <3>4. /\ obj' \in CvrFields /\ obj'.list = rest /\ obj'.cnt = obj.cnt
          /\ obj'.owner = obj.owner /\ obj'.items = obj.items
      BY <1>2, <1>3, <3>1 DEF CvrFields
    <3> DEFINE S == First(q, k)
    <3>5. \E u \in S : u \in w.susp
      BY <2>3, <3>2
    <3>6. WokenUp(w, w', S)
      BY <2>3
    <3> HIDE DEF S
    <3>7. ToSet(rest) \subseteq ToSet(obj.list)
      BY <3>1 DEF q
    <3> QED BY <1>1, <3>1, <3>3, <3>4, <3>5, <3>6, <3>7, CvrWakes
  <2> QED BY <2>1, <2>2, <2>3 DEF WokenFirst
<1>4. CASE w' = WakeAll(w, q) /\ obj' = [obj EXCEPT !.flag = "WAKEUP"]
  <2>1. WokenUp(w, w', ToSet(q))
    BY <1>2, <1>4, WakeAllWakes
  <2>2. w'.susp = {}
    BY <1>2, <2>1 DEF WokenUp
  <2>3. /\ obj' \in CvrFields /\ obj'.list = q /\ obj'.cnt = obj.cnt
        /\ obj'.owner = obj.owner /\ obj'.items = obj.items
    BY <1>2, <1>4 DEF CvrFields, q
  <2> QED BY <1>1, <1>2, <2>1, <2>2, <2>3, CvrWakes DEF q
<1>5. CASE ~ obj.cnt > 0 /\ w' = w /\ obj' = obj
  <2> DEFINE A == CvrCounted(pc)
  <2>1. A \in SUBSET Thread /\ obj.cnt = Cardinality(A) /\ w.susp \subseteq A
    BY <1>2 DEF CvrInv, CvrMonitor, CvrCounted
  <2> HIDE DEF A
  <2>2. A = {}
    BY <1>5, <2>1, CountOne
  <2>3. w.susp = {}
    BY <2>1, <2>2
  <2>4. WokenUp(w, w', {})
    <3>1. w.err = [u \in Thread |-> IF u \in {} THEN "EOK" ELSE w.err[u]]
      BY <1>2
    <3> QED BY <1>2, <1>5, <3>1 DEF WokenUp
  <2> QED BY <1>1, <1>2, <1>5, <2>3, <2>4, CvrWakes DEF q
<1> QED BY <1>1, <1>3, <1>4, <1>5

(* No step of the condition variable breaks the invariant.                  *)
LEMMA CvrKeeps ==
  ASSUME Nested = FALSE, CvrInv, Cvr!Next
  PROVE  CvrInv'
BY CvrLockKeeps, CvrConsumeKeeps, CvrProduceKeeps, CvrOwnerKeeps, CvrSleepKeeps,
   CvrLeaveKeeps, CvrSignalKeeps, CvrWaits DEF Cvr!Next

(* It gives what the runs check.                                            *)
LEMMA CvrServes ==
  ASSUME CvrInv
  PROVE  Cvr!SignalsServed
<1> DEFINE A == {t \in Thread :
                   \/ pc[t] = "signal"
                   \/ /\ pc[t] \in {"asleep", "leave", "relock", "retest"}
                      /\ ~ Cvr!Asleep(t) /\ w.err[t] = "EOK"}
<1>1. /\ \A t \in ToSet(obj.list) : pc[t] = "asleep"
      /\ w.susp \subseteq ToSet(obj.list)
  BY DEF CvrInv, CvrQueue
<1>2. A = CvrComing(w, pc)
  BY <1>1 DEF CvrComing, Cvr!Asleep
<1>3. ASSUME NEW t \in Thread, Cvr!Asleep(t), w.timer[t] \notin {"firing", "missed"}
      PROVE  CvrSleeps(w) # {}
  BY <1>3 DEF Cvr!Asleep, CvrSleeps
<1> HIDE DEF A
<1>4. (\E t \in Thread : Cvr!Asleep(t) /\ w.timer[t] \notin {"firing", "missed"}) =>
        obj.items <= Cardinality(A)
  BY <1>2, <1>3 DEF CvrInv, CvrTold
<1> QED BY <1>4 DEF Cvr!SignalsServed, Cvr!Cardinality, Cardinality, A

-----------------------------------------------------------------------------
(* The interrupts of pins. *)

(* The lines, and the edges.                                                *)
PinLine == {5, 6}
PinEdge == {"rising", "falling"}

PinState ==
  [vector : [PinLine -> SUBSET PinLine],
   tab : [PinLine -> [pin : Pin!Pin \cup {Null}, mode : SUBSET PinEdge]],
   mask : SUBSET PinLine, inten : SUBSET PinLine, flag : SUBSET PinLine,
   polarity : [PinLine -> SUBSET PinEdge], port : [PinLine -> Bit \cup {Null}],
   on : SUBSET SUBSET PinLine, pending : SUBSET SUBSET PinLine,
   enabled : SUBSET Pin!Pin, due : SUBSET Pin!Pin]

(* A vector is that of each of its lines.  The registers of a pin that its  *)
(* user has enabled are as they were set, whatever became of the other pins *)
(* of its line and its vector; and a pin with an edge to be told of has its *)
(* flag, and its vector is pending.                                         *)
PinInv ==
  /\ obj \in PinState
  /\ \A l \in PinLine : /\ l \in obj.vector[l]
                        /\ \A m \in obj.vector[l] : obj.vector[m] = obj.vector[l]
  /\ \A p \in obj.enabled :
       /\ obj.tab[p[2]].pin = p /\ obj.port[p[2]] = p[1]
       /\ obj.polarity[p[2]] = obj.tab[p[2]].mode
       /\ p[2] \in obj.mask /\ p[2] \in obj.inten /\ obj.vector[p[2]] \in obj.on
  /\ \A p \in obj.due : /\ p \in obj.enabled
                        /\ p[2] \in obj.flag /\ obj.vector[p[2]] \in obj.pending

(* Initially.                                                               *)
LEMMA PinStarts ==
  ASSUME Pin!Init
  PROVE  PinInv
<1>1. PICK vector \in {[l \in PinLine |-> {l}], [l \in PinLine |-> PinLine]} :
        obj = [vector |-> vector, tab |-> [l \in PinLine |-> Pin!Free],
               mask |-> {}, inten |-> {}, flag |-> {},
               polarity |-> [l \in PinLine |-> {}], port |-> [l \in PinLine |-> Null],
               on |-> {}, pending |-> {}, enabled |-> {}, due |-> {}]
  BY DEF Pin!Init, PinLine
<1>2. vector \in [PinLine -> SUBSET PinLine]
  OBVIOUS
<1>3. \A l \in PinLine : l \in vector[l] /\ \A m \in vector[l] : vector[m] = vector[l]
  OBVIOUS
<1>4. [l \in PinLine |-> Pin!Free] \in [PinLine -> [pin : Pin!Pin \cup {Null}, mode : SUBSET PinEdge]]
  BY DEF Pin!Free
<1>5. /\ [l \in PinLine |-> {}] \in [PinLine -> SUBSET PinEdge]
      /\ [l \in PinLine |-> Null] \in [PinLine -> Bit \cup {Null}]
  OBVIOUS
<1>6. obj \in PinState /\ obj.vector = vector /\ obj.enabled = {} /\ obj.due = {}
  BY <1>1, <1>2, <1>4, <1>5 DEF PinState
<1> QED BY <1>3, <1>6 DEF PinInv

(* The fields of the record.                                                *)
LEMMA PinFields ==
  ASSUME NEW s \in PinState
  PROVE  /\ s.vector \in [PinLine -> SUBSET PinLine]
         /\ s.tab \in [PinLine -> [pin : Pin!Pin \cup {Null}, mode : SUBSET PinEdge]]
         /\ s.mask \in SUBSET PinLine /\ s.inten \in SUBSET PinLine /\ s.flag \in SUBSET PinLine
         /\ s.polarity \in [PinLine -> SUBSET PinEdge] /\ s.port \in [PinLine -> Bit \cup {Null}]
         /\ s.on \in SUBSET SUBSET PinLine /\ s.pending \in SUBSET SUBSET PinLine
         /\ s.enabled \in SUBSET Pin!Pin /\ s.due \in SUBSET Pin!Pin
  BY DEF PinState

(* A pin is a port and a line, and none is Null.                            *)
LEMMA PinParts ==
  ASSUME NEW p \in Pin!Pin
  PROVE  /\ p[1] \in Bit /\ p[2] \in PinLine /\ p # Null /\ Pin!LineOf(p) = p[2]
         /\ \A q \in Pin!Pin : p[1] = q[1] /\ p[2] = q[2] => p = q
<1>1. p # Null
  BY ObjectsAssumption DEF Pin!PinAssumption, Pin!Pin
<1> QED BY <1>1 DEF Pin!Pin, Pin!LineOf, PinLine

(* PIN_IRQ attach: a line that is free has no pin enabled.                  *)
LEMMA PinAttachKeeps ==
  ASSUME PinInv, NEW p \in Pin!Pin, NEW mode \in Pin!Mode, Pin!Attach(p, mode)
  PROVE  PinInv'
<1> DEFINE l == p[2]
           e == [pin |-> p, mode |-> mode]
           tab == [obj.tab EXCEPT ![l] = e]
<1>1. obj \in PinState /\ l \in PinLine /\ Pin!LineOf(p) = l
  BY PinParts DEF PinInv
<1>2. obj.tab[l] = Pin!Free /\ obj' = [obj EXCEPT !.tab = tab]
  BY <1>1 DEF Pin!Attach
<1>3. e \in [pin : Pin!Pin \cup {Null}, mode : SUBSET PinEdge]
  BY DEF Pin!Mode, PinEdge
<1> HIDE DEF e
<1>4. /\ tab \in [PinLine -> [pin : Pin!Pin \cup {Null}, mode : SUBSET PinEdge]]
      /\ \A m \in PinLine \ {l} : tab[m] = obj.tab[m]
  BY <1>1, <1>3, PinFields
<1> HIDE DEF tab
<1>5. /\ obj' \in PinState /\ obj'.tab = tab
      /\ obj'.vector = obj.vector /\ obj'.mask = obj.mask /\ obj'.inten = obj.inten
      /\ obj'.flag = obj.flag /\ obj'.polarity = obj.polarity /\ obj'.port = obj.port
      /\ obj'.on = obj.on /\ obj'.pending = obj.pending
      /\ obj'.enabled = obj.enabled /\ obj'.due = obj.due
  BY <1>1, <1>2, <1>4, Zenon DEF PinState
<1>6. \A q \in obj.enabled : q \in Pin!Pin /\ q[2] \in PinLine /\ q # Null
  BY <1>1, PinFields, PinParts
<1>7. \A q \in obj.enabled : q[2] # l
  BY <1>2, <1>6 DEF PinInv, Pin!Free
<1>8. \A q \in obj.enabled : tab[q[2]] = obj.tab[q[2]]
  BY <1>4, <1>6, <1>7
<1> QED BY <1>5, <1>8 DEF PinInv
(* Detaching takes the pin from those that are enabled.                     *)
LEMMA PinDetachKeeps ==
  ASSUME PinInv, NEW p \in Pin!Pin, Pin!Detach(p)
  PROVE  PinInv'
<1> DEFINE l == p[2]
           tab == [obj.tab EXCEPT ![l] = Pin!Free]
           en == obj.enabled \ {p}
           due == obj.due \ {p}
<1>1. obj \in PinState /\ l \in PinLine /\ Pin!LineOf(p) = l
  BY PinParts DEF PinInv
<1>2. obj.tab[l].pin = p /\ obj' = [obj EXCEPT !.tab = tab, !.enabled = en, !.due = due]
  BY <1>1 DEF Pin!Detach, Pin!Attached
<1>3. Pin!Free \in [pin : Pin!Pin \cup {Null}, mode : SUBSET PinEdge]
  BY DEF Pin!Free
<1>4. /\ tab \in [PinLine -> [pin : Pin!Pin \cup {Null}, mode : SUBSET PinEdge]]
      /\ \A m \in PinLine \ {l} : tab[m] = obj.tab[m]
  BY <1>1, <1>3, PinFields
<1>5. en \in SUBSET Pin!Pin /\ due \in SUBSET Pin!Pin /\ en \subseteq obj.enabled /\ due \subseteq obj.due
  BY <1>1, PinFields
<1>6. \A q \in en : q \in Pin!Pin /\ q[2] \in PinLine /\ q[2] # l
  <2>1. \A q \in en : q \in Pin!Pin /\ q[2] \in PinLine /\ q # p /\ obj.tab[q[2]].pin = q
    BY <1>5, PinParts DEF PinInv
  <2> HIDE DEF en, l
  <2> QED BY <1>2, <2>1
<1>7. \A q \in due : q \in en /\ q[2] \in obj.flag /\ obj.vector[q[2]] \in obj.pending
  BY DEF PinInv
<1> HIDE DEF tab, en, due
<1>8. /\ obj' \in PinState /\ obj'.tab = tab
      /\ obj'.vector = obj.vector /\ obj'.mask = obj.mask /\ obj'.inten = obj.inten
      /\ obj'.flag = obj.flag /\ obj'.polarity = obj.polarity /\ obj'.port = obj.port
      /\ obj'.on = obj.on /\ obj'.pending = obj.pending
      /\ obj'.enabled = en /\ obj'.due = due
  BY <1>1, <1>2, <1>4, <1>5, Zenon DEF PinState
<1>9. \A q \in en : tab[q[2]] = obj.tab[q[2]]
  BY <1>4, <1>6
<1> QED BY <1>5, <1>7, <1>8, <1>9 DEF PinInv

(* Enabling sets the registers of the line, which no other pin has enabled. *)
LEMMA PinEnableKeeps ==
  ASSUME PinInv, NEW p \in Pin!Pin, Pin!IrqEnable(p)
  PROVE  PinInv'
<1> DEFINE l == p[2]
           port == [obj.port EXCEPT ![l] = p[1]]
           pol == [obj.polarity EXCEPT ![l] = obj.tab[l].mode]
           inten == obj.inten \cup {l}
           mask == obj.mask \cup {l}
           on == obj.on \cup {obj.vector[l]}
           en == obj.enabled \cup {p}
           pend == obj.pending \cup {obj.vector[m] : m \in obj.flag \cap inten}
<1>1. obj \in PinState /\ l \in PinLine /\ p[1] \in Bit /\ Pin!LineOf(p) = l
  BY PinParts DEF PinInv
<1>2. obj.tab[l].pin = p
  BY <1>1 DEF Pin!IrqEnable, Pin!Attached
<1>3. obj' = [obj EXCEPT !.port = port, !.polarity = pol, !.inten = inten, !.mask = mask,
                         !.on = on, !.enabled = en, !.pending = pend]
  BY <1>1 DEF Pin!IrqEnable, Pin!Requested, PinState
<1>4. port \in [PinLine -> Bit \cup {Null}] /\ pol \in [PinLine -> SUBSET PinEdge]
  BY <1>1, PinFields
<1>5. /\ inten \in SUBSET PinLine /\ mask \in SUBSET PinLine /\ en \in SUBSET Pin!Pin
      /\ on \in SUBSET SUBSET PinLine /\ pend \in SUBSET SUBSET PinLine
  BY <1>1, PinFields
<1>6. \A q \in en : q \in Pin!Pin /\ q[2] \in PinLine /\ obj.tab[q[2]].pin = q /\ (q = p \/ q[2] # l)
  <2>1. \A q \in obj.enabled : q \in Pin!Pin /\ q[2] \in PinLine /\ obj.tab[q[2]].pin = q
    BY <1>1, PinFields, PinParts DEF PinInv
  <2> HIDE DEF l
  <2> QED BY <1>1, <1>2, <2>1 DEF l
<1>7. \A q \in en : /\ port[q[2]] = q[1] /\ pol[q[2]] = obj.tab[q[2]].mode
                    /\ q[2] \in mask /\ q[2] \in inten /\ obj.vector[q[2]] \in on
  <2>1. port[l] = p[1] /\ pol[l] = obj.tab[l].mode
    BY <1>1, PinFields
  <2>2. \A m \in PinLine \ {l} : port[m] = obj.port[m] /\ pol[m] = obj.polarity[m]
    BY <1>1, PinFields
  <2> HIDE DEF port, pol, l
  <2>3. SUFFICES ASSUME NEW q \in en
                 PROVE  /\ port[q[2]] = q[1] /\ pol[q[2]] = obj.tab[q[2]].mode
                        /\ q[2] \in mask /\ q[2] \in inten /\ obj.vector[q[2]] \in on
    OBVIOUS
  <2>4. CASE q = p
    BY <2>1, <2>4 DEF l
  <2>5. CASE q # p
    BY <1>6, <2>2, <2>5 DEF PinInv
  <2> QED BY <2>4, <2>5
<1>8. obj.enabled \subseteq en /\ obj.pending \subseteq pend
  OBVIOUS
<1> HIDE DEF port, pol, inten, mask, on, en, pend
<1>9. /\ obj' \in PinState /\ obj'.tab = obj.tab
      /\ obj'.vector = obj.vector /\ obj'.mask = mask /\ obj'.inten = inten
      /\ obj'.flag = obj.flag /\ obj'.polarity = pol /\ obj'.port = port
      /\ obj'.on = on /\ obj'.pending = pend
      /\ obj'.enabled = en /\ obj'.due = obj.due
  BY <1>1, <1>3, <1>4, <1>5, Zenon DEF PinState
<1>10. \A q \in obj.due : q \in en /\ q[2] \in obj.flag /\ obj.vector[q[2]] \in pend
  BY <1>8 DEF PinInv
<1> QED BY <1>6, <1>7, <1>9, <1>10 DEF PinInv

(* Disabling leaves the vector on as long as another of its lines is.       *)
LEMMA PinDisableKeeps ==
  ASSUME PinInv, NEW p \in Pin!Pin, Pin!IrqDisable(p)
  PROVE  PinInv'
<1> DEFINE l == p[2]
           others == (obj.vector[l] \cap obj.mask) \ {l}
           mask == obj.mask \ {l}
           inten == obj.inten \ {l}
           on == IF others = {} THEN obj.on \ {obj.vector[l]} ELSE obj.on
           en == obj.enabled \ {p}
           due == obj.due \ {p}
<1>1. obj \in PinState /\ l \in PinLine /\ Pin!LineOf(p) = l
  BY PinParts DEF PinInv
<1>2. obj.tab[l].pin = p
  BY <1>1 DEF Pin!IrqDisable, Pin!Attached
<1>3. obj' = [obj EXCEPT !.inten = inten, !.mask = mask,
                         !.on = on, !.enabled = en, !.due = due]
  BY <1>1 DEF Pin!IrqDisable
<1>4. /\ inten \in SUBSET PinLine /\ mask \in SUBSET PinLine /\ en \in SUBSET Pin!Pin
      /\ on \in SUBSET SUBSET PinLine /\ due \in SUBSET Pin!Pin
  BY <1>1, PinFields
<1>5. \A q \in en : q \in obj.enabled /\ q \in Pin!Pin /\ q[2] \in PinLine /\ q[2] # l
  <2>1. \A q \in en : q \in obj.enabled /\ q \in Pin!Pin /\ q[2] \in PinLine /\ q # p /\ obj.tab[q[2]].pin = q
    BY <1>4, PinParts DEF PinInv
  <2> HIDE DEF en, l
  <2> QED BY <1>2, <2>1
<1>6. \A q \in en : q[2] \in mask /\ q[2] \in inten /\ obj.vector[q[2]] \in on
  <2> SUFFICES ASSUME NEW q \in en
               PROVE  q[2] \in mask /\ q[2] \in inten /\ obj.vector[q[2]] \in on
    OBVIOUS
  <2>1. q \in obj.enabled /\ q[2] \in PinLine /\ q[2] # l
    BY <1>5
  <2>2. q[2] \in obj.mask /\ q[2] \in obj.inten /\ obj.vector[q[2]] \in obj.on
    BY <2>1 DEF PinInv
  <2>3. obj.vector[q[2]] # obj.vector[l] \/ q[2] \in others
    BY <2>1, <2>2 DEF PinInv
  <2> HIDE DEF l
  <2> QED BY <2>1, <2>2, <2>3
<1>7. \A q \in due : q \in en /\ q[2] \in obj.flag /\ obj.vector[q[2]] \in obj.pending
  BY DEF PinInv
<1> HIDE DEF mask, inten, on, en, due
<1>8. /\ obj' \in PinState /\ obj'.tab = obj.tab
      /\ obj'.vector = obj.vector /\ obj'.mask = mask /\ obj'.inten = inten
      /\ obj'.flag = obj.flag /\ obj'.polarity = obj.polarity /\ obj'.port = obj.port
      /\ obj'.on = on /\ obj'.pending = obj.pending
      /\ obj'.enabled = en /\ obj'.due = due
  BY <1>1, <1>3, <1>4, Zenon DEF PinState
<1> QED BY <1>5, <1>6, <1>7, <1>8 DEF PinInv

(* A handler serves every line that has a flag, and is requested again for  *)
(* what came meanwhile.                                                     *)
LEMMA PinHandlerKeeps ==
  ASSUME PinInv, NEW l \in PinLine, Pin!Handler(obj.vector[l])
  PROVE  PinInv'
<1> DEFINE v == obj.vector[l]
           served == IF Pin!Cardinality(v) = 1 THEN v ELSE v \cap obj.flag
           flag == obj.flag \ served
           due == obj.due \ {obj.tab[m].pin : m \in served}
           pend == (obj.pending \ {v}) \cup {obj.vector[m] : m \in flag \cap obj.inten}
<1>1. obj \in PinState
  BY DEF PinInv
<1>2. obj' = [obj EXCEPT !.flag = flag, !.due = due, !.pending = pend]
  <2> DEFINE s == [obj EXCEPT !.pending = obj.pending \ {v}, !.flag = flag, !.due = due]
  <2>1. obj' = Pin!Requested(s)
    BY DEF Pin!Handler
  <2> HIDE DEF flag, due, v
  <2>2. /\ s.pending = obj.pending \ {v} /\ s.vector = obj.vector
        /\ s.flag = flag /\ s.inten = obj.inten
    BY <1>1, Zenon DEF PinState
  <2>3. obj' = [s EXCEPT !.pending = pend]
    <3> HIDE DEF s
    <3> QED BY <2>1, <2>2 DEF Pin!Requested
  <2> HIDE DEF pend
  <2> QED BY <1>1, <2>3, Zenon DEF PinState
<1>3. /\ flag \in SUBSET PinLine /\ due \in SUBSET Pin!Pin /\ pend \in SUBSET SUBSET PinLine
      /\ v \in SUBSET PinLine
  BY <1>1, PinFields
<1>4. served \subseteq v /\ v \cap obj.flag \subseteq served
  OBVIOUS
<1> HIDE DEF served
<1>5. \A q \in due : q \in obj.enabled /\ q[2] \in flag /\ obj.vector[q[2]] \in pend
  <2> SUFFICES ASSUME NEW q \in due
               PROVE  q \in obj.enabled /\ q[2] \in flag /\ obj.vector[q[2]] \in pend
    OBVIOUS
  <2>1. /\ q \in obj.enabled /\ q[2] \in obj.flag /\ obj.vector[q[2]] \in obj.pending
        /\ obj.tab[q[2]].pin = q /\ q[2] \in PinLine
    BY <1>3, PinParts DEF PinInv
  <2>2. q[2] \notin served
    BY <2>1
  <2>3. q[2] \notin v
    BY <1>4, <2>1, <2>2
  <2>4. obj.vector[q[2]] # v
    BY <2>1, <2>3 DEF PinInv
  <2> HIDE DEF v
  <2> QED BY <2>1, <2>2, <2>4
<1> HIDE DEF flag, due, pend
<1>6. /\ obj' \in PinState /\ obj'.tab = obj.tab
      /\ obj'.vector = obj.vector /\ obj'.mask = obj.mask /\ obj'.inten = obj.inten
      /\ obj'.flag = flag /\ obj'.polarity = obj.polarity /\ obj'.port = obj.port
      /\ obj'.on = obj.on /\ obj'.pending = pend
      /\ obj'.enabled = obj.enabled /\ obj'.due = due
  BY <1>1, <1>2, <1>3, Zenon DEF PinState
<1> QED BY <1>5, <1>6 DEF PinInv

(* An edge at a pin whose user is to be told of it sets the flag.           *)
LEMMA PinLevelKeeps ==
  ASSUME PinInv, NEW p \in Pin!Pin, NEW e \in PinEdge, Pin!Level(p, e)
  PROVE  PinInv'
<1> DEFINE l == p[2]
           seen == obj.port[l] = p[1] /\ e \in obj.polarity[l]
           tell == p \in obj.enabled /\ e \in obj.tab[l].mode
           due == IF tell THEN obj.due \cup {p} ELSE obj.due
           flag == obj.flag \cup {l}
           pend == obj.pending \cup {obj.vector[m] : m \in flag \cap obj.inten}
<1>1. obj \in PinState /\ l \in PinLine /\ Pin!LineOf(p) = l
  BY PinParts DEF PinInv
<1>2. /\ flag \in SUBSET PinLine /\ due \in SUBSET Pin!Pin /\ pend \in SUBSET SUBSET PinLine
  BY <1>1, PinFields
<1>3. tell => seen /\ l \in obj.inten
  BY DEF PinInv
<1>4. CASE seen /\ obj' = [obj EXCEPT !.due = due, !.flag = flag, !.pending = pend]
  <2>1. \A q \in due : q \in obj.enabled /\ q[2] \in flag /\ obj.vector[q[2]] \in pend
    <3>1. \A q \in obj.due : q \in obj.enabled /\ q[2] \in flag /\ obj.vector[q[2]] \in pend
      BY DEF PinInv
    <3>2. tell => p \in obj.enabled /\ p[2] \in flag /\ obj.vector[p[2]] \in pend
      BY <1>3
    <3> QED BY <3>1, <3>2
  <2> HIDE DEF flag, due, pend
  <2>2. /\ obj' \in PinState /\ obj'.tab = obj.tab
        /\ obj'.vector = obj.vector /\ obj'.mask = obj.mask /\ obj'.inten = obj.inten
        /\ obj'.flag = flag /\ obj'.polarity = obj.polarity /\ obj'.port = obj.port
        /\ obj'.on = obj.on /\ obj'.pending = pend
        /\ obj'.enabled = obj.enabled /\ obj'.due = due
    BY <1>1, <1>2, <1>4, Zenon DEF PinState
  <2> QED BY <2>1, <2>2 DEF PinInv
<1>5. CASE ~ (seen /\ l \in obj.inten) /\ obj' = [obj EXCEPT !.due = due]
  <2>1. due = obj.due
    BY <1>3, <1>5
  <2>2. obj' = obj
    BY <1>1, <1>5, <2>1, Zenon DEF PinState
  <2> QED BY <2>2 DEF PinInv
<1>6. seen /\ obj' = Pin!Requested([[obj EXCEPT !.due = due] EXCEPT !.flag = flag])
      => obj' = [obj EXCEPT !.due = due, !.flag = flag, !.pending = pend]
  BY <1>1, <1>2 DEF Pin!Requested, PinState
<1> QED BY <1>1, <1>4, <1>5, <1>6 DEF Pin!Level

(* No step of the pins breaks the invariant.                                *)
LEMMA PinKeeps ==
  ASSUME PinInv, Pin!Next
  PROVE  PinInv'
BY PinAttachKeeps, PinDetachKeeps, PinEnableKeeps, PinDisableKeeps, PinHandlerKeeps,
   PinLevelKeeps DEF Pin!Next, PinLine, PinEdge

(* It gives what the runs check.                                            *)
LEMMA PinServes ==
  ASSUME PinInv
  PROVE  Pin!EdgesTold
<1>1. \A p \in obj.due : Pin!LineOf(p) = p[2]
  BY PinFields, PinParts DEF PinInv
<1> QED BY <1>1 DEF PinInv, Pin!EdgesTold, Pin!Attached

-----------------------------------------------------------------------------
(* The objects. *)

(* The object looked at has its invariant.                                  *)
ServedInv ==
  /\ kind = "semaphore"  => SemInv
  /\ kind = "event"      => EvtInv
  /\ kind = "mailbox"    => BoxInv
  /\ kind = "dataqueue"  => DtqInv
  /\ kind = "workqueue"  => WkqInv

TakenInv == kind = "completion" => CmpInv

ReadInv ==
  /\ kind = "pins" => PinInv
  /\ kind = "serial" => SerInv
  /\ kind = "waitqueue" => WtqInv
  /\ kind = "condvar" => CvrInv

(* Initially.                                                               *)
LEMMA InitServes ==
  ASSUME Init
  PROVE  ServedInv /\ TakenInv /\ ReadInv
<1>1. kind = "semaphore" => SemInv
  BY SemStarts DEF Init
<1>2. kind = "event" => EvtInv
  BY EvtStarts DEF Init
<1>3. kind = "mailbox" => BoxInv
  BY BoxStarts DEF Init
<1>4. kind = "dataqueue" => DtqInv
  BY DtqStarts DEF Init
<1>5. kind = "workqueue" => WkqInv
  BY WkqStarts DEF Init
<1>6. kind = "completion" => CmpInv
  BY CmpStarts DEF Init
<1>7. kind = "pins" => PinInv
  BY PinStarts DEF Init
<1>8. kind = "serial" => SerInv
  BY SerStarts DEF Init
<1>9. kind = "waitqueue" => WtqInv
  BY WtqStarts DEF Init
<1>10. kind = "condvar" => CvrInv
  BY CvrStarts DEF Init
<1> QED BY <1>1, <1>2, <1>3, <1>4, <1>5, <1>6, <1>7, <1>8, <1>9, <1>10
        DEF ServedInv, TakenInv, ReadInv

(* A step that changes nothing.                                             *)
LEMMA StutterServes ==
  ASSUME UNCHANGED vars
  PROVE  (ServedInv => ServedInv') /\ (TakenInv => TakenInv') /\ (ReadInv => ReadInv')
<1> USE DEF vars
<1>1. SemInv => SemInv'
  BY DEF SemInv
<1>2. EvtInv => EvtInv'
  BY DEF EvtInv
<1>3. BoxInv => BoxInv'
  BY DEF BoxInv
<1>4. DtqInv => DtqInv'
  BY DEF DtqInv
<1>5. WkqInv => WkqInv'
  BY DEF WkqInv
<1>6. CmpInv => CmpInv'
  BY DEF CmpInv
<1>7. PinInv => PinInv'
  BY DEF PinInv
<1>8. SerInv => SerInv'
  BY DEF SerInv, SerHandlers
<1>9. WtqInv => WtqInv'
  BY DEF WtqInv
<1>10. CvrInv => CvrInv'
  BY DEF CvrInv
<1> QED BY <1>1, <1>2, <1>3, <1>4, <1>5, <1>6, <1>7, <1>8, <1>9, <1>10
        DEF ServedInv, TakenInv, ReadInv

(* A step of the object.                                                    *)
LEMMA StepServes ==
  ASSUME Nested = FALSE, ServedInv, Next
  PROVE  ServedInv'
<1>1. kind' = kind
  BY DEF Next
<1>2. kind = "semaphore" => SemInv'
  BY SemKeeps DEF ServedInv, Next
<1>3. kind = "event" => EvtInv'
  BY EvtKeeps DEF ServedInv, Next
<1>4. kind = "mailbox" => BoxInv'
  BY BoxKeeps DEF ServedInv, Next
<1>5. kind = "dataqueue" => DtqInv'
  BY DtqKeeps DEF ServedInv, Next
<1>6. kind = "workqueue" => WkqInv'
  BY WkqKeeps DEF ServedInv, Next
<1> QED BY <1>1, <1>2, <1>3, <1>4, <1>5, <1>6 DEF ServedInv

(* A step of the completion.                                                *)
LEMMA StepTakes ==
  ASSUME TakenInv, Next
  PROVE  TakenInv'
<1>1. kind' = kind /\ (kind = "completion" => CmpInv')
  BY CmpKeeps DEF TakenInv, Next
<1> QED BY <1>1 DEF TakenInv

(* A step of one that is read.                                              *)
LEMMA StepReads ==
  ASSUME Nested = FALSE, ReadInv, Next
  PROVE  ReadInv'
<1>1. kind' = kind
  BY DEF Next
<1>2. kind = "pins" => PinInv'
  BY PinKeeps DEF ReadInv, Next
<1>3. kind = "serial" => SerInv'
  BY SerKeeps DEF ReadInv, Next
<1>4. kind = "waitqueue" => WtqInv'
  BY WtqKeeps DEF ReadInv, Next
<1>5. kind = "condvar" => CvrInv'
  BY CvrKeeps DEF ReadInv, Next
<1> QED BY <1>1, <1>2, <1>3, <1>4, <1>5 DEF ReadInv

(* So the objects keep their invariants,                                    *)
THEOREM ObjectsServe == ASSUME Nested = FALSE PROVE Spec => []ServedInv
<1>1. Init => ServedInv
  BY InitServes
<1>2. ServedInv /\ [Next]_vars => ServedInv'
  BY StepServes, StutterServes
<1> QED BY <1>1, <1>2, PTL DEF Spec

(* and the completion keeps its own whatever nests.                         *)
THEOREM CompletionServes == Spec => []TakenInv
<1>1. Init => TakenInv
  BY InitServes
<1>2. TakenInv /\ [Next]_vars => TakenInv'
  BY StepTakes, StutterServes
<1> QED BY <1>1, <1>2, PTL DEF Spec

(* No thread sleeps beside a token of a semaphore, and none is lost between *)
(* rt_sem_release and the thread it is for.                                 *)
THEOREM TokensServed == ASSUME Nested = FALSE PROVE Spec => []SemaphoreServed
<1>1. ServedInv => SemaphoreServed
  BY SemServes DEF ServedInv, SemaphoreServed
<1> QED BY <1>1, ObjectsServe, PTL

(* No thread sleeps while the events it waits for are set, whatever         *)
(* rt_event_send cleared for those before it in the list.                   *)
THEOREM NoneMissesEvents == ASSUME Nested = FALSE PROVE Spec => []EventsSeen
<1>1. ServedInv => EventsSeen
  BY EvtServes DEF ServedInv, EventsSeen
<1> QED BY <1>1, ObjectsServe, PTL

(* rt_event_send and rt_event_recv clear an event only for a thread that    *)
(* receives it.                                                             *)
THEOREM NoneDropsEvents == ASSUME Nested = FALSE PROVE Spec => EventsKept
<1>1. ServedInv /\ [Next]_vars => [kind = "event" => Evt!NotDropped]_vars
  BY EvtDrops DEF ServedInv, Next
<1> QED BY <1>1, ObjectsServe, PTL DEF Spec, EventsKept

(* While threads wait for a mail, each mail has a receiver on its way; and  *)
(* while threads wait for a place, each place has a sender on its way.      *)
THEOREM MailServed == ASSUME Nested = FALSE PROVE Spec => []MailboxServed
<1>1. ServedInv => MailboxServed
  BY BoxServes DEF ServedInv, MailboxServed
<1> QED BY <1>1, ObjectsServe, PTL

(* The same of the poppers of a data queue; whatever its low-water mark,    *)
(* its pushers wait only while its data and the pushers on their way are    *)
(* more than the mark, or a reset is on its way.                            *)
THEOREM DataServed == ASSUME Nested = FALSE PROVE Spec => []DataQueueServed
<1>1. ServedInv => DataQueueServed
  BY DtqServes DEF ServedInv, DataQueueServed
<1> QED BY <1>1, ObjectsServe, PTL

(* The worker of a work queue never sleeps beside a work submitted, nor     *)
(* without its timer beside a delayed one.                                  *)
THEOREM WorksServed == ASSUME Nested = FALSE PROVE Spec => []WorkServed
<1>1. ServedInv => WorkServed
  BY WkqServes DEF ServedInv, WorkServed
<1> QED BY <1>1, ObjectsServe, PTL

(* When the worker goes on after a work, everybody has been woken who waits *)
(* in rt_workqueue_cancel_work_sync for its end.                            *)
THEOREM WorksTold == ASSUME Nested = FALSE PROVE Spec => WorkTold
<1>1. ServedInv /\ [Next]_vars => [kind = "workqueue" => Wkq!AllTold]_vars
  BY WkqTells DEF ServedInv, Next
<1> QED BY <1>1, ObjectsServe, PTL DEF Spec, WorkTold

(* The waiter of a completion is found by rt_completion_done, and by its    *)
(* time-out, handlers nesting or not.                                       *)
THEOREM CompletionFound == Spec => []CompletionServed
<1>1. TakenInv => CompletionServed
  BY CmpServes DEF TakenInv, CompletionServed
<1> QED BY <1>1, CompletionServes, PTL

(* A completion is used up only by a wait that succeeds.                    *)
THEOREM CompletionUsed == Spec => CompletionTaken
<1>1. TakenInv /\ [Next]_vars => [kind = "completion" => Cmp!DoneTaken]_vars
  BY CmpTakes DEF TakenInv, Next
<1> QED BY <1>1, CompletionServes, PTL DEF Spec, CompletionTaken

(* A semaphore implements Tokens: its value, the threads that were given a  *)
(* token, and its resets are those of a counter of tokens.                  *)
THEOREM SemaphoreImplementsTokens ==
  ASSUME Nested = FALSE
  PROVE  Spec => /\ kind = "semaphore" => Sem!Abstract!Init
                 /\ [][kind = "semaphore" => [Sem!Abstract!Next]_(Sem!Abstract!vars)]_vars
<1>1. Init => (kind = "semaphore" => Sem!Abstract!Init)
  BY SemRefinesInit DEF Init
<1>2. ServedInv /\ [Next]_vars =>
        [kind = "semaphore" => [Sem!Abstract!Next]_(Sem!Abstract!vars)]_vars
  BY SemRefines DEF ServedInv, Next
<1> QED BY <1>1, <1>2, ObjectsServe, PTL DEF Spec

(* A reader that looks and then sleeps misses nothing that comes between    *)
(* the two: the shell its bytes, the waiter of a wait queue its wake-up,    *)
(* those at a condition variable the items they are signalled, the handler  *)
(* of a pin an edge.                                                        *)
THEOREM ReadersServed == ASSUME Nested = FALSE PROVE Spec => []ReaderServed
<1>1. Init => ReadInv
  BY InitServes
<1>2. ReadInv /\ [Next]_vars => ReadInv'
  BY StepReads, StutterServes
<1>3. ReadInv => ReaderServed
  BY PinServes, SerServes, WtqServes, CvrServes DEF ReadInv, ReaderServed
<1> QED BY <1>1, <1>2, <1>3, PTL DEF Spec
=============================================================================
