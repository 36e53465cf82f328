-------------------------- MODULE MessageQueueProofs --------------------------
(***************************************************************************)
(* Proofs about the message queue: its two lists of slots as sequences,    *)
(* what each operation does to them, the invariant that ties the lists to  *)
(* the calls that hold a slot and to the threads that wait, and the        *)
(* refinement of Fifo.                                                     *)
(***************************************************************************)
EXTENDS MessageQueue, QueueLemmas

(* The links of next join the slots of l from c on, and end there.          *)
Linked(next, c, l) ==
  /\ c = IF l = <<>> THEN Null ELSE l[1]
  /\ \A i \in 1 .. Len(l) : next[l[i]] = IF i = Len(l) THEN Null ELSE l[i + 1]

(* The lists of the queue z are f, free, and m, messages.                   *)
Lists(z, f, m) ==
  /\ f \in Seq(Slot) /\ m \in Seq(Slot)
  /\ IsInjective(f) /\ IsInjective(m) /\ ToSet(f) \cap ToSet(m) = {}
  /\ Linked(z.next, z.free, f) /\ Linked(z.next, z.head, m)
  /\ z.tail = IF m = <<>> THEN Null ELSE Last(m)

-----------------------------------------------------------------------------
(* Sequences of slots and their links. *)

(* A list of distinct slots is no longer than the pool.                     *)
LEMMA ListFits ==
  ASSUME NEW l \in Seq(Slot), IsInjective(l)
  PROVE  /\ Cardinality(Slot) \in Nat /\ Len(l) <= Cardinality(Slot)
         /\ IsFiniteSet(ToSet(l)) /\ Cardinality(ToSet(l)) = Len(l)
<1>1. ToSet(l) \subseteq Slot /\ IsFiniteSet(ToSet(l))
  BY EmptyList, MessageQueueAssumption, FS_Subset
<1>2. l \in Bijection(1 .. Len(l), ToSet(l))
  BY DEF Bijection, Injection, Surjection, IsInjective, ToSet
<1>3. Cardinality(ToSet(l)) = Len(l)
  BY <1>2, FS_CountingElements DEF ExistsBijection
<1>4. Cardinality(ToSet(l)) <= Cardinality(Slot) /\ Cardinality(Slot) \in Nat
  BY <1>1, MessageQueueAssumption, FS_Subset, FS_CardinalityType
<1> QED BY <1>1, <1>3, <1>4

(* Walking along the links gives the list they join.                        *)
LEMMA ChainIs ==
  ASSUME NEW next, NEW c, NEW l \in Seq(Slot), IsInjective(l), Linked(next, c, l)
  PROVE  Chain(next, c) = l
<1> DEFINE N == Cardinality(Slot)
           IsWalk(w) == w = [i \in 0 .. N |-> IF i = 0 THEN c
                                              ELSE IF w[i - 1] = Null THEN Null
                                                   ELSE next[w[i - 1]]]
           walk == CHOOSE w : IsWalk(w)
           h == [i \in 0 .. N |-> IF i < Len(l) THEN l[i + 1] ELSE Null]
<1>1. N \in Nat /\ Len(l) \in Nat /\ Len(l) <= N
  BY ListFits
<1>2. \A i \in 1 .. Len(l) : l[i] # Null
  BY MessageQueueAssumption
<1>3. h[0] = c /\ \A i \in 1 .. N : h[i] = IF h[i - 1] = Null THEN Null ELSE next[h[i - 1]]
  <2>1. h[0] = c
    BY <1>1 DEF Linked
  <2>2. ASSUME NEW i \in 1 .. N
        PROVE  h[i] = IF h[i - 1] = Null THEN Null ELSE next[h[i - 1]]
    <3>1. h[i - 1] = IF i - 1 < Len(l) THEN l[i] ELSE Null
      BY <1>1
    <3>2. h[i] = IF i < Len(l) THEN l[i + 1] ELSE Null
      BY <1>1
    <3>3. i - 1 < Len(l) => next[l[i]] = IF i = Len(l) THEN Null ELSE l[i + 1]
      BY <1>1 DEF Linked
    <3> HIDE DEF h
    <3> QED BY <1>1, <1>2, <3>1, <3>2, <3>3
  <2> QED BY <2>1, <2>2
<1>4. IsWalk(h)
  <2> DEFINE k == [i \in 0 .. N |-> IF i = 0 THEN c
                                    ELSE IF h[i - 1] = Null THEN Null ELSE next[h[i - 1]]]
  <2>1. \A i \in 0 .. N : k[i] = h[i]
    <3> HIDE DEF h
    <3> QED BY <1>1, <1>3
  <2>2. k = [i \in 0 .. N |-> k[i]] /\ h = [i \in 0 .. N |-> h[i]]
    OBVIOUS
  <2> HIDE DEF h, k
  <2>3. k = h
    BY <2>1, <2>2
  <2> QED BY <2>3 DEF k
<1>5. IsWalk(walk)
  <2> HIDE DEF IsWalk, h
  <2> QED BY <1>4
<1> HIDE DEF walk
<1>6. walk[0] = c
      /\ \A i \in 1 .. N : walk[i] = IF walk[i - 1] = Null THEN Null ELSE next[walk[i - 1]]
  BY <1>1, <1>5
<1>7. \A i \in 0 .. N : walk[i] = h[i]
  <2> DEFINE P == [i \in 0 .. N |-> {h[i]}]
  <2> HIDE DEF h
  <2>1. walk[0] \in P[0] /\ \A i \in 1 .. N : walk[i - 1] \in P[i - 1] => walk[i] \in P[i]
    BY <1>1, <1>3, <1>6
  <2> HIDE DEF P
  <2>2. \A i \in 0 .. N : walk[i] \in P[i]
    BY <1>1, <2>1, LoopKeeps
  <2> QED BY <2>2 DEF P
<1>8. {j \in DOMAIN walk : walk[j] # Null} = 0 .. Len(l) - 1
  <2>1. DOMAIN walk = 0 .. N
    BY <1>5
  <2> QED BY <1>1, <1>2, <1>7, <2>1
<1>9. Cardinality(0 .. Len(l) - 1) = Len(l)
  <2> DEFINE n == Len(l) - 1
  <2>1. n \in Int /\ n >= -1 /\ n + 1 = Len(l)
    BY <1>1
  <2> HIDE DEF n
  <2>2. Cardinality(0 .. n) = IF 0 > n THEN 0 ELSE n - 0 + 1
    BY <2>1, FS_Interval
  <2>3. Cardinality(0 .. n) = n + 1
    BY <2>1, <2>2
  <2> QED BY <2>1, <2>3 DEF n
<1>10. Chain(next, c) = [i \in 1 .. Len(l) |-> walk[i - 1]]
  <2>1. Chain(next, c) = [i \in 1 .. Cardinality({j \in DOMAIN walk : walk[j] # Null}) |-> walk[i - 1]]
    BY DEF Chain, walk
  <2> QED BY <1>8, <1>9, <2>1
<1>11. \A i \in 1 .. Len(l) : walk[i - 1] = l[i]
  BY <1>1, <1>7
<1> QED BY <1>10, <1>11

(* One list after another with other nodes.                                 *)
LEMMA ConcatInjective ==
  ASSUME NEW S, NEW s \in Seq(S), NEW r \in Seq(S), IsInjective(s), IsInjective(r),
         ToSet(s) \cap ToSet(r) = {}
  PROVE  IsInjective(s \o r) /\ ToSet(s \o r) = ToSet(s) \cup ToSet(r)
<1> DEFINE w == s \o r
<1>1. /\ w \in Seq(S) /\ Len(w) = Len(s) + Len(r)
      /\ \A i \in 1 .. Len(s) + Len(r) : w[i] = IF i <= Len(s) THEN s[i] ELSE r[i - Len(s)]
      /\ DOMAIN w = 1 .. Len(s) + Len(r)
  BY ConcatProperties
<1>2. /\ Len(s) \in Nat /\ Len(r) \in Nat /\ DOMAIN s = 1 .. Len(s) /\ DOMAIN r = 1 .. Len(r)
  OBVIOUS
<1> HIDE DEF w
<1>3. \A i \in 1 .. Len(s) : \A j \in 1 .. Len(r) : s[i] # r[j]
  BY <1>2 DEF ToSet
<1>4. /\ \A i, j \in 1 .. Len(s) : s[i] = s[j] => i = j
      /\ \A i, j \in 1 .. Len(r) : r[i] = r[j] => i = j
  BY <1>2 DEF IsInjective
<1>5. ASSUME NEW i \in 1 .. Len(s) + Len(r), NEW j \in 1 .. Len(s) + Len(r), w[i] = w[j]
      PROVE  i = j
  <2>1. CASE i <= Len(s) /\ j <= Len(s)
    <3>1. i \in 1 .. Len(s) /\ j \in 1 .. Len(s) /\ w[i] = s[i] /\ w[j] = s[j]
      BY <1>1, <1>2, <2>1
    <3> QED BY <1>4, <1>5, <3>1
  <2>2. CASE i > Len(s) /\ j > Len(s)
    <3>1. /\ i - Len(s) \in 1 .. Len(r) /\ j - Len(s) \in 1 .. Len(r)
          /\ w[i] = r[i - Len(s)] /\ w[j] = r[j - Len(s)]
      BY <1>1, <1>2, <2>2
    <3>2. i - Len(s) = j - Len(s)
      BY <1>4, <1>5, <3>1
    <3> QED BY <1>2, <3>2
  <2>3. CASE i <= Len(s) /\ j > Len(s)
    <3>1. i \in 1 .. Len(s) /\ j - Len(s) \in 1 .. Len(r) /\ w[i] = s[i] /\ w[j] = r[j - Len(s)]
      BY <1>1, <1>2, <2>3
    <3> QED BY <1>3, <1>5, <3>1
  <2>4. CASE i > Len(s) /\ j <= Len(s)
    <3>1. j \in 1 .. Len(s) /\ i - Len(s) \in 1 .. Len(r) /\ w[j] = s[j] /\ w[i] = r[i - Len(s)]
      BY <1>1, <1>2, <2>4
    <3> QED BY <1>3, <1>5, <3>1
  <2> QED BY <1>2, <2>1, <2>2, <2>3, <2>4
<1>6. ToSet(w) \subseteq ToSet(s) \cup ToSet(r)
  <2> SUFFICES ASSUME NEW i \in 1 .. Len(s) + Len(r) PROVE w[i] \in ToSet(s) \cup ToSet(r)
    BY <1>1 DEF ToSet
  <2>1. CASE i <= Len(s)
    <3>1. i \in 1 .. Len(s) /\ w[i] = s[i]
      BY <1>1, <1>2, <2>1
    <3> QED BY <1>2, <3>1 DEF ToSet
  <2>2. CASE i > Len(s)
    <3>1. i - Len(s) \in 1 .. Len(r) /\ w[i] = r[i - Len(s)]
      BY <1>1, <1>2, <2>2
    <3> QED BY <1>2, <3>1 DEF ToSet
  <2> QED BY <1>2, <2>1, <2>2
<1>7. ToSet(s) \subseteq ToSet(w)
  <2> SUFFICES ASSUME NEW i \in 1 .. Len(s) PROVE s[i] \in ToSet(w)
    BY <1>2 DEF ToSet
  <2>1. i \in 1 .. Len(s) + Len(r) /\ w[i] = s[i]
    BY <1>1, <1>2
  <2> QED BY <1>1, <2>1 DEF ToSet
<1>8. ToSet(r) \subseteq ToSet(w)
  <2> SUFFICES ASSUME NEW i \in 1 .. Len(r) PROVE r[i] \in ToSet(w)
    BY <1>2 DEF ToSet
  <2>1. /\ Len(s) + i \in 1 .. Len(s) + Len(r) /\ ~ (Len(s) + i <= Len(s))
        /\ Len(s) + i - Len(s) = i
    BY <1>2
  <2>2. w[Len(s) + i] = r[i]
    BY <1>1, <2>1
  <2> QED BY <1>1, <2>1, <2>2 DEF ToSet
<1> QED BY <1>1, <1>5, <1>6, <1>7, <1>8 DEF IsInjective, w

(* The empty list is the one with no first slot.                            *)
LEMMA LinkedEmpty ==
  ASSUME NEW next, NEW c, NEW l \in Seq(Slot), Linked(next, c, l)
  PROVE  /\ c = Null <=> l = <<>>
         /\ c # Null => c \in ToSet(l) /\ c = Head(l) /\ c \in Slot
<1>1. l # <<>> => l[1] \in Slot /\ l[1] = Head(l) /\ l[1] \in ToSet(l)
  BY DEF ToSet
<1> QED BY <1>1, MessageQueueAssumption DEF Linked

(* A change of links elsewhere.                                             *)
LEMMA LinkedElsewhere ==
  ASSUME NEW next, NEW new, NEW c, NEW l \in Seq(Slot), Linked(next, c, l),
         \A d \in ToSet(l) : new[d] = next[d]
  PROVE  Linked(new, c, l)
<1>1. \A i \in 1 .. Len(l) : l[i] \in ToSet(l)
  BY DEF ToSet
<1> QED BY <1>1 DEF Linked

(* Without its first slot.                                                  *)
LEMMA LinkedTail ==
  ASSUME NEW next, NEW c, NEW l \in Seq(Slot), Linked(next, c, l), l # <<>>
  PROVE  Linked(next, next[c], Tail(l))
<1> DEFINE r == Tail(l)
<1>0. /\ r \in Seq(Slot) /\ Len(l) \in Nat /\ Len(l) >= 1
      /\ DOMAIN r = 1 .. Len(l) - 1 /\ Len(r) = Len(l) - 1
      /\ \A i \in 1 .. Len(l) - 1 : r[i] = l[i + 1]
  OBVIOUS
<1> HIDE DEF r
<1>1. /\ r \in Seq(Slot) /\ Len(r) = Len(l) - 1 /\ Len(l) \in Nat \ {0}
      /\ r = <<>> <=> Len(r) = 0
      /\ \A i \in 1 .. Len(r) : r[i] = l[i + 1]
  BY <1>0
<1>2. next[c] = IF Len(l) = 1 THEN Null ELSE l[2]
  BY <1>1 DEF Linked
<1>3. next[c] = IF r = <<>> THEN Null ELSE r[1]
  BY <1>1, <1>2
<1>4. ASSUME NEW i \in 1 .. Len(r)
      PROVE  next[r[i]] = IF i = Len(r) THEN Null ELSE r[i + 1]
  <2>1. i + 1 \in 1 .. Len(l) /\ r[i] = l[i + 1]
    BY <1>1
  <2>2. next[l[i + 1]] = IF i + 1 = Len(l) THEN Null ELSE l[i + 1 + 1]
    BY <2>1 DEF Linked
  <2>3. i # Len(r) => i + 1 \in 1 .. Len(r) /\ r[i + 1] = l[i + 1 + 1]
    BY <1>1
  <2> QED BY <1>1, <2>1, <2>2, <2>3
<1> QED BY <1>3, <1>4 DEF Linked, r

(* With a new first slot.                                                   *)
LEMMA LinkedCons ==
  ASSUME NEW next, NEW c, NEW l \in Seq(Slot), Linked(next, c, l),
         NEW d \in Slot, next[d] = c
  PROVE  Linked(next, d, Cons(d, l))
<1> DEFINE r == Cons(d, l)
<1>1. /\ r \in Seq(Slot) /\ r # <<>> /\ Len(r) = Len(l) + 1 /\ Len(l) \in Nat
      /\ \A i \in 1 .. Len(r) : r[i] = IF i = 1 THEN d ELSE l[i - 1]
  <2>1. <<d>> \in Seq(Slot) /\ Len(<<d>>) = 1 /\ <<d>>[1] = d
    OBVIOUS
  <2> QED BY <2>1, ConcatProperties DEF Cons
<1> HIDE DEF r
<1>2. ASSUME NEW i \in 1 .. Len(r)
      PROVE  next[r[i]] = IF i = Len(r) THEN Null ELSE r[i + 1]
  <2>1. CASE i = 1
    <3>1. r[1] = d
      BY <1>1
    <3>2. Len(r) = 1 <=> l = <<>>
      BY <1>1
    <3>4. ASSUME Len(r) # 1 PROVE r[2] = l[1]
      <4>1. 2 \in 1 .. Len(r)
        BY <1>1, <3>4
      <4> QED BY <1>1, <4>1
    <3> QED BY <2>1, <3>1, <3>2, <3>4 DEF Linked
  <2>2. CASE i # 1
    <3>1. i - 1 \in 1 .. Len(l) /\ r[i] = l[i - 1] /\ (i = Len(r) <=> i - 1 = Len(l))
      BY <1>1, <2>2
    <3>2. i # Len(r) => r[i + 1] = l[i - 1 + 1]
      BY <1>1, <2>2
    <3>3. next[l[i - 1]] = IF i - 1 = Len(l) THEN Null ELSE l[i - 1 + 1]
      BY <3>1 DEF Linked
    <3> QED BY <3>1, <3>2, <3>3
  <2> QED BY <2>1, <2>2
<1>3. r[1] = d
  BY <1>1
<1> QED BY <1>1, <1>2, <1>3 DEF Linked, r

(* With a new last slot.                                                    *)
LEMMA LinkedAppend ==
  ASSUME NEW next, NEW c, NEW l \in Seq(Slot), Linked(next, c, l), IsInjective(l),
         l # <<>>, NEW d \in Slot, next[d] = Null,
         NEW new, new[Last(l)] = d, \A e \in Slot : e # Last(l) => new[e] = next[e],
         d \notin ToSet(l)
  PROVE  Linked(new, c, Append(l, d))
<1> DEFINE r == Append(l, d)
<1>1. /\ r \in Seq(Slot) /\ r # <<>> /\ Len(r) = Len(l) + 1 /\ Len(l) \in Nat \ {0}
      /\ \A i \in 1 .. Len(r) : r[i] = IF i = Len(r) THEN d ELSE l[i]
  OBVIOUS
<1>2. /\ \A i \in 1 .. Len(l) : l[i] = Last(l) <=> i = Len(l)
      /\ Last(l) \in ToSet(l)
      /\ \A i \in 1 .. Len(l) : l[i] \in Slot
  BY DEF Last, IsInjective, ToSet
<1> HIDE DEF r
<1>3. ASSUME NEW i \in 1 .. Len(r)
      PROVE  new[r[i]] = IF i = Len(r) THEN Null ELSE r[i + 1]
  <2>1. CASE i = Len(r)
    BY <1>1, <1>2, <2>1
  <2>2. CASE i = Len(l)
    <3>1. r[i] = Last(l) /\ r[i + 1] = d /\ i # Len(r)
      BY <1>1, <1>2, <2>2
    <3> QED BY <3>1
  <2>3. CASE i < Len(l)
    <3>1. r[i] = l[i] /\ r[i + 1] = l[i + 1] /\ i # Len(r) /\ i \in 1 .. Len(l) /\ l[i] # Last(l)
      BY <1>1, <1>2, <2>3
    <3>2. next[l[i]] = l[i + 1]
      BY <2>3, <3>1 DEF Linked
    <3> QED BY <1>2, <3>1, <3>2
  <2> QED BY <1>1, <2>1, <2>2, <2>3
<1>4. r[1] = c
  BY <1>1 DEF Linked
<1> QED BY <1>1, <1>3, <1>4 DEF Linked, r

-----------------------------------------------------------------------------
(* What the operations do to the lists. *)

(* The last slot of a list and of the list without the first.               *)
LEMMA TailLast ==
  ASSUME NEW l \in Seq(Slot), l # <<>>, IsInjective(l)
  PROVE  /\ Last(l) \in ToSet(l)
         /\ Last(l) = Head(l) <=> Tail(l) = <<>>
         /\ Tail(l) # <<>> => Last(Tail(l)) = Last(l)
         /\ Len(Tail(l)) = Len(l) - 1
<1> DEFINE r == Tail(l)
<1>1. /\ r \in Seq(Slot) /\ Len(l) \in Nat /\ Len(l) >= 1
      /\ DOMAIN r = 1 .. Len(l) - 1 /\ Len(r) = Len(l) - 1
      /\ \A i \in 1 .. Len(l) - 1 : r[i] = l[i + 1]
      /\ Head(l) = l[1] /\ DOMAIN l = 1 .. Len(l)
  OBVIOUS
<1> HIDE DEF r
<1>2. r = <<>> <=> Len(l) = 1
  BY <1>1
<1>3. l[Len(l)] = l[1] <=> Len(l) = 1
  BY <1>1 DEF IsInjective
<1>4. r # <<>> => r[Len(r)] = l[Len(l)]
  BY <1>1, <1>2
<1>5. l[Len(l)] \in ToSet(l)
  BY <1>1 DEF ToSet
<1> QED BY <1>1, <1>2, <1>3, <1>4, <1>5 DEF Last, r

(* The first free slot is taken.                                            *)
LEMMA ClaimLists ==
  ASSUME NEW z \in QState, NEW f, NEW m, Lists(z, f, m), z.free # Null
  PROVE  LET y == [z EXCEPT !.free = z.next[z.free]]
         IN  /\ y \in QState /\ Lists(y, Tail(f), m)
             /\ f # <<>> /\ z.free = Head(f) /\ z.free \in Slot
<1> DEFINE y == [z EXCEPT !.free = z.next[z.free]]
<1>1. f # <<>> /\ z.free = Head(f) /\ z.free \in Slot
  BY LinkedEmpty DEF Lists
<1>2. /\ y \in QState
      /\ y.next = z.next /\ y.free = z.next[z.free] /\ y.head = z.head /\ y.tail = z.tail
  BY <1>1 DEF QState, SlotOrNull
<1> HIDE DEF y
<1>3. Tail(f) \in Seq(Slot) /\ IsInjective(Tail(f)) /\ ToSet(Tail(f)) = ToSet(f) \ {Head(f)}
  BY <1>1, TailProperties DEF Lists
<1>4. Linked(y.next, y.free, Tail(f))
  BY <1>1, <1>2, LinkedTail DEF Lists
<1>5. Lists(y, Tail(f), m)
  BY <1>2, <1>3, <1>4 DEF Lists
<1> QED BY <1>1, <1>2, <1>5 DEF y

(* A slot that is in neither list is written.                               *)
LEMMA FillLists ==
  ASSUME NEW z \in QState, NEW f, NEW m, Lists(z, f, m),
         NEW c \in Slot, c \notin ToSet(f) \cup ToSet(m), NEW d \in SlotOrNull
  PROVE  LET y == [z EXCEPT !.next[c] = d]
         IN  /\ y \in QState /\ Lists(y, f, m)
             /\ y.next[c] = d /\ y.entry = z.entry
             /\ \A e \in Slot : e # c => y.next[e] = z.next[e]
             /\ y.free = z.free /\ y.head = z.head /\ y.tail = z.tail
<1> DEFINE y == [z EXCEPT !.next[c] = d]
<1>1. /\ y \in QState
      /\ y.free = z.free /\ y.head = z.head /\ y.tail = z.tail /\ y.entry = z.entry
      /\ y.next[c] = d /\ \A e \in Slot : e # c => y.next[e] = z.next[e]
  BY DEF QState, SlotOrNull
<1> HIDE DEF y
<1>2. \A e \in ToSet(f) \cup ToSet(m) : y.next[e] = z.next[e]
  BY <1>1, EmptyList DEF Lists
<1>3. Linked(y.next, y.free, f) /\ Linked(y.next, y.head, m)
  BY <1>1, <1>2, LinkedElsewhere DEF Lists
<1>4. Lists(y, f, m)
  BY <1>1, <1>3 DEF Lists
<1> QED BY <1>1, <1>4 DEF y

(* A slot is given back.                                                    *)
GiveBack(z, c) == [z EXCEPT !.next[c] = z.free, !.free = c]

(* Giving a slot back puts it in front of the free slots.                   *)
LEMMA GiveLists ==
  ASSUME NEW z \in QState, NEW f, NEW m, Lists(z, f, m),
         NEW c \in Slot, c \notin ToSet(f) \cup ToSet(m)
  PROVE  /\ GiveBack(z, c) \in QState /\ Lists(GiveBack(z, c), Cons(c, f), m)
         /\ GiveBack(z, c).entry = z.entry
         /\ \A e \in Slot : e # c => GiveBack(z, c).next[e] = z.next[e]
<1> DEFINE x == [z EXCEPT !.next[c] = z.free]
           y == GiveBack(z, c)
<1>1. z.free \in SlotOrNull
  BY DEF QState
<1>2. /\ x \in QState /\ Lists(x, f, m)
      /\ x.next[c] = z.free /\ x.entry = z.entry
      /\ \A e \in Slot : e # c => x.next[e] = z.next[e]
      /\ x.free = z.free /\ x.head = z.head /\ x.tail = z.tail
  BY <1>1, FillLists
<1>3. y = [x EXCEPT !.free = c]
  BY DEF GiveBack, QState
<1> HIDE DEF x, y
<1>4. /\ y \in QState /\ y.next = x.next /\ y.free = c
      /\ y.head = x.head /\ y.tail = x.tail /\ y.entry = x.entry
  BY <1>2, <1>3 DEF QState, SlotOrNull
<1>5. /\ Cons(c, f) \in Seq(Slot) /\ IsInjective(Cons(c, f))
      /\ ToSet(Cons(c, f)) = ToSet(f) \cup {c}
  BY ConsNew DEF Lists
<1>6. Linked(y.next, y.free, Cons(c, f))
  BY <1>2, <1>4, LinkedCons DEF Lists
<1>7. Lists(y, Cons(c, f), m)
  BY <1>2, <1>4, <1>5, <1>6 DEF Lists
<1> QED BY <1>2, <1>4, <1>7 DEF y

(* A message is linked last.                                                *)
LEMMA LinkLastLists ==
  ASSUME q \in QState, NEW f, NEW m, Lists(q, f, m), q.entry = Len(m),
         NEW c \in Slot, c \notin ToSet(f) \cup ToSet(m), q.next[c] = Null
  PROVE  /\ LinkLast(c) \in QState /\ Lists(LinkLast(c), f, Append(m, c))
         /\ LinkLast(c).entry = Len(m) + 1 /\ Len(m) < Cardinality(Slot)
         /\ \A e \in Slot : e \notin ToSet(m) => LinkLast(c).next[e] = q.next[e]
<1> DEFINE y == LinkLast(c)
           r == Append(m, c)
<1>1. m \in Seq(Slot) /\ IsInjective(m) /\ f \in Seq(Slot)
  BY DEF Lists
<1>2. r \in Seq(Slot) /\ IsInjective(r) /\ ToSet(r) = ToSet(m) \cup {c}
  BY <1>1, AppendNew
<1>3. Len(r) = Len(m) + 1 /\ Len(m) \in Nat /\ r # <<>> /\ Last(r) = c
  BY <1>1 DEF Last
<1>4. Cardinality(Slot) \in Nat /\ Len(r) <= Cardinality(Slot)
  <2> HIDE DEF r
  <2> QED BY <1>2, ListFits
<1>5. q.tail = (IF m = <<>> THEN Null ELSE Last(m)) /\ q.head = IF m = <<>> THEN Null ELSE m[1]
  BY DEF Lists, Linked
<1>6. m # <<>> => Last(m) \in ToSet(m) /\ Last(m) \in Slot /\ m[1] \in Slot
  BY <1>1, TailLast, EmptyList
<1>7. /\ y.free = q.free /\ y.tail = c /\ y.entry = Len(m) + 1
      /\ y.head = IF m = <<>> THEN c ELSE q.head
      /\ y.next = IF m = <<>> THEN q.next ELSE [q.next EXCEPT ![Last(m)] = c]
  <2>1. q.tail # Null <=> m # <<>>
    BY <1>5, <1>6, MessageQueueAssumption
  <2>2. q.head = Null <=> m = <<>>
    BY <1>5, <1>6, MessageQueueAssumption
  <2> QED BY <1>5, <2>1, <2>2 DEF LinkLast, QState
<1>8. y \in QState
  <2>1. (IF q.tail # Null THEN [q.next EXCEPT ![q.tail] = c] ELSE q.next) \in [Slot -> SlotOrNull]
    BY DEF QState, SlotOrNull
  <2>2. q.entry + 1 \in 0 .. Cardinality(Slot)
    BY <1>3, <1>4
  <2> QED BY <2>1, <2>2 DEF LinkLast, QState, SlotOrNull
<1> HIDE DEF y, r
<1>9. \A e \in Slot : e \notin ToSet(m) => y.next[e] = q.next[e]
  BY <1>6, <1>7 DEF QState
<1>10. Linked(y.next, y.free, f)
  <2>1. \A e \in ToSet(f) : y.next[e] = q.next[e]
    BY <1>1, <1>9, EmptyList DEF Lists
  <2> QED BY <1>1, <1>7, <2>1, LinkedElsewhere DEF Lists
<1>11. Linked(y.next, y.head, r)
  <2>1. CASE m = <<>>
    <3>1. r = <<c>>
      BY <2>1 DEF r
    <3> QED BY <1>7, <2>1, <3>1 DEF Linked
  <2>2. CASE m # <<>>
    <3>1. y.next[Last(m)] = c /\ \A e \in Slot : e # Last(m) => y.next[e] = q.next[e]
      BY <1>6, <1>7, <2>2 DEF QState
    <3>2. Linked(q.next, q.head, m)
      BY DEF Lists
    <3>3. Linked(y.next, q.head, r)
      BY <1>1, <2>2, <3>1, <3>2, LinkedAppend DEF r
    <3> QED BY <1>7, <2>2, <3>3
  <2> QED BY <2>1, <2>2
<1>12. Lists(y, f, r)
  BY <1>1, <1>2, <1>3, <1>7, <1>10, <1>11 DEF Lists
<1> QED BY <1>3, <1>4, <1>7, <1>8, <1>9, <1>12 DEF y, r

(* A message is linked first.                                               *)
LEMMA LinkFirstLists ==
  ASSUME q \in QState, NEW f, NEW m, Lists(q, f, m), q.entry = Len(m),
         NEW c \in Slot, c \notin ToSet(f) \cup ToSet(m)
  PROVE  /\ LinkFirst(c) \in QState /\ Lists(LinkFirst(c), f, Cons(c, m))
         /\ LinkFirst(c).entry = Len(m) + 1 /\ Len(m) < Cardinality(Slot)
         /\ Len(Cons(c, m)) = Len(m) + 1
         /\ \A e \in Slot : e # c => LinkFirst(c).next[e] = q.next[e]
<1> DEFINE y == LinkFirst(c)
           r == Cons(c, m)
<1>1. m \in Seq(Slot) /\ IsInjective(m) /\ f \in Seq(Slot)
  BY DEF Lists
<1>2. r \in Seq(Slot) /\ IsInjective(r) /\ ToSet(r) = ToSet(m) \cup {c}
  BY <1>1, ConsNew
<1>3. Len(r) = Len(m) + 1 /\ Len(m) \in Nat /\ r # <<>>
      /\ Last(r) = IF m = <<>> THEN c ELSE Last(m)
  <2>1. /\ Len(r) = Len(m) + 1 /\ Len(m) \in Nat
        /\ \A i \in 1 .. Len(r) : r[i] = IF i = 1 THEN c ELSE m[i - 1]
    <3>1. <<c>> \in Seq(Slot) /\ Len(<<c>>) = 1 /\ <<c>>[1] = c
      OBVIOUS
    <3> QED BY <1>1, <3>1, ConcatProperties DEF Cons
  <2>2. m = <<>> <=> Len(m) = 0
    BY <1>1
  <2> HIDE DEF r
  <2>3. r # <<>>
    BY <2>1
  <2>4. r[Len(r)] = IF m = <<>> THEN c ELSE m[Len(m)]
    BY <2>1, <2>2
  <2> QED BY <2>1, <2>3, <2>4 DEF Last
<1>4. Cardinality(Slot) \in Nat /\ Len(r) <= Cardinality(Slot)
  <2> HIDE DEF r
  <2> QED BY <1>2, ListFits
<1>5. q.tail = (IF m = <<>> THEN Null ELSE Last(m)) /\ q.head \in SlotOrNull
  BY DEF Lists, QState
<1>6. m # <<>> => Last(m) \in ToSet(m) /\ Last(m) \in Slot
  BY <1>1, TailLast, EmptyList
<1>7. /\ y.free = q.free /\ y.head = c /\ y.entry = Len(m) + 1
      /\ y.tail = IF m = <<>> THEN c ELSE Last(m)
      /\ y.next = [q.next EXCEPT ![c] = q.head]
  <2>1. q.tail = Null <=> m = <<>>
    BY <1>5, <1>6, MessageQueueAssumption
  <2> QED BY <1>5, <2>1 DEF LinkFirst, QState
<1>8. y \in QState
  <2>1. [q.next EXCEPT ![c] = q.head] \in [Slot -> SlotOrNull]
    BY DEF QState, SlotOrNull
  <2>2. q.entry + 1 \in 0 .. Cardinality(Slot)
    BY <1>3, <1>4
  <2> QED BY <2>1, <2>2 DEF LinkFirst, QState, SlotOrNull
<1> HIDE DEF y
<1>9. y.next[c] = q.head /\ \A e \in Slot : e # c => y.next[e] = q.next[e]
  BY <1>7 DEF QState
<1>10. \A e \in ToSet(f) \cup ToSet(m) : y.next[e] = q.next[e]
  BY <1>1, <1>9, EmptyList
<1>11. Linked(y.next, y.free, f) /\ Linked(y.next, q.head, m)
  <2>1. Linked(q.next, q.free, f) /\ Linked(q.next, q.head, m)
    BY DEF Lists
  <2>2. Linked(y.next, q.free, f)
    BY <1>1, <1>10, <2>1, LinkedElsewhere
  <2>3. Linked(y.next, q.head, m)
    BY <1>1, <1>10, <2>1, LinkedElsewhere
  <2> QED BY <1>7, <2>2, <2>3
<1>12. Linked(y.next, y.head, r)
  BY <1>1, <1>7, <1>9, <1>11, LinkedCons
<1> HIDE DEF r
<1>13. Lists(y, f, r)
  BY <1>1, <1>2, <1>3, <1>7, <1>11, <1>12 DEF Lists
<1> QED BY <1>3, <1>4, <1>7, <1>8, <1>9, <1>13 DEF y, r

(* The count of the messages is no part of the lists.                       *)
LEMMA EntryLists ==
  ASSUME NEW z \in QState, NEW f, NEW m, Lists(z, f, m), NEW n \in 0 .. Cardinality(Slot)
  PROVE  LET y == [z EXCEPT !.entry = n]
         IN  y \in QState /\ Lists(y, f, m) /\ y.entry = n /\ y.next = z.next
<1> DEFINE y == [z EXCEPT !.entry = n]
<1>1. /\ y \in QState /\ y.entry = n /\ y.next = z.next
      /\ y.free = z.free /\ y.head = z.head /\ y.tail = z.tail
  BY DEF QState
<1> HIDE DEF y
<1>2. Lists(y, f, m)
  BY <1>1 DEF Lists
<1> QED BY <1>1, <1>2 DEF y

(* The first message is unlinked.                                           *)
WithoutFirst(z) ==
  [z EXCEPT !.head = z.next[z.head], !.tail = IF @ = z.head THEN Null ELSE @]

(* What is left of the lists when the first message is taken out.           *)
LEMMA FirstLists ==
  ASSUME NEW z \in QState, NEW f, NEW m, Lists(z, f, m), m # <<>>
  PROVE  LET y == WithoutFirst(z)
         IN  /\ y \in QState /\ Lists(y, f, Tail(m))
             /\ y.next = z.next /\ y.free = z.free /\ y.entry = z.entry
             /\ z.head = Head(m) /\ z.head \in Slot
             /\ z.head \notin ToSet(f) \cup ToSet(Tail(m))
<1> DEFINE y == WithoutFirst(z)
<1>1. m \in Seq(Slot) /\ IsInjective(m) /\ Linked(z.next, z.head, m)
  BY DEF Lists
<1>2. z.head # Null
  BY <1>1, LinkedEmpty
<1>3. z.head \in Slot /\ z.head = Head(m) /\ z.head \in ToSet(m)
  BY <1>1, <1>2, LinkedEmpty
<1>4. z.tail = Last(m) /\ Last(m) \in Slot
  BY <1>1, TailLast, EmptyList DEF Lists
<1>5. /\ y.next = z.next /\ y.free = z.free /\ y.entry = z.entry
      /\ y.head = z.next[z.head]
      /\ y.tail = IF z.tail = z.head THEN Null ELSE z.tail
  BY DEF WithoutFirst, QState
<1>6. y \in QState
  <2>1. z.next[z.head] \in SlotOrNull
    BY <1>3 DEF QState
  <2> QED BY <2>1 DEF WithoutFirst, QState, SlotOrNull
<1> HIDE DEF y
<1>7. Tail(m) \in Seq(Slot) /\ IsInjective(Tail(m)) /\ ToSet(Tail(m)) = ToSet(m) \ {Head(m)}
  BY <1>1, TailProperties
<1>8. y.tail = IF Tail(m) = <<>> THEN Null ELSE Last(Tail(m))
  BY <1>1, <1>3, <1>4, <1>5, TailLast
<1>9. Linked(y.next, y.head, Tail(m))
  BY <1>1, <1>5, LinkedTail
<1>10. Lists(y, f, Tail(m))
  BY <1>5, <1>7, <1>8, <1>9 DEF Lists
<1>11. z.head \notin ToSet(f) \cup ToSet(Tail(m))
  BY <1>3, <1>7 DEF Lists
<1> QED BY <1>3, <1>5, <1>6, <1>10, <1>11 DEF y

(* One turn of the loop of a reset.                                         *)
LEMMA MoveLists ==
  ASSUME NEW z \in QState, NEW f, NEW m, Lists(z, f, m), m # <<>>
  PROVE  LET y == MoveToFree(z)
         IN  /\ y \in QState /\ Lists(y, Cons(Head(m), f), Tail(m))
             /\ ToSet(Cons(Head(m), f)) \cup ToSet(Tail(m)) = ToSet(f) \cup ToSet(m)
             /\ ToSet(Tail(m)) \subseteq ToSet(m)
             /\ \A e \in Slot : e \notin ToSet(m) => y.next[e] = z.next[e]
<1> DEFINE c == z.head
           x == WithoutFirst(z)
           y == MoveToFree(z)
<1>1. /\ x \in QState /\ Lists(x, f, Tail(m))
      /\ x.next = z.next /\ x.free = z.free
      /\ c = Head(m) /\ c \in Slot
      /\ c \notin ToSet(f) \cup ToSet(Tail(m))
  BY FirstLists
<1>2. y = GiveBack(x, c)
  BY DEF WithoutFirst, MoveToFree, GiveBack, QState
<1> HIDE DEF x, y, c
<1>3. /\ y \in QState /\ Lists(y, Cons(c, f), Tail(m))
      /\ \A e \in Slot : e # c => y.next[e] = x.next[e]
  BY <1>1, <1>2, GiveLists
<1>4. ToSet(Tail(m)) = ToSet(m) \ {c} /\ c \in ToSet(m)
  BY <1>1, TailProperties DEF Lists
<1>5. ToSet(Cons(c, f)) = ToSet(f) \cup {c}
  BY <1>1, ConsNew DEF Lists
<1> QED BY <1>1, <1>3, <1>4, <1>5 DEF y

(* Every message but those of the list l has gone back to the free list g.  *)
Moved(z, f, m, n) ==
  /\ z \in QState
  /\ \E g, l :
       /\ Lists(z, g, l)
       /\ ToSet(g) \cup ToSet(l) = ToSet(f) \cup ToSet(m)
       /\ ToSet(l) \subseteq ToSet(m)
       /\ l = <<>> \/ Len(l) + n <= Cardinality(Slot)
  /\ \A e \in Slot : e \notin ToSet(m) => z.next[e] = q.next[e]

Turn(z) == IF z.head = Null THEN z ELSE MoveToFree(z)

(* One turn of the loop moves one message.                                  *)
LEMMA TurnMoves ==
  ASSUME NEW f, NEW m, NEW z, NEW n \in Nat, Moved(z, f, m, n)
  PROVE  Moved(Turn(z), f, m, n + 1)
<1>1. PICK g, l :
        /\ Lists(z, g, l)
        /\ ToSet(g) \cup ToSet(l) = ToSet(f) \cup ToSet(m)
        /\ ToSet(l) \subseteq ToSet(m)
        /\ l = <<>> \/ Len(l) + n <= Cardinality(Slot)
  BY DEF Moved
<1>2. z \in QState /\ \A e \in Slot : e \notin ToSet(m) => z.next[e] = q.next[e]
  BY DEF Moved
<1>3. l \in Seq(Slot) /\ IsInjective(l) /\ (z.head = Null <=> l = <<>>)
  BY <1>1, LinkedEmpty DEF Lists
<1>4. CASE l = <<>>
  BY <1>1, <1>2, <1>3, <1>4 DEF Moved, Turn
<1>5. CASE l # <<>>
  <2> DEFINE y == MoveToFree(z)
             g1 == Cons(Head(l), g)
             l1 == Tail(l)
  <2>1. /\ y \in QState /\ Lists(y, g1, l1)
        /\ ToSet(g1) \cup ToSet(l1) = ToSet(g) \cup ToSet(l)
        /\ ToSet(l1) \subseteq ToSet(l)
        /\ \A e \in Slot : e \notin ToSet(l) => y.next[e] = z.next[e]
    BY <1>1, <1>2, <1>5, MoveLists
  <2>2. Len(l1) = Len(l) - 1 /\ Len(l) \in Nat
    BY <1>3, <1>5, TailLast
  <2> HIDE DEF y, g1, l1
  <2>3. Len(l1) + (n + 1) <= Cardinality(Slot)
    BY <1>1, <1>5, <2>2
  <2>4. Moved(y, f, m, n + 1)
    BY <1>1, <1>2, <2>1, <2>3 DEF Moved
  <2> QED BY <1>3, <1>5, <2>4 DEF Turn, y
<1> QED BY <1>4, <1>5

(* A reset frees every message.                                             *)
LEMMA AllFreeLists ==
  ASSUME q \in QState, NEW f, NEW m, Lists(q, f, m)
  PROVE  /\ AllFree \in QState /\ AllFree.entry = 0
         /\ \E g : Lists(AllFree, g, <<>>) /\ ToSet(g) = ToSet(f) \cup ToSet(m)
         /\ \A e \in Slot : e \notin ToSet(m) => AllFree.next[e] = q.next[e]
<1> DEFINE N == Cardinality(Slot)
           Good == {z \in QState : \E n \in 0 .. N : Moved(z, f, m, n)}
           g == [n \in 1 .. N |-> [z \in Good |-> Turn(z)]]
           P == [n \in 0 .. N |-> {z \in QState : Moved(z, f, m, n)}]
           IsRun(w) == w = [n \in 0 .. N |-> IF n = 0 THEN q
                                             ELSE IF w[n - 1].head = Null THEN w[n - 1]
                                                  ELSE MoveToFree(w[n - 1])]
           moved == CHOOSE w : IsRun(w)
<1>1. N \in Nat /\ Len(m) <= N /\ Len(m) \in Nat
  BY ListFits DEF Lists
<1>2. Moved(q, f, m, 0)
  <2>1. m \in Seq(Slot)
    BY DEF Lists
  <2> QED BY <1>1, <2>1 DEF Moved
<1>3. \A z \in QState : \A n \in Nat : Moved(z, f, m, n) => Moved(Turn(z), f, m, n + 1)
  BY TurnMoves
<1>4. \E w : IsRun(w)
  <2>1. LoopRuns(N, q, g)
    <3> HIDE DEF N, g
    <3> QED BY <1>1, LoopExists
  <2>2. PICK w : /\ w = [n \in 0 .. N |-> w[n]]
                 /\ w[0] = q /\ \A n \in 1 .. N : w[n] = g[n][w[n - 1]]
    <3> HIDE DEF N, g
    <3> QED BY <2>1 DEF LoopRuns
  <2>3. \A n \in 1 .. N : \A z \in Good : g[n][z] = Turn(z)
    OBVIOUS
  <2>4. \A n \in 0 .. N : \A z \in P[n] : z \in Good /\ Moved(z, f, m, n)
    OBVIOUS
  <2>5. q \in P[0] /\ \A n \in 1 .. N : \A z \in P[n - 1] : Turn(z) \in P[n]
    <3>1. q \in P[0]
      BY <1>1, <1>2
    <3>2. ASSUME NEW n \in 1 .. N, NEW z \in P[n - 1] PROVE Turn(z) \in P[n]
      <4>1. n - 1 \in Nat /\ z \in QState /\ Moved(z, f, m, n - 1) /\ n - 1 + 1 = n
        BY <1>1
      <4>2. Moved(Turn(z), f, m, n)
        BY <1>3, <4>1
      <4> QED BY <1>1, <4>2 DEF Moved
    <3> QED BY <3>1, <3>2
  <2> HIDE DEF Good, g, P, N
  <2>6. w[0] \in P[0] /\ \A n \in 1 .. N : w[n - 1] \in P[n - 1] => w[n] \in P[n]
    <3>1. \A n \in 1 .. N : n - 1 \in 0 .. N
      BY <1>1
    <3> QED BY <1>1, <2>2, <2>3, <2>4, <2>5, <3>1
  <2>7. \A n \in 0 .. N : w[n] \in P[n]
    BY <1>1, <2>6, LoopKeeps
  <2>8. \A n \in 1 .. N : w[n] = Turn(w[n - 1])
    <3>1. \A n \in 1 .. N : n - 1 \in 0 .. N
      BY <1>1
    <3> QED BY <2>2, <2>3, <2>4, <2>7, <3>1
  <2> DEFINE h == [n \in 0 .. N |-> IF n = 0 THEN q
                                    ELSE IF w[n - 1].head = Null THEN w[n - 1]
                                         ELSE MoveToFree(w[n - 1])]
  <2>9. w = [n \in 0 .. N |-> w[n]] /\ h = [n \in 0 .. N |-> h[n]]
    BY <2>2
  <2>10. ASSUME NEW n \in 0 .. N PROVE h[n] = w[n]
    <3>1. CASE n = 0
      BY <2>2, <3>1
    <3>2. CASE n # 0
      <4>1. n \in 1 .. N
        BY <1>1, <3>2
      <4>2. h[n] = IF w[n - 1].head = Null THEN w[n - 1] ELSE MoveToFree(w[n - 1])
        BY <3>2
      <4>3. w[n] = Turn(w[n - 1])
        BY <2>8, <4>1
      <4> QED BY <4>2, <4>3 DEF Turn
    <3> QED BY <3>1, <3>2
  <2> HIDE DEF h
  <2>11. h = w
    BY <2>9, <2>10
  <2> QED BY <2>11 DEF h
<1>5. IsRun(moved)
  <2> HIDE DEF IsRun
  <2> QED BY <1>4
<1>6. AllFree = [moved[N] EXCEPT !.entry = 0]
  BY DEF AllFree
<1> HIDE DEF moved, Good, g
<1>7. moved[0] = q /\ \A n \in 1 .. N : moved[n] = Turn(moved[n - 1])
  BY <1>1, <1>5 DEF Turn
<1>8. \A n \in 0 .. N : moved[n] \in P[n]
  <2>1. moved[0] \in P[0]
    BY <1>1, <1>2, <1>7
  <2>2. ASSUME NEW n \in 1 .. N, moved[n - 1] \in P[n - 1] PROVE moved[n] \in P[n]
    <3>1. n - 1 \in Nat /\ Moved(moved[n - 1], f, m, n - 1) /\ n - 1 + 1 = n
      BY <1>1, <2>2
    <3>2. Moved(moved[n], f, m, n)
      <4>1. Moved(Turn(moved[n - 1]), f, m, n - 1 + 1)
        BY <3>1, TurnMoves
      <4>2. moved[n] = Turn(moved[n - 1])
        BY <1>7
      <4> QED BY <3>1, <4>1, <4>2
    <3> QED BY <3>2, <1>1 DEF Moved
  <2> HIDE DEF P, N
  <2> QED BY <1>1, <2>1, <2>2, LoopKeeps
<1>9. Moved(moved[N], f, m, N)
  BY <1>1, <1>8
<1>10. PICK a, l :
         /\ Lists(moved[N], a, l)
         /\ ToSet(a) \cup ToSet(l) = ToSet(f) \cup ToSet(m)
         /\ l = <<>> \/ Len(l) + N <= N
  BY <1>9 DEF Moved
<1>11. l = <<>> /\ ToSet(l) = {}
  <2>1. l \in Seq(Slot)
    BY <1>10 DEF Lists
  <2>2. l = <<>>
    BY <1>1, <1>10, <2>1
  <2> QED BY <2>1, <2>2, EmptyList
<1>12. moved[N] \in QState /\ \A e \in Slot : e \notin ToSet(m) => moved[N].next[e] = q.next[e]
  BY <1>9 DEF Moved
<1>13. /\ AllFree \in QState /\ Lists(AllFree, a, <<>>)
       /\ AllFree.entry = 0 /\ AllFree.next = moved[N].next
  <2> HIDE DEF N
  <2>1. 0 \in 0 .. Cardinality(Slot)
    BY <1>1 DEF N
  <2> QED BY <1>6, <1>10, <1>11, <1>12, <2>1, EntryLists
<1> QED BY <1>10, <1>11, <1>12, <1>13

(* The pool of a new queue is one list of free slots.                       *)
LEMMA EmptyLists ==
  /\ Empty \in QState /\ Empty.entry = 0
  /\ \E f : Lists(Empty, f, <<>>) /\ ToSet(f) = Slot
<1> DEFINE n == Len(Order)
           f == Reverse(Order)
           before(c) == CHOOSE i \in 1 .. n - 1 : Order[i + 1] = c
<1>1. Order \in Seq(Slot) /\ IsInjective(Order) /\ ToSet(Order) = Slot
  BY MessageQueueAssumption, SetToSeqProperties DEF Order
<1>2. Order # <<>>
  BY <1>1, MessageQueueAssumption, EmptyList
<1>3. n \in Nat \ {0} /\ Head(Order) = Order[1] /\ Last(Order) = Order[n] /\ DOMAIN Order = 1 .. n
  BY <1>1, <1>2 DEF Last
<1>4. \A i, j \in 1 .. n : Order[i] = Order[j] => i = j
  BY <1>1, <1>3 DEF IsInjective
<1>5. \A i \in 1 .. n : Order[i] \in Slot
  BY <1>1
<1> HIDE DEF n
<1>6. \A i \in 2 .. n : before(Order[i]) = i - 1
  <2> SUFFICES ASSUME NEW i \in 2 .. n PROVE before(Order[i]) = i - 1
    OBVIOUS
  <2>1. i - 1 \in 1 .. n - 1 /\ Order[i - 1 + 1] = Order[i]
    BY <1>3
  <2>2. \A j \in 1 .. n - 1 : Order[j + 1] = Order[i] => j = i - 1
    BY <1>3, <1>4
  <2> QED BY <2>1, <2>2
<1>7. f = [i \in 1 .. n |-> Order[n - i + 1]]
  BY DEF Reverse, n
<1>8. /\ f \in Seq(Slot) /\ Len(f) = n /\ f # <<>> /\ DOMAIN f = 1 .. n
      /\ \A i \in 1 .. n : n - i + 1 \in 1 .. n /\ f[i] = Order[n - i + 1]
  <2>1. \A i \in 1 .. n : n - i + 1 \in 1 .. n
    BY <1>3
  <2>2. f \in [1 .. n -> Slot]
    BY <1>5, <1>7, <2>1
  <2>3. f \in Seq(Slot) /\ Len(f) = n
    BY <1>3, <2>2
  <2> QED BY <1>3, <1>7, <2>1, <2>2, <2>3
<1> HIDE DEF f
<1>9. IsInjective(f)
  <2> SUFFICES ASSUME NEW i \in 1 .. n, NEW j \in 1 .. n, f[i] = f[j] PROVE i = j
    BY <1>8 DEF IsInjective
  <2>1. n - i + 1 = n - j + 1
    <3>1. /\ n - i + 1 \in 1 .. n /\ n - j + 1 \in 1 .. n
          /\ Order[n - i + 1] = Order[n - j + 1]
      BY <1>8
    <3> QED BY <1>4, <3>1
  <2> QED BY <1>3, <2>1
<1>10. ToSet(f) = Slot
  <2>1. ToSet(f) \subseteq Slot
    BY <1>8, EmptyList
  <2>2. ASSUME NEW c \in Slot PROVE c \in ToSet(f)
    <3>1. PICK i \in 1 .. n : Order[i] = c
      BY <1>1, <1>3 DEF ToSet
    <3>2. n - i + 1 \in 1 .. n /\ n - (n - i + 1) + 1 = i
      BY <1>3
    <3>3. f[n - i + 1] = c
      BY <1>8, <3>1, <3>2
    <3> QED BY <1>8, <3>2, <3>3 DEF ToSet
  <2> QED BY <2>1, <2>2
<1>11. \A c \in Slot : Empty.next[c] = IF c = Order[1] THEN Null ELSE Order[before(c)]
  BY <1>3 DEF Empty, n
<1> HIDE DEF before
<1>12. \A i \in 1 .. n : Empty.next[Order[i]] = IF i = 1 THEN Null ELSE Order[i - 1]
  <2> SUFFICES ASSUME NEW i \in 1 .. n
               PROVE  Empty.next[Order[i]] = IF i = 1 THEN Null ELSE Order[i - 1]
    OBVIOUS
  <2>1. CASE i = 1
    BY <1>5, <1>11, <2>1
  <2>2. CASE i # 1
    <3>1. i \in 2 .. n /\ 1 \in 1 .. n
      BY <1>3, <2>2
    <3>2. Order[i] # Order[1] /\ before(Order[i]) = i - 1
      BY <1>4, <1>6, <2>2, <3>1
    <3> QED BY <1>5, <1>11, <2>2, <3>2
  <2> QED BY <2>1, <2>2
<1>13. Linked(Empty.next, Empty.free, f)
  <2>1. Empty.free = f[1]
    <3>1. n - 1 + 1 = n /\ 1 \in 1 .. n
      BY <1>3
    <3> QED BY <1>3, <1>8, <3>1 DEF Empty
  <2>2. ASSUME NEW i \in 1 .. n
        PROVE  Empty.next[f[i]] = IF i = n THEN Null ELSE f[i + 1]
    <3> DEFINE k == n - i + 1
    <3>1. k \in 1 .. n /\ (k = 1 <=> i = n) /\ f[i] = Order[k]
      BY <1>3, <1>8
    <3>2. ASSUME i # n PROVE f[i + 1] = Order[k - 1]
      <4>1. i + 1 \in 1 .. n /\ n - (i + 1) + 1 = k - 1
        BY <1>3, <3>2
      <4> HIDE DEF k
      <4> QED BY <1>8, <4>1
    <3> HIDE DEF k
    <3>3. Empty.next[Order[k]] = IF k = 1 THEN Null ELSE Order[k - 1]
      BY <1>12, <3>1
    <3> QED BY <3>1, <3>2, <3>3
  <2> QED BY <1>8, <2>1, <2>2 DEF Linked
<1>14. /\ Empty.head = Null /\ Empty.tail = Null /\ Empty.entry = 0
       /\ Empty.free \in Slot /\ Empty.next \in [Slot -> SlotOrNull]
       /\ Empty = [free |-> Empty.free, head |-> Empty.head, tail |-> Empty.tail,
                   entry |-> Empty.entry, next |-> Empty.next]
  <2>1. Empty.free \in Slot
    BY <1>3, <1>5 DEF Empty
  <2>2. Empty.next \in [Slot -> SlotOrNull]
    <3>1. \A c \in Slot : Empty.next[c] \in SlotOrNull
      <4> SUFFICES ASSUME NEW c \in Slot PROVE Empty.next[c] \in SlotOrNull
        OBVIOUS
      <4>1. PICK i \in 1 .. n : Order[i] = c
        BY <1>1, <1>3 DEF ToSet
      <4>2. i # 1 => i - 1 \in 1 .. n
        BY <1>3
      <4> QED BY <1>5, <1>12, <4>1, <4>2 DEF SlotOrNull
    <3>2. Empty.next = [c \in Slot |-> Empty.next[c]]
      BY DEF Empty
    <3> QED BY <3>1, <3>2
  <2> QED BY <2>1, <2>2 DEF Empty
<1>15. Empty \in QState
  <2>1. 0 \in 0 .. Cardinality(Slot)
    BY MessageQueueAssumption, FS_CardinalityType
  <2> QED BY <1>14, <2>1 DEF QState, SlotOrNull
<1>16. Lists(Empty, f, <<>>)
  <2>1. <<>> \in Seq(Slot) /\ IsInjective(<<>>) /\ ToSet(<<>>) = {}
    BY DEF IsInjective, ToSet
  <2>2. Linked(Empty.next, Null, <<>>)
    BY DEF Linked
  <2> QED BY <1>8, <1>9, <1>13, <1>14, <2>1, <2>2 DEF Lists
<1> QED BY <1>10, <1>14, <1>15, <1>16

-----------------------------------------------------------------------------
(* The inductive invariant. *)

Holding == {"fill", "fillurgent", "link", "linkurgent", "copy", "give"}

(* A call that fills, links, copies or gives back has one slot of its own,  *)
(* which is in neither list; one that will link it last has cleared its     *)
(* link.  Every slot is somewhere.                                          *)
HeldOK ==
  /\ \A a \in Actor : slot[a] # Null <=> pc[a] \in Holding
  /\ \A a \in Actor : slot[a] # Null => slot[a] \notin ToSet(Free) \cup ToSet(Messages)
  /\ \A a, b \in Actor : slot[a] # Null /\ slot[a] = slot[b] => a = b
  /\ \A c \in Slot : c \in ToSet(Free) \cup ToSet(Messages) \/ \E a \in Actor : slot[a] = c
  /\ \A a \in Actor : pc[a] = "link" => q.next[slot[a]] = Null

(* What is in the list, or in the hands of a call, is a message.            *)
ContentOK ==
  /\ \A c \in ToSet(Messages) : content[c] \in Msg
  /\ \A a \in Actor : pc[a] \in {"link", "linkurgent", "copy"} => content[slot[a]] \in Msg
  /\ \A a \in Actor : pc[a] \in {"fill", "fillurgent", "send", "give"} => buf[a] \in Msg

(* Who is in a wait list waits for what the list is for, and will return an *)
(* error unless it is woken.                                                *)
WaitersOK ==
  /\ IsInjective(senders) /\ IsInjective(receivers)
  /\ \A t \in ToSet(senders) : pc[t] = "send"
  /\ \A t \in ToSet(receivers) : pc[t] = "recv"
  /\ \A t \in Thread : Suspended(t) => err[t] = "-EINTR"

ListsOK == Lists(q, Free, Messages) /\ q.entry = Len(Messages)

Inv ==
  /\ TypeOK
  /\ ListsOK
  /\ HeldOK
  /\ ContentOK
  /\ WaitersOK
  /\ Nested \/ NoLostWakeup

(* Lists that are in order are what walking along the links gives.          *)
LEMMA ListsWalked ==
  ASSUME NEW z, NEW f, NEW m, Lists(z, f, m)
  PROVE  Chain(z.next, z.free) = f /\ Chain(z.next, z.head) = m
  BY ChainIs DEF Lists

(* How the woken are counted.                                               *)
LEMMA CountWoken ==
  ASSUME NEW V \in SUBSET Thread, NEW W \in SUBSET Thread
  PROVE  /\ Cardinality(V) \in Nat /\ Cardinality(W) \in Nat
         /\ V \subseteq W => Cardinality(V) <= Cardinality(W)
         /\ \A t : V \ {t} \subseteq W => Cardinality(V) <= Cardinality(W) + 1
         /\ \A t \in W : V \subseteq W /\ t \notin V => Cardinality(V) + 1 <= Cardinality(W)
<1>1. IsFiniteSet(V) /\ IsFiniteSet(W)
  BY MessageQueueAssumption, FS_Subset
<1>2. Cardinality(V) \in Nat /\ Cardinality(W) \in Nat
  BY <1>1, FS_CardinalityType
<1>3. V \subseteq W => Cardinality(V) <= Cardinality(W)
  BY <1>1, FS_Subset
<1>4. ASSUME NEW t, V \ {t} \subseteq W PROVE Cardinality(V) <= Cardinality(W) + 1
  <2>1. /\ IsFiniteSet(V \ {t})
        /\ Cardinality(V \ {t}) = IF t \in V THEN Cardinality(V) - 1 ELSE Cardinality(V)
    BY <1>1, FS_RemoveElement
  <2>2. Cardinality(V \ {t}) <= Cardinality(W)
    BY <1>1, <1>4, FS_Subset
  <2>3. Cardinality(V \ {t}) \in Nat
    BY <2>1, FS_CardinalityType
  <2> QED BY <1>2, <2>1, <2>2, <2>3
<1>5. ASSUME NEW t \in W, V \subseteq W, t \notin V PROVE Cardinality(V) + 1 <= Cardinality(W)
  <2>1. IsFiniteSet(V \cup {t}) /\ Cardinality(V \cup {t}) = Cardinality(V) + 1
    BY <1>1, <1>5, FS_AddElement
  <2>2. Cardinality(V \cup {t}) <= Cardinality(W)
    BY <1>1, <1>5, FS_Subset
  <2> QED BY <2>1, <2>2
<1> QED BY <1>2, <1>3, <1>4, <1>5

(* Waking or removing waiters, and steps of threads that do not wait.       *)
LEMMA WaitersShrink ==
  ASSUME TypeOK, WaitersOK, TypeOK',
         IsInjective(senders'), ToSet(senders') \subseteq ToSet(senders),
         IsInjective(receivers'), ToSet(receivers') \subseteq ToSet(receivers),
         \A t \in Thread : Suspended(t)' => err'[t] = err[t] /\ pc'[t] = pc[t]
  PROVE  WaitersOK'
<1>1. ToSet(senders') \subseteq Thread /\ ToSet(receivers') \subseteq Thread
  BY EmptyList DEF TypeOK
<1>2. \A t \in ToSet(senders') : pc'[t] = "send"
  BY <1>1 DEF Suspended, WaitersOK
<1>3. \A t \in ToSet(receivers') : pc'[t] = "recv"
  BY <1>1 DEF Suspended, WaitersOK
<1>4. \A t \in Thread : Suspended(t)' => err'[t] = "-EINTR"
  BY DEF Suspended, WaitersOK
<1> QED BY <1>2, <1>3, <1>4 DEF WaitersOK

(* Who steps in a call is not in a wait list.                               *)
LEMMA RunsOrWoken ==
  ASSUME TypeOK, WaitersOK, NEW a \in Actor, pc[a] \notin {"send", "recv"}
  PROVE  ~ Suspended(a)
  BY DEF Suspended, WaitersOK

(* What a wake-up leaves of a list.                                         *)
LEMMA FirstWoken ==
  ASSUME NEW l \in Seq(Thread), IsInjective(l), NEW r, r = Waiters(l)
  PROVE  /\ r \in Seq(Thread) /\ IsInjective(r)
         /\ ToSet(r) = ToSet(l) \ First(l) /\ First(l) \subseteq ToSet(l)
         /\ ToSet(l) \subseteq Thread
<1>1. ToSet(l) \subseteq Thread /\ First(l) \subseteq ToSet(l)
  BY EmptyList, TailProperties DEF First, Tried
<1>2. CASE First(l) = {}
  BY <1>1, <1>2 DEF Waiters
<1>3. CASE First(l) # {}
  <2>1. l # <<>> /\ First(l) = {Head(l)} /\ r = Tail(l)
    BY <1>3 DEF First, Tried, Waiters
  <2> QED BY <1>1, <2>1, TailProperties
<1> QED BY <1>2, <1>3

(* A handler that cannot interrupt the tick finds no timer firing.          *)
LEMMA FirstReady ==
  ASSUME NEW a, CanRun(a), ~ Nested, NEW l \in Seq(Thread), l # <<>>
  PROVE  First(l) = {Head(l)}
<1>1. Head(l) \in Thread
  BY EmptyList, TailProperties
<1>2. timer[Head(l)] # "firing"
  BY <1>1 DEF CanRun, InCallback
<1> QED BY <1>2 DEF First, Tried

(* Initially. *)
LEMMA InitInv ==
  ASSUME Init
  PROVE  Inv
<1>1. PICK f : Lists(Empty, f, <<>>) /\ ToSet(f) = Slot
  BY EmptyLists
<1>2. Empty \in QState /\ Empty.entry = 0
  BY EmptyLists
<1>3. q = Empty
  BY DEF Init
<1>4. Free = f /\ Messages = <<>>
  BY <1>1, <1>3, ListsWalked DEF Free, Messages
<1>5. <<>> \in Seq(Thread) /\ IsInjective(<<>>) /\ ToSet(<<>>) = {}
  BY DEF IsInjective, ToSet
<1>6. TypeOK
  BY <1>2, <1>5 DEF Init, TypeOK, SlotOrNull, Pc, Error, TimerState
<1>7. ListsOK
  BY <1>1, <1>2, <1>3, <1>4 DEF ListsOK
<1>8. HeldOK
  BY <1>1, <1>4 DEF Init, HeldOK, Holding
<1>9. ContentOK
  BY <1>4, <1>5 DEF Init, ContentOK
<1>10. WaitersOK
  BY <1>5 DEF Init, WaitersOK, Suspended
<1>11. Nested \/ NoLostWakeup
  BY DEF Init, NoLostWakeup
<1> QED BY <1>6, <1>7, <1>8, <1>9, <1>10, <1>11 DEF Inv

-----------------------------------------------------------------------------
(* Sends. *)

(* The lists of the next state.                                             *)
LEMMA NextLists ==
  ASSUME NEW f, NEW m, Lists(q', f, m), q'.entry = Len(m)
  PROVE  ListsOK' /\ Free' = f /\ Messages' = m
<1>1. Chain(q'.next, q'.free) = f /\ Chain(q'.next, q'.head) = m
  BY ListsWalked
<1>2. Free' = f /\ Messages' = m
  BY <1>1 DEF Free, Messages
<1> QED BY <1>2 DEF ListsOK

(* Taking the first free slot.                                              *)
LEMMA ClaimKeeps ==
  ASSUME Inv, NEW a \in Actor, NEW x \in Msg, NEW to \in {"fill", "fillurgent"},
         pc[a] \in {"run", "send"}, ~ Suspended(a), Claim(a, x, to)
  PROVE  Inv' /\ Messages' = Messages
<1> DEFINE f == Free
           m == Messages
           c == q.free
<1>1. /\ q \in QState /\ Lists(q, f, m) /\ q.entry = Len(m) /\ q.free # Null
      /\ f \in Seq(Slot) /\ IsInjective(f) /\ m \in Seq(Slot)
  BY DEF Inv, TypeOK, ListsOK, Claim, Lists
<1>2. /\ q' = [q EXCEPT !.free = q.next[q.free]]
      /\ slot' = [slot EXCEPT ![a] = c] /\ pc' = [pc EXCEPT ![a] = to]
      /\ buf' = [buf EXCEPT ![a] = x] /\ wait' = [wait EXCEPT ![a] = "none"]
      /\ UNCHANGED <<content, senders, receivers, err, timer>>
  BY DEF Claim
<1>3. /\ q' \in QState /\ Lists(q', Tail(f), m)
      /\ f # <<>> /\ c = Head(f) /\ c \in Slot
  BY <1>1, <1>2, ClaimLists
<1>4. q'.entry = q.entry /\ q'.next = q.next
  BY <1>1, <1>2 DEF QState
<1>5. ListsOK' /\ Free' = Tail(f) /\ Messages' = m
  BY <1>1, <1>3, <1>4, NextLists
<1>6. ToSet(Tail(f)) = ToSet(f) \ {c} /\ c \in ToSet(f) /\ Len(Tail(f)) = Len(f) - 1
  BY <1>1, <1>3, TailProperties, TailLast
<1>7. c \notin ToSet(m) /\ c # Null
  BY <1>1, <1>3, <1>6, MessageQueueAssumption DEF Lists
<1>8. TypeOK'
  BY <1>2, <1>3 DEF Inv, TypeOK, Pc, SlotOrNull
<1>9. slot[a] = Null
  BY DEF Inv, HeldOK, Holding
<1> HIDE DEF c, f, m
<1>10. HeldOK'
  <2>1. \A b \in Actor : slot'[b] = (IF b = a THEN c ELSE slot[b]) /\ pc'[b] = IF b = a THEN to ELSE pc[b]
    BY <1>2 DEF Inv, TypeOK
  <2>2. \A b \in Actor : slot[b] # c
    BY <1>6, <1>7 DEF Inv, HeldOK, f
  <2>3. \A b \in Actor : slot'[b] # Null <=> pc'[b] \in Holding
    BY <1>7, <2>1 DEF Inv, HeldOK, Holding
  <2>4. \A b \in Actor : slot'[b] # Null => slot'[b] \notin ToSet(Tail(f)) \cup ToSet(m)
    BY <1>6, <1>7, <2>1, <2>2 DEF Inv, HeldOK, f, m
  <2>5. \A b, d \in Actor : slot'[b] # Null /\ slot'[b] = slot'[d] => b = d
    BY <2>1, <2>2 DEF Inv, HeldOK
  <2>6. \A d \in Slot : d \in ToSet(Tail(f)) \cup ToSet(m) \/ \E b \in Actor : slot'[b] = d
    <3> SUFFICES ASSUME NEW d \in Slot, d \notin ToSet(Tail(f)) \cup ToSet(m)
                 PROVE  \E b \in Actor : slot'[b] = d
      OBVIOUS
    <3>1. CASE d = c
      BY <2>1, <3>1
    <3>2. CASE d # c
      <4>1. d \notin ToSet(f) \cup ToSet(m)
        BY <1>6, <3>2
      <4>2. PICK b \in Actor : slot[b] = d
        BY <4>1 DEF Inv, HeldOK, f, m
      <4>3. b # a
        BY <1>9, <4>2, MessageQueueAssumption
      <4> QED BY <2>1, <4>2, <4>3
    <3> QED BY <3>1, <3>2
  <2>7. \A b \in Actor : pc'[b] = "link" => q'.next[slot'[b]] = Null
    BY <1>4, <2>1 DEF Inv, HeldOK
  <2> QED BY <1>5, <2>3, <2>4, <2>5, <2>6, <2>7 DEF HeldOK
<1>11. ContentOK'
  <2>1. \A b \in Actor : b # a => slot'[b] = slot[b] /\ pc'[b] = pc[b] /\ buf'[b] = buf[b]
    BY <1>2 DEF Inv, TypeOK
  <2>2. pc'[a] = to /\ buf'[a] \in Msg
    BY <1>2 DEF Inv, TypeOK
  <2> QED BY <1>2, <1>5, <2>1, <2>2 DEF Inv, ContentOK, m
<1>12. WaitersOK'
  <2>1. \A t \in Thread : Suspended(t)' <=> Suspended(t)
    BY <1>2 DEF Suspended
  <2>2. \A t \in Thread : Suspended(t) => pc'[t] = pc[t]
    BY <1>2 DEF Inv, TypeOK, Actor
  <2> QED BY <1>2, <1>8, <2>1, <2>2, WaitersShrink DEF Inv, WaitersOK
<1>13. Nested \/ NoLostWakeup'
  <2> SUFFICES ASSUME ~ Nested PROVE NoLostWakeup'
    OBVIOUS
  <2>1. Woken("recv") \subseteq Woken("recv")'
    BY <1>2 DEF Woken, Suspended, Inv, TypeOK, Actor
  <2>2. Woken("send") \ {a} \subseteq Woken("send")'
    BY <1>2 DEF Woken, Suspended, Inv, TypeOK, Actor
  <2>3. \A at : Woken(at) \in SUBSET Thread /\ Woken(at)' \in SUBSET Thread
    BY DEF Woken
  <2>4. receivers' # <<>> => q'.entry <= Cardinality(Woken("recv"))'
    <3>1. Cardinality(Woken("recv")) <= Cardinality(Woken("recv")')
          /\ Cardinality(Woken("recv")) \in Nat /\ Cardinality(Woken("recv")') \in Nat
      BY <2>1, <2>3, CountWoken
    <3>2. q.entry \in Nat
      BY <1>1
    <3> QED BY <1>2, <1>4, <3>1, <3>2 DEF Inv, NoLostWakeup
  <2>5. senders' # <<>> => Len(Free') <= Cardinality(Woken("send")')
    <3>1. Cardinality(Woken("send")) <= Cardinality(Woken("send")') + 1
          /\ Cardinality(Woken("send")) \in Nat /\ Cardinality(Woken("send")') \in Nat
      BY <2>2, <2>3, CountWoken
    <3>2. Len(f) \in Nat
      BY <1>1 DEF f
    <3>3. senders # <<>> => Len(f) <= Cardinality(Woken("send"))
      BY DEF Inv, NoLostWakeup, f
    <3> QED BY <1>2, <1>5, <1>6, <3>1, <3>2, <3>3
  <2> QED BY <2>4, <2>5 DEF NoLostWakeup
<1> QED BY <1>5, <1>8, <1>10, <1>11, <1>12, <1>13 DEF Inv, m

(* A thread that finds nothing joins a wait list; q and the slots stay.     *)
LEMMA BlockKeeps ==
  ASSUME Inv, NEW t \in Thread, NEW to \in {"send", "recv"}, NEW w \in {"finite", "forever"},
         pc[t] \in {"run", "send", "recv"}, ~ Suspended(t),
         pc' = [pc EXCEPT ![t] = to], Wait(t, w),
         buf' \in [Actor -> Msg \cup {Null}],
         \A b \in Actor : b # t => buf'[b] = buf[b],
         to = "send" => buf'[t] \in Msg,
         IF to = "send"
           THEN q.free = Null /\ senders' \in Enqueue(senders, t) /\ UNCHANGED receivers
           ELSE q.entry = 0 /\ receivers' \in Enqueue(receivers, t) /\ UNCHANGED senders,
         to = "send" => pc[t] # "recv", to = "recv" => pc[t] # "send",
         UNCHANGED <<q, content, slot>>
  PROVE  Inv' /\ Messages' = Messages
<1>1. /\ senders \in Seq(Thread) /\ IsInjective(senders) /\ t \notin ToSet(senders)
      /\ receivers \in Seq(Thread) /\ IsInjective(receivers) /\ t \notin ToSet(receivers)
  BY DEF Inv, TypeOK, WaitersOK, Suspended
<1>2. /\ senders' \in Seq(Thread) /\ IsInjective(senders')
      /\ ToSet(senders') = ToSet(senders) \cup (IF to = "send" THEN {t} ELSE {})
  <2>1. CASE to = "send"
    <3>1. PICK i \in 1 .. Len(senders) + 1 : senders' = InsertAt(senders, i, t)
      BY <2>1 DEF Enqueue
    <3> QED BY <1>1, <2>1, <3>1, InsertAtProperties, InsertAtInjective
  <2>2. CASE to # "send"
    BY <1>1, <2>2
  <2> QED BY <2>1, <2>2
<1>3. /\ receivers' \in Seq(Thread) /\ IsInjective(receivers')
      /\ ToSet(receivers') = ToSet(receivers) \cup (IF to = "recv" THEN {t} ELSE {})
  <2>1. CASE to = "recv"
    <3>1. PICK i \in 1 .. Len(receivers) + 1 : receivers' = InsertAt(receivers, i, t)
      BY <2>1 DEF Enqueue
    <3> QED BY <1>1, <2>1, <3>1, InsertAtProperties, InsertAtInjective
  <2>2. CASE to # "recv"
    BY <1>1, <2>2
  <2> QED BY <2>1, <2>2
<1>4. Free' = Free /\ Messages' = Messages
  BY DEF Free, Messages
<1>5. TypeOK'
  BY <1>2, <1>3 DEF Inv, TypeOK, Wait, Pc, Error, TimerState, Actor
<1>6. ListsOK'
  BY <1>4 DEF Inv, ListsOK
<1>7. \A b \in Actor : pc'[b] = IF b = t THEN to ELSE pc[b]
  BY DEF Inv, TypeOK
<1>8. HeldOK'
  <2>1. \A b \in Actor : pc'[b] \in Holding <=> pc[b] \in Holding
    BY <1>7 DEF Holding
  <2>2. \A b \in Actor : pc'[b] = "link" => pc[b] = "link"
    BY <1>7
  <2> QED BY <1>4, <2>1, <2>2 DEF Inv, HeldOK
<1>9. ContentOK'
  BY <1>4, <1>7 DEF Inv, ContentOK
<1>10. WaitersOK'
  <2>1. \A u \in Thread : err'[u] = IF u = t THEN "-EINTR" ELSE err[u]
    BY DEF Wait, Inv, TypeOK
  <2>2. \A u \in Thread : Suspended(u)' <=> Suspended(u) \/ u = t
    BY <1>2, <1>3 DEF Suspended
  <2>3. \A u \in ToSet(senders') : pc'[u] = "send"
    <3>1. ToSet(senders') \subseteq Actor
      BY <1>2, EmptyList DEF Actor
    <3> QED BY <1>1, <1>2, <1>7, <3>1 DEF Inv, WaitersOK
  <2>4. \A u \in ToSet(receivers') : pc'[u] = "recv"
    <3>1. ToSet(receivers') \subseteq Actor
      BY <1>3, EmptyList DEF Actor
    <3> QED BY <1>1, <1>3, <1>7, <3>1 DEF Inv, WaitersOK
  <2> QED BY <1>2, <1>3, <2>1, <2>2, <2>3, <2>4 DEF Inv, WaitersOK
<1>11. Nested \/ NoLostWakeup'
  <2> SUFFICES ASSUME ~ Nested PROVE NoLostWakeup'
    OBVIOUS
  <2>1. \A u \in Thread : u # t => /\ pc'[u] = pc[u] /\ err'[u] = err[u]
                                   /\ Suspended(u)' <=> Suspended(u)
    BY <1>2, <1>3, <1>7 DEF Suspended, Wait, Inv, TypeOK, Actor
  <2>2. CASE to = "send"
    <3>1. Woken("recv") \subseteq Woken("recv")'
      BY <2>1, <2>2 DEF Woken
    <3>2. Cardinality(Woken("recv")) <= Cardinality(Woken("recv")')
          /\ Cardinality(Woken("recv")) \in Nat /\ Cardinality(Woken("recv")') \in Nat
      BY <3>1, CountWoken DEF Woken
    <3>3. q.entry \in Nat
      BY DEF Inv, TypeOK, QState
    <3>4. receivers' # <<>> => q'.entry <= Cardinality(Woken("recv")')
      BY <2>2, <3>2, <3>3 DEF Inv, NoLostWakeup
    <3>5. Free = <<>>
      BY <2>2, LinkedEmpty DEF Inv, ListsOK, Lists
    <3>6. Cardinality(Woken("send")') \in Nat
      BY CountWoken DEF Woken
    <3>7. Len(Free') <= Cardinality(Woken("send")')
      BY <1>4, <3>5, <3>6
    <3> QED BY <3>4, <3>7 DEF NoLostWakeup
  <2>3. CASE to = "recv"
    <3>1. Woken("send") \subseteq Woken("send")'
      BY <2>1, <2>3 DEF Woken
    <3>2. Cardinality(Woken("send")) <= Cardinality(Woken("send")')
          /\ Cardinality(Woken("send")) \in Nat /\ Cardinality(Woken("send")') \in Nat
      BY <3>1, CountWoken DEF Woken
    <3>3. Len(Free) \in Nat
      BY DEF Inv, ListsOK, Lists
    <3>4. senders' # <<>> => Len(Free') <= Cardinality(Woken("send")')
      BY <1>4, <2>3, <3>2, <3>3 DEF Inv, NoLostWakeup
    <3>5. Cardinality(Woken("recv")') \in Nat
      BY CountWoken DEF Woken
    <3>6. q'.entry <= Cardinality(Woken("recv")')
      BY <2>3, <3>5
    <3> QED BY <3>4, <3>6 DEF NoLostWakeup
  <2> QED BY <2>2, <2>3
<1> QED BY <1>4, <1>5, <1>6, <1>8, <1>9, <1>10, <1>11 DEF Inv

(* A thread that has waited returns: it was not woken, or it finds nothing  *)
(* and has no time left.                                                    *)
LEMMA QuitKeeps ==
  ASSUME Inv, NEW t \in Thread, pc[t] \in {"send", "recv"}, ~ Suspended(t), Return(t),
         UNCHANGED <<lists, timer>>,
         err' \in [Thread -> Error], \A u \in Thread : u # t => err'[u] = err[u],
         \/ err[t] # "EOK"
         \/ pc[t] = "send" /\ q.free = Null
         \/ pc[t] = "recv" /\ q.entry = 0
  PROVE  Inv' /\ Messages' = Messages
<1>1. Free' = Free /\ Messages' = Messages
  BY DEF Free, Messages, lists
<1>2. \A b \in Actor : b # t => pc'[b] = pc[b] /\ slot'[b] = slot[b] /\ buf'[b] = buf[b]
  BY DEF Return, Inv, TypeOK
<1>3. pc'[t] = "run" /\ slot'[t] = Null /\ slot[t] = Null
  BY DEF Return, Inv, TypeOK, HeldOK, Holding, Actor
<1>4. TypeOK'
  BY DEF Inv, TypeOK, Return, lists, Pc, SlotOrNull
<1>5. ListsOK'
  BY <1>1 DEF Inv, ListsOK, lists
<1>6. HeldOK'
  <2>1. \A b \in Actor : slot'[b] = slot[b]
    BY <1>2, <1>3
  <2>2. \A b \in Actor : /\ pc'[b] \in Holding <=> pc[b] \in Holding
                         /\ pc'[b] = "link" => pc[b] = "link"
    BY <1>2, <1>3 DEF Holding
  <2>3. q' = q
    BY DEF lists
  <2> QED BY <1>1, <2>1, <2>2, <2>3 DEF Inv, HeldOK
<1>7. ContentOK'
  BY <1>1, <1>2, <1>3 DEF Inv, ContentOK, lists
<1>8. \A u \in Thread : Suspended(u)' <=> Suspended(u)
  BY DEF Suspended, lists
<1>9. WaitersOK'
  <2>1. \A u \in Thread : Suspended(u) => pc'[u] = pc[u] /\ err'[u] = err[u]
    BY <1>2 DEF Actor
  <2> QED BY <1>4, <1>8, <2>1, WaitersShrink DEF Inv, WaitersOK, lists
<1>10. Nested \/ NoLostWakeup'
  <2> SUFFICES ASSUME ~ Nested PROVE NoLostWakeup'
    OBVIOUS
  <2>1. \A u \in Thread : u # t => pc'[u] = pc[u] /\ err'[u] = err[u]
    BY <1>2 DEF Actor
  <2>2. \A at : Woken(at) \ {t} \subseteq Woken(at)'
    BY <1>8, <2>1 DEF Woken
  <2>3. err[t] # "EOK" => \A at : t \notin Woken(at)
    BY DEF Woken
  <2>4. pc[t] = "send" => t \notin Woken("recv")
    BY DEF Woken
  <2>5. pc[t] = "recv" => t \notin Woken("send")
    BY DEF Woken
  <2>6. \A at : Woken(at) \in SUBSET Thread /\ Woken(at)' \in SUBSET Thread
    BY DEF Woken
  <2>7. receivers' # <<>> => q'.entry <= Cardinality(Woken("recv")')
    <3>1. CASE t \notin Woken("recv")
      <4>1. Woken("recv") \subseteq Woken("recv")'
        BY <2>2, <3>1
      <4>2. Cardinality(Woken("recv")) <= Cardinality(Woken("recv")')
            /\ Cardinality(Woken("recv")) \in Nat /\ Cardinality(Woken("recv")') \in Nat
        BY <2>6, <4>1, CountWoken
      <4>3. q.entry \in Nat
        BY DEF Inv, TypeOK, QState
      <4> QED BY <4>2, <4>3 DEF Inv, NoLostWakeup, lists
    <3>2. CASE q.entry = 0
      <4>1. Cardinality(Woken("recv")') \in Nat
        BY <2>6, CountWoken
      <4> QED BY <3>2, <4>1 DEF lists
    <3> QED BY <2>3, <2>4, <3>1, <3>2
  <2>8. senders' # <<>> => Len(Free') <= Cardinality(Woken("send")')
    <3>1. CASE t \notin Woken("send")
      <4>1. Woken("send") \subseteq Woken("send")'
        BY <2>2, <3>1
      <4>2. Cardinality(Woken("send")) <= Cardinality(Woken("send")')
            /\ Cardinality(Woken("send")) \in Nat /\ Cardinality(Woken("send")') \in Nat
        BY <2>6, <4>1, CountWoken
      <4>3. Len(Free) \in Nat
        BY DEF Inv, ListsOK, Lists
      <4> QED BY <1>1, <4>2, <4>3 DEF Inv, NoLostWakeup, lists
    <3>2. CASE q.free = Null
      <4>1. Cardinality(Woken("send")') \in Nat
        BY <2>6, CountWoken
      <4>2. Free = <<>>
        BY <3>2, LinkedEmpty DEF Inv, ListsOK, Lists
      <4> QED BY <1>1, <4>1, <4>2
    <3> QED BY <2>3, <2>5, <3>1, <3>2
  <2> QED BY <2>7, <2>8 DEF NoLostWakeup
<1> QED BY <1>1, <1>4, <1>5, <1>6, <1>7, <1>9, <1>10 DEF Inv

(* Writing the message into the slot, which no one else looks at.           *)
LEMMA FillKeeps ==
  ASSUME Inv, NEW a \in Actor, Fill(a)
  PROVE  /\ Inv' /\ Messages' = Messages
         /\ pc[a] \in {"fill", "fillurgent"} /\ pc'[a] \in {"link", "linkurgent"}
         /\ \A b \in Actor : b # a => pc'[b] = pc[b] /\ slot[b] # slot[a]
<1> DEFINE f == Free
           m == Messages
           c == slot[a]
<1>1. /\ q \in QState /\ Lists(q, f, m) /\ q.entry = Len(m) /\ m \in Seq(Slot)
  BY DEF Inv, TypeOK, ListsOK, Lists
<1>2. /\ pc[a] \in {"fill", "fillurgent"}
      /\ content' = [content EXCEPT ![c] = buf[a]]
      /\ q' = IF pc[a] = "fill" THEN [q EXCEPT !.next[c] = Null] ELSE q
      /\ pc' = [pc EXCEPT ![a] = IF pc[a] = "fill" THEN "link" ELSE "linkurgent"]
      /\ UNCHANGED <<senders, receivers, slot, buf, wait, err, timer>>
  BY DEF Fill
<1>3. c # Null /\ c \in Slot /\ c \notin ToSet(f) \cup ToSet(m) /\ buf[a] \in Msg
  <2>1. c # Null
    BY <1>2 DEF Inv, HeldOK, Holding
  <2> QED BY <1>2, <2>1 DEF Inv, HeldOK, TypeOK, SlotOrNull, ContentOK
<1>4. /\ q' \in QState /\ Lists(q', f, m) /\ q'.entry = q.entry
      /\ pc[a] = "fill" => q'.next[c] = Null
      /\ \A e \in Slot : e # c => q'.next[e] = q.next[e]
      /\ q'.free = q.free
  <2>1. CASE pc[a] = "fill"
    <3>1. Null \in SlotOrNull
      BY DEF SlotOrNull
    <3>2. q' = [q EXCEPT !.next[c] = Null]
      BY <1>2, <2>1
    <3> HIDE DEF c, f, m
    <3> QED BY <1>1, <1>3, <3>1, <3>2, FillLists
  <2>2. CASE pc[a] # "fill"
    BY <1>1, <1>2, <2>2
  <2> QED BY <2>1, <2>2
<1>5. ListsOK' /\ Free' = f /\ Messages' = m
  BY <1>1, <1>4, NextLists
<1>6. TypeOK'
  BY <1>2, <1>3, <1>4 DEF Inv, TypeOK, Pc
<1>7. /\ \A b \in Actor : b # a => pc'[b] = pc[b]
      /\ pc'[a] = IF pc[a] = "fill" THEN "link" ELSE "linkurgent"
  BY <1>2 DEF Inv, TypeOK
<1>8. \A b \in Actor : b # a => slot[b] # c
  BY <1>3 DEF Inv, HeldOK
<1> HIDE DEF c, f, m
<1>9. HeldOK'
  <2>1. \A b \in Actor : pc'[b] \in Holding <=> pc[b] \in Holding
    BY <1>2, <1>7 DEF Holding
  <2>2. \A b \in Actor : pc'[b] = "link" => q'.next[slot'[b]] = Null
    <3> SUFFICES ASSUME NEW b \in Actor, pc'[b] = "link" PROVE q'.next[slot'[b]] = Null
      OBVIOUS
    <3>1. CASE b = a
      BY <1>2, <1>4, <1>7, <3>1 DEF c
    <3>2. CASE b # a
      <4>1. pc[b] = "link" /\ slot[b] # Null
        BY <1>7, <3>2 DEF Inv, HeldOK, Holding
      <4>2. slot[b] \in Slot
        BY <4>1 DEF Inv, TypeOK, SlotOrNull
      <4> QED BY <1>2, <1>4, <1>8, <3>2, <4>1, <4>2 DEF Inv, HeldOK
    <3> QED BY <3>1, <3>2
  <2> QED BY <1>2, <1>5, <2>1, <2>2 DEF Inv, HeldOK, f, m
<1>10. ContentOK'
  <2>1. \A e \in Slot : content'[e] = IF e = c THEN buf[a] ELSE content[e]
    BY <1>2 DEF Inv, TypeOK
  <2>2. \A e \in ToSet(m) : content'[e] \in Msg
    BY <1>1, <1>3, <2>1, EmptyList DEF Inv, ContentOK, m
  <2>3. ASSUME NEW b \in Actor, pc'[b] \in {"link", "linkurgent", "copy"}
        PROVE  content'[slot'[b]] \in Msg
    <3>1. CASE b = a
      BY <1>2, <1>3, <2>1, <3>1 DEF c
    <3>2. CASE b # a
      <4>1. pc[b] = pc'[b] /\ slot[b] # Null
        BY <1>7, <2>3, <3>2 DEF Inv, HeldOK, Holding
      <4>2. slot[b] \in Slot
        BY <4>1 DEF Inv, TypeOK, SlotOrNull
      <4> QED BY <1>2, <1>8, <2>1, <2>3, <3>2, <4>1, <4>2 DEF Inv, ContentOK
    <3> QED BY <3>1, <3>2
  <2>4. \A b \in Actor : pc'[b] \in {"fill", "fillurgent", "send", "give"} => buf'[b] \in Msg
    BY <1>2, <1>7 DEF Inv, ContentOK
  <2> QED BY <1>5, <2>2, <2>3, <2>4 DEF ContentOK
<1>11. \A t \in Thread : Suspended(t)' <=> Suspended(t)
  BY <1>2 DEF Suspended
<1>12. \A t \in Thread : /\ Suspended(t) => pc'[t] = pc[t]
                         /\ pc[t] \in {"send", "recv"} => pc'[t] = pc[t]
  <2>1. ~ Suspended(a)
    BY <1>2, RunsOrWoken DEF Inv
  <2> QED BY <1>2, <1>7, <2>1 DEF Actor
<1>13. WaitersOK'
  BY <1>2, <1>6, <1>11, <1>12, WaitersShrink DEF Inv, WaitersOK
<1>14. Nested \/ NoLostWakeup'
  <2> SUFFICES ASSUME ~ Nested PROVE NoLostWakeup'
    OBVIOUS
  <2>1. Woken("recv") \subseteq Woken("recv")' /\ Woken("send") \subseteq Woken("send")'
    BY <1>2, <1>11, <1>12 DEF Woken
  <2>2. /\ Cardinality(Woken("recv")) <= Cardinality(Woken("recv")')
        /\ Cardinality(Woken("recv")) \in Nat /\ Cardinality(Woken("recv")') \in Nat
    BY <2>1, CountWoken DEF Woken
  <2>3. /\ Cardinality(Woken("send")) <= Cardinality(Woken("send")')
        /\ Cardinality(Woken("send")) \in Nat /\ Cardinality(Woken("send")') \in Nat
    BY <2>1, CountWoken DEF Woken
  <2>4. q.entry \in Nat /\ Len(f) \in Nat
    BY <1>1 DEF QState, Lists
  <2> QED BY <1>2, <1>4, <1>5, <2>2, <2>3, <2>4 DEF Inv, NoLostWakeup, f
<1> QED BY <1>2, <1>5, <1>6, <1>7, <1>8, <1>9, <1>10, <1>13, <1>14 DEF Inv, c, m

(* Linking the slot and waking a receiver.                                  *)
LEMMA LinkKeeps ==
  ASSUME Inv, NEW a \in Actor, Link(a)
  PROVE  /\ Inv'
         /\ slot[a] \in Slot /\ slot[a] \notin ToSet(Messages) /\ content[slot[a]] \in Msg
         /\ Len(Messages) < Cardinality(Slot)
         /\ Messages' = Append(Messages, slot[a]) \/ Messages' = Cons(slot[a], Messages)
<1> DEFINE f == Free
           m == Messages
           c == slot[a]
<1>1. /\ q \in QState /\ Lists(q, f, m) /\ q.entry = Len(m) /\ m \in Seq(Slot) /\ IsInjective(m)
  BY DEF Inv, TypeOK, ListsOK, Lists
<1>2. /\ pc[a] \in {"link", "linkurgent"}
      /\ q' = IF pc[a] = "link" THEN LinkLast(c) ELSE LinkFirst(c)
      /\ pc' = [pc EXCEPT ![a] = "run"] /\ slot' = [slot EXCEPT ![a] = Null]
      /\ buf' = [buf EXCEPT ![a] = Null] /\ wait' = [wait EXCEPT ![a] = "none"]
      /\ err' = [t \in Thread |-> IF t \in First(receivers) THEN "EOK" ELSE err[t]]
      /\ receivers' = Waiters(receivers) /\ CanRun(a)
      /\ UNCHANGED <<content, senders>>
  BY DEF Link, Return, Wake
<1>3. /\ c # Null /\ c \in Slot /\ c \notin ToSet(f) \cup ToSet(m) /\ content[c] \in Msg
      /\ pc[a] = "link" => q.next[c] = Null
  <2>1. c # Null
    BY <1>2 DEF Inv, HeldOK, Holding
  <2> QED BY <1>2, <2>1 DEF Inv, HeldOK, TypeOK, SlotOrNull, ContentOK
<1> DEFINE r == IF pc[a] = "link" THEN Append(m, c) ELSE Cons(c, m)
<1>4. /\ q' \in QState /\ Lists(q', f, r) /\ q'.entry = Len(m) + 1 /\ Len(r) = Len(m) + 1
      /\ Len(m) < Cardinality(Slot)
      /\ \A e \in Slot : e \notin ToSet(m) /\ e # c => q'.next[e] = q.next[e]
      /\ ToSet(r) = ToSet(m) \cup {c}
  <2>1. CASE pc[a] = "link"
    <3>1. r = Append(m, c) /\ q' = LinkLast(c)
      BY <1>2, <2>1
    <3>2. Len(Append(m, c)) = Len(m) + 1
      BY <1>1
    <3>3. ToSet(Append(m, c)) = ToSet(m) \cup {c}
      BY <1>1, <1>3, AppendNew
    <3>4. q.next[c] = Null
      BY <1>3, <2>1
    <3> HIDE DEF f, m, c, r
    <3> QED BY <1>1, <1>3, <3>1, <3>2, <3>3, <3>4, LinkLastLists
  <2>2. CASE pc[a] # "link"
    <3>1. r = Cons(c, m) /\ q' = LinkFirst(c)
      BY <1>2, <2>2
    <3>2. ToSet(Cons(c, m)) = ToSet(m) \cup {c}
      BY <1>1, <1>3, ConsNew
    <3> HIDE DEF f, m, c, r
    <3> QED BY <1>1, <1>3, <3>1, <3>2, LinkFirstLists
  <2> QED BY <2>1, <2>2
<1> HIDE DEF r
<1>5. ListsOK' /\ Free' = f /\ Messages' = r
  BY <1>4, NextLists
<1>6. /\ receivers \in Seq(Thread) /\ IsInjective(receivers)
      /\ senders \in Seq(Thread) /\ IsInjective(senders)
      /\ ToSet(senders) \subseteq Thread
  BY EmptyList DEF Inv, TypeOK, WaitersOK
<1>7. /\ receivers' \in Seq(Thread) /\ IsInjective(receivers')
      /\ ToSet(receivers') = ToSet(receivers) \ First(receivers)
      /\ First(receivers) \subseteq ToSet(receivers) /\ ToSet(receivers) \subseteq Thread
  BY <1>2, <1>6, FirstWoken
<1>8. TypeOK'
  <2>1. err' \in [Thread -> Error]
    BY <1>2 DEF Inv, TypeOK, Error
  <2>2. timer' \in [Thread -> TimerState]
    BY DEF Link, Wake, Stopped, TimerState, Inv, TypeOK
  <2> QED BY <1>2, <1>4, <1>7, <2>1, <2>2 DEF Inv, TypeOK, Pc, SlotOrNull
<1>9. /\ \A b \in Actor : b # a => pc'[b] = pc[b] /\ slot'[b] = slot[b] /\ buf'[b] = buf[b]
      /\ pc'[a] = "run" /\ slot'[a] = Null
  BY <1>2 DEF Inv, TypeOK
<1> HIDE DEF f, m, c
<1>10. HeldOK'
  <2>1. \A b \in Actor : slot'[b] # Null <=> pc'[b] \in Holding
    BY <1>9 DEF Inv, HeldOK, Holding
  <2>2. \A b \in Actor : slot'[b] # Null => b # a /\ slot[b] = slot'[b] /\ slot[b] # c
    BY <1>3, <1>9 DEF Inv, HeldOK, c
  <2>3. \A b \in Actor : slot'[b] # Null => slot'[b] \notin ToSet(f) \cup ToSet(r)
    BY <1>4, <2>2 DEF Inv, HeldOK, f, m
  <2>4. \A b, d \in Actor : slot'[b] # Null /\ slot'[b] = slot'[d] => b = d
    BY <2>2 DEF Inv, HeldOK
  <2>5. \A d \in Slot : d \in ToSet(f) \cup ToSet(r) \/ \E b \in Actor : slot'[b] = d
    <3> SUFFICES ASSUME NEW d \in Slot, d \notin ToSet(f) \cup ToSet(r)
                 PROVE  \E b \in Actor : slot'[b] = d
      OBVIOUS
    <3>1. d \notin ToSet(f) \cup ToSet(m) /\ d # c
      BY <1>4
    <3>2. PICK b \in Actor : slot[b] = d
      BY <3>1 DEF Inv, HeldOK, f, m
    <3>3. b # a
      BY <3>1, <3>2 DEF c
    <3> QED BY <1>9, <3>2, <3>3
  <2>6. ASSUME NEW b \in Actor, pc'[b] = "link" PROVE q'.next[slot'[b]] = Null
    <3>1. slot'[b] # Null /\ b # a
      BY <1>9, <2>1, <2>6 DEF Holding
    <3>2. slot'[b] \in Slot /\ slot'[b] = slot[b] /\ slot[b] # c /\ slot[b] \notin ToSet(m)
      BY <1>8, <1>9, <2>2, <3>1 DEF Inv, HeldOK, TypeOK, SlotOrNull, m
    <3>3. q.next[slot[b]] = Null
      BY <1>9, <2>6, <3>1 DEF Inv, HeldOK
    <3> QED BY <1>4, <3>2, <3>3
  <2> QED BY <1>5, <2>1, <2>3, <2>4, <2>5, <2>6 DEF HeldOK
<1>11. ContentOK'
  <2>1. \A e \in ToSet(r) : content'[e] \in Msg
    BY <1>2, <1>3, <1>4 DEF Inv, ContentOK, m
  <2> QED BY <1>2, <1>5, <1>9, <2>1 DEF Inv, ContentOK
<1>12. \A t \in Thread : Suspended(t)' <=> Suspended(t) /\ t \notin First(receivers)
  <2>1. \A t \in First(receivers) : t \notin ToSet(senders)
    BY <1>7 DEF Inv, WaitersOK
  <2> QED BY <1>2, <1>7, <2>1 DEF Suspended
<1>13. ~ Suspended(a)
  BY <1>2, RunsOrWoken DEF Inv
<1>14. WaitersOK'
  <2>1. \A t \in Thread : Suspended(t)' => err'[t] = err[t] /\ pc'[t] = pc[t]
    BY <1>2, <1>9, <1>12, <1>13 DEF Actor
  <2> QED BY <1>2, <1>6, <1>7, <1>8, <2>1, WaitersShrink DEF Inv
<1>15. Nested \/ NoLostWakeup'
  <2> SUFFICES ASSUME ~ Nested PROVE NoLostWakeup'
    OBVIOUS
  <2>1. \A t \in Thread : pc[t] \in {"send", "recv"} => pc'[t] = pc[t]
    BY <1>2, <1>9 DEF Actor
  <2>2. \A at : at \in {"send", "recv"} => Woken(at) \subseteq Woken(at)'
    BY <1>2, <1>12, <2>1 DEF Woken
  <2>3. q.entry \in Nat /\ Len(f) \in Nat
    BY <1>1 DEF QState, Lists
  <2>4. senders' # <<>> => Len(Free') <= Cardinality(Woken("send")')
    <3>1. /\ Cardinality(Woken("send")) <= Cardinality(Woken("send")')
          /\ Cardinality(Woken("send")) \in Nat /\ Cardinality(Woken("send")') \in Nat
      BY <2>2, CountWoken DEF Woken
    <3> QED BY <1>2, <1>5, <2>3, <3>1 DEF Inv, NoLostWakeup, f
  <2>5. receivers' # <<>> => q'.entry <= Cardinality(Woken("recv")')
    <3>0. receivers = <<>> => Waiters(receivers) = <<>>
      BY DEF Waiters, First, Tried
    <3> SUFFICES ASSUME receivers # <<>> PROVE q'.entry <= Cardinality(Woken("recv")')
      BY <1>2, <3>0
    <3> DEFINE t == Head(receivers)
    <3>1. t \in First(receivers) /\ t \in Thread /\ t \in ToSet(receivers)
      BY <1>2, <1>6, <1>7, FirstReady
    <3>2. pc[t] = "recv" /\ Suspended(t)
      BY <3>1 DEF Inv, WaitersOK, Suspended
    <3> HIDE DEF t
    <3>3. t \in Woken("recv")' /\ t \notin Woken("recv")
      BY <1>2, <1>12, <2>1, <3>1, <3>2 DEF Woken
    <3>4. /\ Cardinality(Woken("recv")) + 1 <= Cardinality(Woken("recv")')
          /\ Cardinality(Woken("recv")) \in Nat /\ Cardinality(Woken("recv")') \in Nat
      BY <2>2, <3>3, CountWoken DEF Woken
    <3>5. q.entry <= Cardinality(Woken("recv"))
      BY DEF Inv, NoLostWakeup
    <3> QED BY <1>1, <1>4, <2>3, <3>4, <3>5
  <2> QED BY <2>4, <2>5 DEF NoLostWakeup
<1> QED BY <1>3, <1>4, <1>5, <1>8, <1>10, <1>11, <1>14, <1>15 DEF Inv, c, m, r

-----------------------------------------------------------------------------
(* Receives. *)

(* Unlinking the first message.                                             *)
LEMMA UnlinkKeeps ==
  ASSUME Inv, NEW a \in Actor, pc[a] \in {"run", "recv"}, ~ Suspended(a), Unlink(a)
  PROVE  /\ Inv'
         /\ Messages # <<>> /\ slot'[a] = Head(Messages) /\ Messages' = Tail(Messages)
<1> DEFINE f == Free
           m == Messages
           c == q.head
           y == WithoutFirst(q)
<1>1. /\ q \in QState /\ Lists(q, f, m) /\ q.entry = Len(m) /\ m \in Seq(Slot) /\ IsInjective(m)
      /\ f \in Seq(Slot) /\ q.entry > 0
  BY DEF Inv, TypeOK, ListsOK, Lists, Unlink
<1>2. /\ q' = [q EXCEPT !.head = q.next[q.head],
                        !.tail = IF @ = q.head THEN Null ELSE @,
                        !.entry = @ - 1]
      /\ slot' = [slot EXCEPT ![a] = c] /\ pc' = [pc EXCEPT ![a] = "copy"]
      /\ wait' = [wait EXCEPT ![a] = "none"]
      /\ UNCHANGED <<content, senders, receivers, buf, err, timer>>
  BY DEF Unlink
<1>3. m # <<>>
  BY <1>1
<1>4. /\ y \in QState /\ Lists(y, f, Tail(m))
      /\ y.next = q.next /\ y.free = q.free /\ y.entry = q.entry
      /\ c = Head(m) /\ c \in Slot
      /\ c \notin ToSet(f) \cup ToSet(Tail(m))
  BY <1>1, <1>3, FirstLists
<1>5. /\ Len(Tail(m)) = Len(m) - 1 /\ Tail(m) \in Seq(Slot)
      /\ ToSet(Tail(m)) = ToSet(m) \ {c} /\ c \in ToSet(m)
  BY <1>1, <1>3, <1>4, TailLast, TailProperties
<1>6. /\ q' \in QState /\ Lists(q', f, Tail(m)) /\ q'.entry = Len(Tail(m))
      /\ q'.next = q.next
  <2>1. q' = [y EXCEPT !.entry = q.entry - 1]
    BY <1>1, <1>2 DEF WithoutFirst, QState
  <2>2. q.entry - 1 \in 0 .. Cardinality(Slot)
    <3>1. Cardinality(Slot) \in Nat /\ q.entry \in 0 .. Cardinality(Slot)
      BY <1>1, MessageQueueAssumption, FS_CardinalityType DEF QState
    <3> QED BY <1>1, <3>1
  <2> HIDE DEF y, f, m
  <2>3. q' \in QState /\ Lists(q', f, Tail(m)) /\ q'.entry = q.entry - 1 /\ q'.next = y.next
    BY <1>4, <2>1, <2>2, EntryLists
  <2> QED BY <1>1, <1>4, <1>5, <2>3
<1>7. ListsOK' /\ Free' = f /\ Messages' = Tail(m)
  BY <1>6, NextLists
<1>8. c # Null
  BY <1>4, MessageQueueAssumption
<1>9. TypeOK'
  BY <1>2, <1>4, <1>6 DEF Inv, TypeOK, Pc, SlotOrNull
<1>10. slot[a] = Null
  BY DEF Inv, HeldOK, Holding
<1> HIDE DEF c, f, m, y
<1>11. \A b \in Actor : slot'[b] = (IF b = a THEN c ELSE slot[b]) /\ pc'[b] = IF b = a THEN "copy" ELSE pc[b]
  BY <1>2 DEF Inv, TypeOK
<1>12. \A b \in Actor : slot[b] # c
  BY <1>5, <1>8 DEF Inv, HeldOK, m
<1>13. HeldOK'
  <2>1. \A b \in Actor : slot'[b] # Null <=> pc'[b] \in Holding
    BY <1>8, <1>11 DEF Inv, HeldOK, Holding
  <2>2. \A b \in Actor : slot'[b] # Null => slot'[b] \notin ToSet(f) \cup ToSet(Tail(m))
    BY <1>4, <1>5, <1>11 DEF Inv, HeldOK, f, m
  <2>3. \A b, d \in Actor : slot'[b] # Null /\ slot'[b] = slot'[d] => b = d
    BY <1>11, <1>12 DEF Inv, HeldOK
  <2>4. \A d \in Slot : d \in ToSet(f) \cup ToSet(Tail(m)) \/ \E b \in Actor : slot'[b] = d
    <3> SUFFICES ASSUME NEW d \in Slot, d \notin ToSet(f) \cup ToSet(Tail(m))
                 PROVE  \E b \in Actor : slot'[b] = d
      OBVIOUS
    <3>1. CASE d = c
      BY <1>11, <3>1
    <3>2. CASE d # c
      <4>1. d \notin ToSet(f) \cup ToSet(m)
        BY <1>5, <3>2
      <4>2. PICK b \in Actor : slot[b] = d
        BY <4>1 DEF Inv, HeldOK, f, m
      <4>3. b # a
        BY <1>10, <4>2, MessageQueueAssumption
      <4> QED BY <1>11, <4>2, <4>3
    <3> QED BY <3>1, <3>2
  <2>5. \A b \in Actor : pc'[b] = "link" => q'.next[slot'[b]] = Null
    BY <1>6, <1>11 DEF Inv, HeldOK
  <2> QED BY <1>7, <2>1, <2>2, <2>3, <2>4, <2>5 DEF HeldOK
<1>14. ContentOK'
  <2>1. content[c] \in Msg
    BY <1>5 DEF Inv, ContentOK, m
  <2>2. \A e \in ToSet(Tail(m)) : content'[e] \in Msg
    BY <1>2, <1>5 DEF Inv, ContentOK, m
  <2> QED BY <1>2, <1>7, <1>11, <2>1, <2>2 DEF Inv, ContentOK
<1>15. \A t \in Thread : Suspended(t)' <=> Suspended(t)
  BY <1>2 DEF Suspended
<1>16. \A t \in Thread : t # a => pc'[t] = pc[t]
  BY <1>11 DEF Actor
<1>17. WaitersOK'
  BY <1>2, <1>9, <1>15, <1>16, WaitersShrink DEF Inv, WaitersOK
<1>18. Nested \/ NoLostWakeup'
  <2> SUFFICES ASSUME ~ Nested PROVE NoLostWakeup'
    OBVIOUS
  <2>1. Woken("send") \subseteq Woken("send")' /\ Woken("recv") \ {a} \subseteq Woken("recv")'
    BY <1>2, <1>15, <1>16 DEF Woken
  <2>2. /\ Cardinality(Woken("recv")) <= Cardinality(Woken("recv")') + 1
        /\ Cardinality(Woken("recv")) \in Nat /\ Cardinality(Woken("recv")') \in Nat
    BY <2>1, CountWoken DEF Woken
  <2>3. /\ Cardinality(Woken("send")) <= Cardinality(Woken("send")')
        /\ Cardinality(Woken("send")) \in Nat /\ Cardinality(Woken("send")') \in Nat
    BY <2>1, CountWoken DEF Woken
  <2>4. q.entry \in Nat /\ q'.entry = q.entry - 1 /\ Len(f) \in Nat
    BY <1>1, <1>5, <1>6 DEF QState
  <2>5. receivers # <<>> => q.entry <= Cardinality(Woken("recv"))
    BY DEF Inv, NoLostWakeup
  <2>6. senders # <<>> => Len(f) <= Cardinality(Woken("send"))
    BY DEF Inv, NoLostWakeup, f
  <2>7. receivers' # <<>> => q'.entry <= Cardinality(Woken("recv")')
    BY <1>2, <2>2, <2>4, <2>5
  <2>8. senders' # <<>> => Len(Free') <= Cardinality(Woken("send")')
    BY <1>2, <1>7, <2>3, <2>4, <2>6
  <2> QED BY <2>7, <2>8 DEF NoLostWakeup
<1> QED BY <1>2, <1>3, <1>4, <1>7, <1>9, <1>11, <1>13, <1>14, <1>17, <1>18 DEF Inv, m

(* Copying the message out.                                                 *)
LEMMA CopyKeeps ==
  ASSUME Inv, NEW a \in Actor, Copy(a)
  PROVE  /\ Inv' /\ Messages' = Messages
         /\ pc[a] = "copy" /\ pc'[a] = "give" /\ buf'[a] = content[slot[a]]
         /\ \A b \in Actor : b # a => pc'[b] = pc[b] /\ buf'[b] = buf[b]
<1>1. /\ pc[a] = "copy" /\ buf' = [buf EXCEPT ![a] = content[slot[a]]]
      /\ pc' = [pc EXCEPT ![a] = "give"]
      /\ UNCHANGED <<q, content, senders, receivers, slot, wait, err, timer>>
  BY DEF Copy, lists
<1>2. Free' = Free /\ Messages' = Messages
  BY <1>1 DEF Free, Messages
<1>3. content[slot[a]] \in Msg
  BY <1>1 DEF Inv, ContentOK
<1>4. TypeOK'
  BY <1>1, <1>3 DEF Inv, TypeOK, Pc
<1>5. /\ pc'[a] = "give" /\ buf'[a] = content[slot[a]]
      /\ \A b \in Actor : b # a => pc'[b] = pc[b] /\ buf'[b] = buf[b]
  BY <1>1 DEF Inv, TypeOK
<1>6. ListsOK'
  BY <1>1, <1>2 DEF Inv, ListsOK
<1>7. HeldOK'
  <2>1. \A b \in Actor : /\ pc'[b] \in Holding <=> pc[b] \in Holding
                         /\ pc'[b] = "link" => pc[b] = "link"
    BY <1>1, <1>5 DEF Holding
  <2> QED BY <1>1, <1>2, <2>1 DEF Inv, HeldOK
<1>8. ContentOK'
  BY <1>1, <1>2, <1>3, <1>5 DEF Inv, ContentOK
<1>9. \A t \in Thread : Suspended(t)' <=> Suspended(t)
  BY <1>1 DEF Suspended
<1>10. \A t \in Thread : pc[t] \in {"send", "recv"} => pc'[t] = pc[t]
  BY <1>1, <1>5 DEF Actor
<1>11. WaitersOK'
  <2>1. \A t \in Thread : Suspended(t) => pc'[t] = pc[t]
    BY <1>10 DEF Inv, WaitersOK, Suspended
  <2> QED BY <1>1, <1>4, <1>9, <2>1, WaitersShrink DEF Inv, WaitersOK
<1>12. Nested \/ NoLostWakeup'
  <2> SUFFICES ASSUME ~ Nested PROVE NoLostWakeup'
    OBVIOUS
  <2>1. Woken("recv") \subseteq Woken("recv")' /\ Woken("send") \subseteq Woken("send")'
    BY <1>1, <1>9, <1>10 DEF Woken
  <2>2. /\ Cardinality(Woken("recv")) <= Cardinality(Woken("recv")')
        /\ Cardinality(Woken("recv")) \in Nat /\ Cardinality(Woken("recv")') \in Nat
    BY <2>1, CountWoken DEF Woken
  <2>3. /\ Cardinality(Woken("send")) <= Cardinality(Woken("send")')
        /\ Cardinality(Woken("send")) \in Nat /\ Cardinality(Woken("send")') \in Nat
    BY <2>1, CountWoken DEF Woken
  <2>4. q.entry \in Nat /\ Len(Free) \in Nat
    BY DEF Inv, TypeOK, ListsOK, QState, Lists
  <2> QED BY <1>1, <1>2, <2>2, <2>3, <2>4 DEF Inv, NoLostWakeup
<1> QED BY <1>1, <1>2, <1>4, <1>5, <1>6, <1>7, <1>8, <1>11, <1>12 DEF Inv

(* Giving the slot back and waking a sender.                                *)
LEMMA GiveKeeps ==
  ASSUME Inv, NEW a \in Actor, Give(a)
  PROVE  /\ Inv' /\ Messages' = Messages
         /\ pc[a] = "give" /\ pc'[a] = "run" /\ buf[a] \in Msg
         /\ \A b \in Actor : b # a => pc'[b] = pc[b] /\ slot'[b] = slot[b] /\ buf'[b] = buf[b]
<1> DEFINE f == Free
           m == Messages
           c == slot[a]
<1>1. /\ q \in QState /\ Lists(q, f, m) /\ q.entry = Len(m)
      /\ f \in Seq(Slot) /\ IsInjective(f) /\ m \in Seq(Slot)
  BY DEF Inv, TypeOK, ListsOK, Lists
<1>2. /\ pc[a] = "give"
      /\ q' = [q EXCEPT !.next[c] = q.free, !.free = c]
      /\ pc' = [pc EXCEPT ![a] = "run"] /\ slot' = [slot EXCEPT ![a] = Null]
      /\ buf' = [buf EXCEPT ![a] = Null] /\ wait' = [wait EXCEPT ![a] = "none"]
      /\ err' = [t \in Thread |-> IF t \in First(senders) THEN "EOK" ELSE err[t]]
      /\ senders' = Waiters(senders) /\ CanRun(a)
      /\ UNCHANGED <<content, receivers>>
  BY DEF Give, Return, Wake
<1>3. c # Null /\ c \in Slot /\ c \notin ToSet(f) \cup ToSet(m) /\ buf[a] \in Msg
  <2>1. c # Null
    BY <1>2 DEF Inv, HeldOK, Holding
  <2> QED BY <1>2, <2>1 DEF Inv, HeldOK, TypeOK, SlotOrNull, ContentOK
<1>4. q' = GiveBack(q, c)
  BY <1>2 DEF GiveBack
<1> DEFINE r == Cons(c, f)
<1>5. /\ q' \in QState /\ Lists(q', r, m) /\ q'.entry = q.entry
      /\ \A e \in Slot : e # c => q'.next[e] = q.next[e]
  <2> HIDE DEF c, f, m
  <2> QED BY <1>1, <1>3, <1>4, GiveLists
<1>6. ToSet(r) = ToSet(f) \cup {c} /\ Len(r) = Len(f) + 1
  <2>1. ToSet(r) = ToSet(f) \cup {c} /\ r \in Seq(Slot) /\ IsInjective(r)
    BY <1>1, <1>3, ConsNew
  <2>2. Len(<<c>> \o f) = Len(<<c>>) + Len(f) /\ Len(<<c>>) = 1
    BY <1>1, <1>3
  <2> QED BY <2>1, <2>2, <1>1 DEF Cons
<1> HIDE DEF r
<1>7. ListsOK' /\ Free' = r /\ Messages' = m
  BY <1>1, <1>5, NextLists
<1>8. /\ senders \in Seq(Thread) /\ IsInjective(senders)
      /\ receivers \in Seq(Thread) /\ IsInjective(receivers)
      /\ ToSet(receivers) \subseteq Thread
  BY EmptyList DEF Inv, TypeOK, WaitersOK
<1>9. /\ senders' \in Seq(Thread) /\ IsInjective(senders')
      /\ ToSet(senders') = ToSet(senders) \ First(senders)
      /\ First(senders) \subseteq ToSet(senders) /\ ToSet(senders) \subseteq Thread
  BY <1>2, <1>8, FirstWoken
<1>10. TypeOK'
  <2>1. err' \in [Thread -> Error]
    BY <1>2 DEF Inv, TypeOK, Error
  <2>2. timer' \in [Thread -> TimerState]
    BY DEF Give, Wake, Stopped, TimerState, Inv, TypeOK
  <2> QED BY <1>2, <1>5, <1>9, <2>1, <2>2 DEF Inv, TypeOK, Pc, SlotOrNull
<1>11. /\ \A b \in Actor : b # a => pc'[b] = pc[b] /\ slot'[b] = slot[b] /\ buf'[b] = buf[b]
       /\ pc'[a] = "run" /\ slot'[a] = Null
  BY <1>2 DEF Inv, TypeOK
<1> HIDE DEF f, m, c
<1>12. HeldOK'
  <2>1. \A b \in Actor : slot'[b] # Null <=> pc'[b] \in Holding
    BY <1>11 DEF Inv, HeldOK, Holding
  <2>2. \A b \in Actor : slot'[b] # Null => b # a /\ slot[b] = slot'[b] /\ slot[b] # c
    BY <1>3, <1>11 DEF Inv, HeldOK, c
  <2>3. \A b \in Actor : slot'[b] # Null => slot'[b] \notin ToSet(r) \cup ToSet(m)
    BY <1>6, <2>2 DEF Inv, HeldOK, f, m
  <2>4. \A b, d \in Actor : slot'[b] # Null /\ slot'[b] = slot'[d] => b = d
    BY <2>2 DEF Inv, HeldOK
  <2>5. \A d \in Slot : d \in ToSet(r) \cup ToSet(m) \/ \E b \in Actor : slot'[b] = d
    <3> SUFFICES ASSUME NEW d \in Slot, d \notin ToSet(r) \cup ToSet(m)
                 PROVE  \E b \in Actor : slot'[b] = d
      OBVIOUS
    <3>1. d \notin ToSet(f) \cup ToSet(m) /\ d # c
      BY <1>6
    <3>2. PICK b \in Actor : slot[b] = d
      BY <3>1 DEF Inv, HeldOK, f, m
    <3>3. b # a
      BY <3>1, <3>2 DEF c
    <3> QED BY <1>11, <3>2, <3>3
  <2>6. ASSUME NEW b \in Actor, pc'[b] = "link" PROVE q'.next[slot'[b]] = Null
    <3>1. slot'[b] # Null /\ b # a
      BY <1>11, <2>1, <2>6 DEF Holding
    <3>2. slot'[b] \in Slot /\ slot'[b] = slot[b] /\ slot[b] # c
      BY <1>10, <2>2, <3>1 DEF TypeOK, SlotOrNull
    <3>3. q.next[slot[b]] = Null
      BY <1>11, <2>6, <3>1 DEF Inv, HeldOK
    <3> QED BY <1>5, <3>2, <3>3
  <2> QED BY <1>7, <2>1, <2>3, <2>4, <2>5, <2>6 DEF HeldOK
<1>13. ContentOK'
  <2>1. \A e \in ToSet(m) : content'[e] \in Msg
    BY <1>2 DEF Inv, ContentOK, m
  <2> QED BY <1>2, <1>7, <1>11, <2>1 DEF Inv, ContentOK
<1>14. \A t \in Thread : Suspended(t)' <=> Suspended(t) /\ t \notin First(senders)
  <2>1. \A t \in First(senders) : t \notin ToSet(receivers)
    BY <1>9 DEF Inv, WaitersOK
  <2> QED BY <1>2, <1>9, <2>1 DEF Suspended
<1>15. ~ Suspended(a)
  BY <1>2, RunsOrWoken DEF Inv
<1>16. WaitersOK'
  <2>1. \A t \in Thread : Suspended(t)' => err'[t] = err[t] /\ pc'[t] = pc[t]
    BY <1>2, <1>11, <1>14, <1>15 DEF Actor
  <2> QED BY <1>2, <1>8, <1>9, <1>10, <2>1, WaitersShrink DEF Inv
<1>17. Nested \/ NoLostWakeup'
  <2> SUFFICES ASSUME ~ Nested PROVE NoLostWakeup'
    OBVIOUS
  <2>1. \A t \in Thread : pc[t] \in {"send", "recv"} => pc'[t] = pc[t]
    BY <1>2, <1>11 DEF Actor
  <2>2. \A at : at \in {"send", "recv"} => Woken(at) \subseteq Woken(at)'
    BY <1>2, <1>14, <2>1 DEF Woken
  <2>3. q.entry \in Nat /\ Len(f) \in Nat
    BY <1>1 DEF QState
  <2>4. receivers' # <<>> => q'.entry <= Cardinality(Woken("recv")')
    <3>1. /\ Cardinality(Woken("recv")) <= Cardinality(Woken("recv")')
          /\ Cardinality(Woken("recv")) \in Nat /\ Cardinality(Woken("recv")') \in Nat
      BY <2>2, CountWoken DEF Woken
    <3> QED BY <1>2, <1>5, <2>3, <3>1 DEF Inv, NoLostWakeup
  <2>5. senders' # <<>> => Len(Free') <= Cardinality(Woken("send")')
    <3>0. senders = <<>> => Waiters(senders) = <<>>
      BY DEF Waiters, First, Tried
    <3> SUFFICES ASSUME senders # <<>> PROVE Len(Free') <= Cardinality(Woken("send")')
      BY <1>2, <3>0
    <3> DEFINE t == Head(senders)
    <3>1. t \in First(senders) /\ t \in Thread /\ t \in ToSet(senders)
      BY <1>2, <1>8, <1>9, FirstReady
    <3>2. pc[t] = "send" /\ Suspended(t)
      BY <3>1 DEF Inv, WaitersOK, Suspended
    <3> HIDE DEF t
    <3>3. t \in Woken("send")' /\ t \notin Woken("send")
      BY <1>2, <1>14, <2>1, <3>1, <3>2 DEF Woken
    <3>4. /\ Cardinality(Woken("send")) + 1 <= Cardinality(Woken("send")')
          /\ Cardinality(Woken("send")) \in Nat /\ Cardinality(Woken("send")') \in Nat
      BY <2>2, <3>3, CountWoken DEF Woken
    <3>5. Len(f) <= Cardinality(Woken("send"))
      BY DEF Inv, NoLostWakeup, f
    <3> QED BY <1>6, <1>7, <2>3, <3>4, <3>5
  <2> QED BY <2>4, <2>5 DEF NoLostWakeup
<1> QED BY <1>2, <1>3, <1>7, <1>10, <1>11, <1>12, <1>13, <1>16, <1>17 DEF Inv, m

-----------------------------------------------------------------------------
(* Resets, and waiters that leave. *)

(* Every waiter is woken with an error and the queue is made empty.         *)
LEMMA ClearKeeps ==
  ASSUME Inv, NEW f, q' \in QState, q'.entry = 0, Lists(q', f, <<>>),
         \/ ToSet(f) = ToSet(Free) \cup ToSet(Messages)
         \/ ToSet(f) = Slot /\ \A a \in Actor : slot[a] = Null,
         \A a \in Actor : pc[a] = "link" => q'.next[slot[a]] = Null,
         WakeAll("+ERROR"),
         UNCHANGED <<content, pc, slot, buf, wait>>
  PROVE  Inv' /\ Messages' = <<>>
<1>1. /\ <<>> \in Seq(Thread) /\ IsInjective(<<>>) /\ ToSet(<<>>) = {}
      /\ senders' = <<>> /\ receivers' = <<>>
  BY DEF IsInjective, ToSet, WakeAll
<1>2. ListsOK' /\ Free' = f /\ Messages' = <<>>
  BY NextLists
<1>3. TypeOK'
  <2>1. err' \in [Thread -> Error]
    BY DEF WakeAll, Inv, TypeOK, Error
  <2>2. timer' \in [Thread -> TimerState]
    BY DEF WakeAll, Inv, TypeOK, TimerState
  <2> QED BY <1>1, <2>1, <2>2 DEF Inv, TypeOK
<1>4. HeldOK'
  <2>1. CASE ToSet(f) = ToSet(Free) \cup ToSet(Messages)
    BY <1>1, <1>2, <2>1 DEF Inv, HeldOK
  <2>2. CASE ToSet(f) = Slot /\ \A a \in Actor : slot[a] = Null
    BY <1>1, <1>2, <2>2 DEF Inv, HeldOK
  <2> QED BY <2>1, <2>2
<1>5. ContentOK'
  BY <1>1, <1>2 DEF Inv, ContentOK
<1>6. WaitersOK'
  <2>1. \A t \in Thread : ~ Suspended(t)'
    BY <1>1 DEF Suspended
  <2> QED BY <1>1, <1>3, <2>1, WaitersShrink DEF Inv
<1>7. Nested \/ NoLostWakeup'
  BY <1>1 DEF NoLostWakeup
<1> QED BY <1>2, <1>3, <1>4, <1>5, <1>6, <1>7 DEF Inv

(* rt_mq_control(RT_IPC_CMD_RESET)                                          *)
LEMMA ResetKeeps ==
  ASSUME Inv, NEW t \in Thread, Reset(t)
  PROVE  Inv' /\ Messages' = <<>> /\ UNCHANGED <<content, pc, slot, buf>>
<1>1. q \in QState /\ Lists(q, Free, Messages)
  BY DEF Inv, TypeOK, ListsOK
<1>2. /\ q' = AllFree
      /\ WakeAll("+ERROR")
      /\ UNCHANGED <<content, pc, slot, buf, wait>>
  BY DEF Reset
<1>3. /\ AllFree \in QState /\ AllFree.entry = 0
      /\ \A e \in Slot : e \notin ToSet(Messages) => AllFree.next[e] = q.next[e]
  BY <1>1, AllFreeLists
<1>4. PICK f : Lists(AllFree, f, <<>>) /\ ToSet(f) = ToSet(Free) \cup ToSet(Messages)
  BY <1>1, AllFreeLists
<1>5. \A a \in Actor : pc[a] = "link" => q'.next[slot[a]] = Null
  <2> SUFFICES ASSUME NEW a \in Actor, pc[a] = "link" PROVE AllFree.next[slot[a]] = Null
    BY <1>2
  <2>1. slot[a] # Null /\ q.next[slot[a]] = Null
    BY DEF Inv, HeldOK, Holding
  <2>2. slot[a] \in Slot /\ slot[a] \notin ToSet(Messages)
    BY <2>1 DEF Inv, HeldOK, TypeOK, SlotOrNull
  <2> QED BY <1>3, <2>1, <2>2
<1>6. q' \in QState /\ q'.entry = 0 /\ Lists(q', f, <<>>)
  BY <1>2, <1>3, <1>4
<1> QED BY <1>2, <1>4, <1>5, <1>6, ClearKeeps

(* rt_mq_detach and rt_mq_init                                              *)
LEMMA DetachKeeps ==
  ASSUME Inv, NEW t \in Thread, Detach(t)
  PROVE  Inv' /\ Messages' = <<>> /\ UNCHANGED <<content, pc, slot, buf>>
<1>1. /\ q' = Empty /\ \A a \in Actor : slot[a] = Null
      /\ WakeAll("+ERROR")
      /\ UNCHANGED <<content, pc, slot, buf, wait>>
  BY DEF Detach
<1>2. Empty \in QState /\ Empty.entry = 0
  BY EmptyLists
<1>3. PICK f : Lists(Empty, f, <<>>) /\ ToSet(f) = Slot
  BY EmptyLists
<1>4. \A a \in Actor : pc[a] # "link"
  BY <1>1 DEF Inv, HeldOK, Holding
<1>5. q' \in QState /\ q'.entry = 0 /\ Lists(q', f, <<>>)
  BY <1>1, <1>2, <1>3
<1> QED BY <1>1, <1>3, <1>4, <1>5, ClearKeeps

(* A waiter leaves its list with an error: a time-out, or rt_thread_resume. *)
LEMMA LeaveKeeps ==
  ASSUME Inv, NEW t \in Thread, Suspended(t),
         timer' \in [Thread -> TimerState],
         err' \in [Thread -> Error], \A u \in Thread : u # t => err'[u] = err[u],
         senders' = RemoveFirst(senders, t), receivers' = RemoveFirst(receivers, t),
         UNCHANGED <<q, content, pc, slot, buf, wait>>
  PROVE  Inv' /\ Messages' = Messages
<1>1. /\ senders \in Seq(Thread) /\ IsInjective(senders)
      /\ receivers \in Seq(Thread) /\ IsInjective(receivers)
  BY DEF Inv, TypeOK, WaitersOK
<1>2. /\ senders' \in Seq(Thread) /\ IsInjective(senders')
      /\ ToSet(senders') = ToSet(senders) \ {t}
      /\ receivers' \in Seq(Thread) /\ IsInjective(receivers')
      /\ ToSet(receivers') = ToSet(receivers) \ {t}
  BY <1>1, RemoveFirstProperties
<1>3. Free' = Free /\ Messages' = Messages
  BY DEF Free, Messages
<1>4. TypeOK'
  BY <1>2 DEF Inv, TypeOK
<1>5. ListsOK' /\ HeldOK' /\ ContentOK'
  BY <1>3 DEF Inv, ListsOK, HeldOK, ContentOK
<1>6. \A u \in Thread : Suspended(u)' <=> Suspended(u) /\ u # t
  BY <1>2 DEF Suspended
<1>7. WaitersOK'
  BY <1>2, <1>4, <1>6, WaitersShrink DEF Inv
<1>8. Nested \/ NoLostWakeup'
  <2> SUFFICES ASSUME ~ Nested PROVE NoLostWakeup'
    OBVIOUS
  <2>1. Woken("recv") \subseteq Woken("recv")' /\ Woken("send") \subseteq Woken("send")'
    BY <1>6 DEF Woken
  <2>2. /\ Cardinality(Woken("recv")) <= Cardinality(Woken("recv")')
        /\ Cardinality(Woken("recv")) \in Nat /\ Cardinality(Woken("recv")') \in Nat
    BY <2>1, CountWoken DEF Woken
  <2>3. /\ Cardinality(Woken("send")) <= Cardinality(Woken("send")')
        /\ Cardinality(Woken("send")) \in Nat /\ Cardinality(Woken("send")') \in Nat
    BY <2>1, CountWoken DEF Woken
  <2>4. q.entry \in Nat /\ Len(Free) \in Nat
    BY DEF Inv, TypeOK, ListsOK, QState, Lists
  <2>5. (receivers' # <<>> => receivers # <<>>) /\ (senders' # <<>> => senders # <<>>)
    <3>1. receivers' # <<>> => ToSet(receivers') # {}
      BY <1>2, EmptyList
    <3>2. receivers = <<>> => ToSet(receivers) = {}
      BY <1>1, EmptyList
    <3>3. senders' # <<>> => ToSet(senders') # {}
      BY <1>2, EmptyList
    <3>4. senders = <<>> => ToSet(senders) = {}
      BY <1>1, EmptyList
    <3> QED BY <1>2, <3>1, <3>2, <3>3, <3>4
  <2>6. receivers' # <<>> => q'.entry <= Cardinality(Woken("recv")')
    BY <2>2, <2>4, <2>5 DEF Inv, NoLostWakeup
  <2>7. senders' # <<>> => Len(Free') <= Cardinality(Woken("send")')
    BY <1>3, <2>3, <2>4, <2>5 DEF Inv, NoLostWakeup
  <2> QED BY <2>6, <2>7 DEF NoLostWakeup
<1> QED BY <1>3, <1>4, <1>5, <1>7, <1>8 DEF Inv

-----------------------------------------------------------------------------
(* The operations that wait, as a whole. *)

(* The time that is left is one that a call may wait.                       *)
LEMMA LeftIsTime ==
  ASSUME TypeOK, NEW t \in Thread, NEW w \in Left(t), w # "none"
  PROVE  w \in {"finite", "forever"}
  BY DEF TypeOK, Left, Actor

(* What a call in rt_mq_send_wait leaves as it is: the list of messages.    *)
LEMMA SendBlocksKeeps ==
  ASSUME Inv, NEW t \in Thread, pc[t] \in {"run", "send"}, ~ Suspended(t),
         NEW x \in Msg, NEW w \in {"finite", "forever"}, SendBlocks(t, x, w)
  PROVE  Inv' /\ Messages' = Messages
<1>1. /\ q.free = Null /\ senders' \in Enqueue(senders, t) /\ Wait(t, w)
      /\ buf' = [buf EXCEPT ![t] = x] /\ pc' = [pc EXCEPT ![t] = "send"]
      /\ UNCHANGED <<q, content, receivers, slot>>
  BY DEF SendBlocks
<1>2. /\ buf' \in [Actor -> Msg \cup {Null}] /\ buf'[t] \in Msg
      /\ \A b \in Actor : b # t => buf'[b] = buf[b]
  BY <1>1 DEF Inv, TypeOK, Actor
<1> QED BY <1>1, <1>2, BlockKeeps

(* A receive that waits, for the first time or again.                       *)
LEMMA RecvBlocksKeeps ==
  ASSUME Inv, NEW t \in Thread, pc[t] \in {"run", "recv"}, ~ Suspended(t),
         NEW w \in {"finite", "forever"}, RecvBlocks(t, w)
  PROVE  Inv' /\ Messages' = Messages
<1>1. /\ q.entry = 0 /\ receivers' \in Enqueue(receivers, t) /\ Wait(t, w)
      /\ pc' = [pc EXCEPT ![t] = "recv"]
      /\ UNCHANGED <<q, content, senders, slot, buf>>
  BY DEF RecvBlocks
<1>2. buf' \in [Actor -> Msg \cup {Null}] /\ \A b \in Actor : buf'[b] = buf[b]
  BY <1>1 DEF Inv, TypeOK
<1> QED BY <1>1, <1>2, BlockKeeps

(* rt_mq_send_wait and rt_mq_urgent, the first time round.                  *)
LEMMA SendKeeps ==
  ASSUME Inv, NEW a \in Actor, NEW x \in Msg, Send(a, x) \/ Urgent(a, x)
  PROVE  Inv' /\ Messages' = Messages
<1>1. pc[a] = "run" /\ ~ Suspended(a)
  BY RunsOrWoken DEF Inv, Send, Urgent
<1>2. CASE Claim(a, x, "fill") \/ Claim(a, x, "fillurgent")
  BY <1>1, <1>2, ClaimKeeps
<1>3. ASSUME a \in Thread, NEW w \in Waits, SendBlocks(a, x, w)
      PROVE  Inv' /\ Messages' = Messages
  BY <1>1, <1>3, SendBlocksKeeps, MessageQueueAssumption
<1> QED BY <1>2, <1>3 DEF Send, Urgent

(* A sender that was woken.                                                 *)
LEMMA SendRetryKeeps ==
  ASSUME Inv, NEW t \in Thread, SendRetry(t)
  PROVE  Inv' /\ Messages' = Messages
<1>1. pc[t] = "send" /\ ~ Suspended(t) /\ t \in Actor
  BY DEF SendRetry, CanRun, Actor
<1>2. buf[t] \in Msg
  BY <1>1 DEF Inv, ContentOK
<1>3. err \in [Thread -> Error]
  BY DEF Inv, TypeOK
<1>4. CASE err[t] # "EOK" /\ Return(t) /\ UNCHANGED <<lists, err, timer>>
  BY <1>1, <1>3, <1>4, QuitKeeps
<1>5. CASE Claim(t, buf[t], "fill")
  BY <1>1, <1>2, <1>5, ClaimKeeps
<1>6. ASSUME NEW w \in Left(t), SendBlocks(t, buf[t], w) PROVE Inv' /\ Messages' = Messages
  <2>1. w \in {"finite", "forever"}
    BY <1>6, LeftIsTime DEF SendBlocks, Inv
  <2> QED BY <1>1, <1>2, <1>6, <2>1, SendBlocksKeeps
<1>7. CASE /\ err[t] = "EOK" /\ q.free = Null
           /\ Return(t)
           /\ err' = [err EXCEPT ![t] = "-EINTR"]
           /\ UNCHANGED <<lists, timer>>
  <2>1. err' \in [Thread -> Error] /\ \A u \in Thread : u # t => err'[u] = err[u]
    BY <1>3, <1>7 DEF Error
  <2> QED BY <1>1, <1>7, <2>1, QuitKeeps
<1> QED BY <1>4, <1>5, <1>6, <1>7 DEF SendRetry

(* A receive takes the first message or leaves the list as it is.           *)
LEMMA RecvKeeps ==
  ASSUME Inv, NEW a \in Actor, Recv(a)
  PROVE  Inv' /\ (Unlink(a) \/ Messages' = Messages)
<1>1. pc[a] = "run" /\ ~ Suspended(a)
  BY RunsOrWoken DEF Inv, Recv
<1>2. CASE Unlink(a)
  BY <1>1, <1>2, UnlinkKeeps
<1>3. ASSUME a \in Thread, NEW w \in Waits, RecvBlocks(a, w)
      PROVE  Inv' /\ Messages' = Messages
  BY <1>1, <1>3, RecvBlocksKeeps, MessageQueueAssumption
<1> QED BY <1>2, <1>3 DEF Recv

(* A receiver that was woken.                                               *)
LEMMA RecvRetryKeeps ==
  ASSUME Inv, NEW t \in Thread, RecvRetry(t)
  PROVE  Inv' /\ (Unlink(t) \/ Messages' = Messages)
<1>1. pc[t] = "recv" /\ ~ Suspended(t) /\ t \in Actor
  BY DEF RecvRetry, CanRun, Actor
<1>2. err \in [Thread -> Error]
  BY DEF Inv, TypeOK
<1>3. CASE err[t] # "EOK" /\ Return(t) /\ UNCHANGED <<lists, err, timer>>
  BY <1>1, <1>2, <1>3, QuitKeeps
<1>4. CASE Unlink(t)
  BY <1>1, <1>4, UnlinkKeeps
<1>5. ASSUME NEW w \in Left(t), RecvBlocks(t, w) PROVE Inv' /\ Messages' = Messages
  <2>1. w \in {"finite", "forever"}
    BY <1>5, LeftIsTime DEF RecvBlocks, Inv
  <2> QED BY <1>1, <1>5, <2>1, RecvBlocksKeeps
<1>6. CASE /\ err[t] = "EOK" /\ q.entry = 0
           /\ Return(t)
           /\ err' = [err EXCEPT ![t] = "-ETIMEOUT"]
           /\ UNCHANGED <<lists, timer>>
  <2>1. err' \in [Thread -> Error] /\ \A u \in Thread : u # t => err'[u] = err[u]
    BY <1>2, <1>6 DEF Error
  <2> QED BY <1>1, <1>6, <2>1, QuitKeeps
<1> QED BY <1>3, <1>4, <1>5, <1>6 DEF RecvRetry

(* A thread timer runs out, or cannot be stopped.                           *)
LEMMA TimerKeeps ==
  ASSUME Inv, timer' \in [Thread -> TimerState],
         UNCHANGED <<lists, pc, slot, buf, wait, err>>
  PROVE  Inv' /\ Messages' = Messages
<1>1. Free' = Free /\ Messages' = Messages
  BY DEF Free, Messages, lists
<1>2. TypeOK' /\ ListsOK' /\ HeldOK' /\ ContentOK' /\ WaitersOK'
  BY <1>1 DEF Inv, TypeOK, ListsOK, HeldOK, ContentOK, WaitersOK, Suspended, lists
<1>3. Nested \/ NoLostWakeup'
  BY <1>1 DEF Inv, NoLostWakeup, Woken, Suspended, lists
<1> QED BY <1>1, <1>2, <1>3 DEF Inv

(* The timer of a waiter runs out, its callback runs, or another resumes    *)
(* it.                                                                      *)
LEMMA TimeoutKeeps ==
  ASSUME Inv, NEW t \in Thread, Expire(t) \/ Timeout(t) \/ Resume(t)
  PROVE  Inv' /\ Messages' = Messages /\ UNCHANGED <<content, pc, slot, buf>>
<1>1. /\ err' \in [Thread -> Error] /\ \A u \in Thread : u # t => err'[u] = err[u]
      /\ timer' \in [Thread -> TimerState]
  BY DEF Expire, Timeout, Resume, Stopped, Inv, TypeOK, Error, TimerState
<1>2. CASE Timeout(t) \/ (Resume(t) /\ timer[t] # "firing")
  BY <1>1, <1>2, LeaveKeeps DEF Timeout, Resume
<1>3. CASE Expire(t) \/ (Resume(t) /\ timer[t] = "firing")
  BY <1>1, <1>3, TimerKeeps DEF Expire, Resume, lists
<1> QED BY <1>2, <1>3

(* Every step.                                                              *)
LEMMA NextInv ==
  ASSUME Inv, [Next]_vars
  PROVE  Inv'
<1>1. CASE UNCHANGED vars
  <2>1. Free' = Free /\ Messages' = Messages
    BY <1>1 DEF Free, Messages, vars
  <2>2. TypeOK' /\ ListsOK' /\ HeldOK' /\ ContentOK' /\ WaitersOK'
    BY <1>1, <2>1 DEF Inv, TypeOK, ListsOK, HeldOK, ContentOK, WaitersOK, Suspended, vars
  <2>3. Nested \/ NoLostWakeup'
    BY <1>1, <2>1 DEF Inv, NoLostWakeup, Woken, Suspended, vars
  <2> QED BY <2>2, <2>3 DEF Inv
<1>2. ASSUME NEW a \in Actor, NEW m \in Msg, Send(a, m) \/ Urgent(a, m) PROVE Inv'
  BY <1>2, SendKeeps
<1>3. ASSUME NEW a \in Actor, Fill(a) PROVE Inv'
  BY <1>3, FillKeeps
<1>4. ASSUME NEW a \in Actor, Link(a) PROVE Inv'
  BY <1>4, LinkKeeps
<1>5. ASSUME NEW a \in Actor, Recv(a) PROVE Inv'
  BY <1>5, RecvKeeps
<1>6. ASSUME NEW a \in Actor, Copy(a) PROVE Inv'
  BY <1>6, CopyKeeps
<1>7. ASSUME NEW a \in Actor, Give(a) PROVE Inv'
  BY <1>7, GiveKeeps
<1>8. ASSUME NEW t \in Thread, SendRetry(t) PROVE Inv'
  BY <1>8, SendRetryKeeps
<1>9. ASSUME NEW t \in Thread, RecvRetry(t) PROVE Inv'
  BY <1>9, RecvRetryKeeps
<1>10. ASSUME NEW t \in Thread, Expire(t) \/ Timeout(t) \/ Resume(t) PROVE Inv'
  BY <1>10, TimeoutKeeps
<1>11. ASSUME NEW t \in Thread, Reset(t) PROVE Inv'
  BY <1>11, ResetKeeps
<1>12. ASSUME NEW t \in Thread, Detach(t) PROVE Inv'
  BY <1>12, DetachKeeps
<1> QED BY <1>1, <1>2, <1>3, <1>4, <1>5, <1>6, <1>7, <1>8, <1>9, <1>10, <1>11, <1>12 DEF Next

(* The invariant holds in every state the queue reaches.                    *)
LEMMA AlwaysInv == Spec => []Inv
<1>1. Init => Inv
  BY InitInv
<1>2. Inv /\ [Next]_vars => Inv'
  BY NextInv
<1> QED BY <1>1, <1>2, PTL DEF Spec

(* Every variable of the message queue keeps its type: the count does not   *)
(* exceed the pool, and no step links what is not a slot.                   *)
THEOREM MessageQueueTyped == Spec => []TypeOK
<1>1. Inv => TypeOK
  BY DEF Inv
<1> QED BY <1>1, AlwaysInv, PTL

(* No slot is lost or used twice, and head, tail, links and count agree,    *)
(* however the steps of sends, receives and resets interleave.              *)
THEOREM SlotsKept == Spec => []SlotsOK
<1>1. ASSUME Inv PROVE SlotsOK
  <2> DEFINE f == Free
             m == Messages
  <2>1. /\ f \in Seq(Slot) /\ m \in Seq(Slot) /\ IsInjective(f) /\ IsInjective(m)
        /\ ToSet(f) \cap ToSet(m) = {}
        /\ q.tail = (IF m = <<>> THEN Null ELSE Last(m)) /\ q.entry = Len(m)
    BY <1>1 DEF Inv, ListsOK, Lists
  <2> HIDE DEF f, m
  <2>2. /\ IsInjective(f \o m) /\ ToSet(f \o m) = ToSet(f) \cup ToSet(m)
    BY <2>1, ConcatInjective
  <2>3. ToSet(f) \cup ToSet(m) \subseteq Slot
    BY <2>1, EmptyList
  <2>4. \A a, b \in Holders : a # b => slot[a] # slot[b]
    BY <1>1 DEF Inv, HeldOK, Holders
  <2>5. /\ (ToSet(f) \cup ToSet(m)) \cap {slot[a] : a \in Holders} = {}
        /\ (ToSet(f) \cup ToSet(m)) \cup {slot[a] : a \in Holders} = Slot
    <3>1. \A a \in Holders : slot[a] \in Slot /\ slot[a] \notin ToSet(f) \cup ToSet(m)
      BY <1>1 DEF Inv, HeldOK, TypeOK, SlotOrNull, Holders, f, m
    <3>2. \A c \in Slot : c \in ToSet(f) \cup ToSet(m) \/ c \in {slot[a] : a \in Holders}
      <4> SUFFICES ASSUME NEW c \in Slot, c \notin ToSet(f) \cup ToSet(m)
                   PROVE  c \in {slot[a] : a \in Holders}
        OBVIOUS
      <4>1. PICK a \in Actor : slot[a] = c
        BY <1>1 DEF Inv, HeldOK, f, m
      <4>2. a \in Holders
        BY <4>1, MessageQueueAssumption DEF Holders
      <4> QED BY <4>1, <4>2
    <3> QED BY <2>3, <3>1, <3>2
  <2> QED BY <2>1, <2>2, <2>4, <2>5 DEF SlotsOK, f, m
<1> QED BY <1>1, AlwaysInv, PTL

(* No thread sleeps beside a message or a free slot for which nobody who    *)
(* was woken is still on the way, as long as no handler comes between a     *)
(* thread timer's removal and its callback.                                 *)
THEOREM WakeupsKept ==
  ASSUME Nested = FALSE
  PROVE  Spec => []NoLostWakeup
<1>1. Inv => NoLostWakeup
  BY DEF Inv
<1> QED BY <1>1, AlwaysInv, PTL

-----------------------------------------------------------------------------
(* The refinement of Fifo. *)

(* What the list of messages holds, and what each call has in its hands:    *)
(* the queue and the hands of Fifo.                                         *)
AbsQueue == [i \in DOMAIN Messages |-> content[Messages[i]]]
AbsHand == [a \in Actor |-> Hand(a)]

(* A step of one call in which it neither copies nor gives a message.       *)
Quiet(a) ==
  /\ pc[a] \notin {"copy", "give"} /\ pc'[a] \notin {"copy", "give"}
  /\ \A b \in Actor : b # a => pc'[b] = pc[b] /\ slot'[b] = slot[b] /\ buf'[b] = buf[b]
  /\ UNCHANGED content

(* Only calls that copy or give have a message in their hands.              *)
LEMMA HandIs ==
  ASSUME Inv, NEW a \in Actor
  PROVE  /\ Hand(a) # Null <=> pc[a] \in {"copy", "give"}
         /\ pc[a] = "copy" => Hand(a) = content[slot[a]]
         /\ pc[a] = "give" => Hand(a) = buf[a]
         /\ Hand(a) \in Msg \cup {Null}
<1>1. Null \notin Msg
  BY MessageQueueAssumption
<1> QED BY <1>1 DEF Inv, ContentOK, Hand

(* The messages in the list are messages.                                   *)
LEMMA QueueIs ==
  ASSUME Inv
  PROVE  /\ Messages \in Seq(Slot) /\ AbsQueue \in Seq(Msg) /\ Len(AbsQueue) = Len(Messages)
         /\ \A i \in 1 .. Len(Messages) : AbsQueue[i] = content[Messages[i]]
<1>1. Messages \in Seq(Slot)
  BY DEF Inv, ListsOK, Lists
<1>2. \A i \in 1 .. Len(Messages) : content[Messages[i]] \in Msg
  BY <1>1 DEF Inv, ContentOK, ToSet
<1>3. /\ DOMAIN AbsQueue = 1 .. Len(Messages)
      /\ \A i \in 1 .. Len(Messages) : AbsQueue[i] = content[Messages[i]]
  BY <1>1 DEF AbsQueue
<1>4. AbsQueue \in [1 .. Len(Messages) -> Msg]
  BY <1>1, <1>2 DEF AbsQueue
<1> QED BY <1>1, <1>3, <1>4

(* The list and what it holds do not change.                                *)
LEMMA QueueSame ==
  ASSUME Inv, Messages' = Messages,
         \A c \in ToSet(Messages) : content'[c] = content[c]
  PROVE  AbsQueue' = AbsQueue
<1>1. Messages \in Seq(Slot)
  BY QueueIs
<1>2. \A i \in DOMAIN Messages : content'[Messages[i]] = content[Messages[i]]
  BY <1>1 DEF ToSet
<1> QED BY <1>2 DEF AbsQueue

(* The hands do not change.                                                 *)
LEMMA HandSame ==
  ASSUME NEW a \in Actor, Quiet(a)
  PROVE  AbsHand' = AbsHand
<1>1. ASSUME NEW b \in Actor PROVE Hand(b)' = Hand(b)
  <2>1. CASE b = a
    BY <2>1 DEF Quiet, Hand
  <2>2. CASE b # a
    BY <2>2 DEF Quiet, Hand
  <2> QED BY <2>1, <2>2
<1> QED BY <1>1 DEF AbsHand

(* A quiet step that leaves the list alone is none of Fifo's.               *)
LEMMA QuietStutters ==
  ASSUME Inv, NEW a \in Actor, Quiet(a), Messages' = Messages
  PROVE  AbsQueue' = AbsQueue /\ AbsHand' = AbsHand
  BY QueueSame, HandSame DEF Quiet

(* rt_mq_send_wait and rt_mq_urgent up to the slot are quiet.               *)
LEMMA SendIsQuiet ==
  ASSUME Inv, NEW a \in Actor, NEW x, Send(a, x) \/ Urgent(a, x) \/ (a \in Thread /\ SendRetry(a))
  PROVE  Quiet(a)
<1>1. /\ pc \in [Actor -> Pc] /\ slot \in [Actor -> SlotOrNull]
      /\ buf \in [Actor -> Msg \cup {Null}]
  BY DEF Inv, TypeOK
<1>2. ASSUME NEW y, NEW to \in {"fill", "fillurgent"}, Claim(a, y, to), pc[a] \in {"run", "send"}
      PROVE  Quiet(a)
  BY <1>1, <1>2 DEF Claim, Quiet
<1>3. ASSUME NEW y, NEW w, SendBlocks(a, y, w), pc[a] \in {"run", "send"}
      PROVE  Quiet(a)
  BY <1>1, <1>3 DEF SendBlocks, Quiet
<1>4. ASSUME Return(a), UNCHANGED lists, pc[a] = "send"
      PROVE  Quiet(a)
  BY <1>1, <1>4 DEF Return, lists, Quiet
<1>5. CASE Send(a, x) \/ Urgent(a, x)
  BY <1>2, <1>3, <1>5 DEF Send, Urgent
<1>6. CASE SendRetry(a)
  BY <1>2, <1>3, <1>4, <1>6 DEF SendRetry
<1> QED BY <1>5, <1>6

(* So is a receive that takes no message.                                   *)
LEMMA RecvIsQuiet ==
  ASSUME Inv, NEW a \in Actor, Recv(a) \/ (a \in Thread /\ RecvRetry(a)), ~ Unlink(a)
  PROVE  Quiet(a)
<1>1. /\ pc \in [Actor -> Pc] /\ slot \in [Actor -> SlotOrNull]
      /\ buf \in [Actor -> Msg \cup {Null}]
  BY DEF Inv, TypeOK
<1>2. ASSUME NEW w, RecvBlocks(a, w), pc[a] \in {"run", "recv"}
      PROVE  Quiet(a)
  BY <1>1, <1>2 DEF RecvBlocks, Quiet
<1>3. ASSUME Return(a), UNCHANGED lists, pc[a] = "recv"
      PROVE  Quiet(a)
  BY <1>1, <1>3 DEF Return, lists, Quiet
<1>4. CASE Recv(a)
  BY <1>2, <1>4 DEF Recv
<1>5. CASE RecvRetry(a)
  BY <1>2, <1>3, <1>5 DEF RecvRetry
<1> QED BY <1>4, <1>5

(* Filling a slot changes nothing that Fifo sees.                           *)
LEMMA FillStutters ==
  ASSUME Inv, NEW a \in Actor, Fill(a)
  PROVE  AbsQueue' = AbsQueue /\ AbsHand' = AbsHand
<1>1. /\ Messages' = Messages
      /\ pc[a] \in {"fill", "fillurgent"} /\ pc'[a] \in {"link", "linkurgent"}
      /\ \A b \in Actor : b # a => pc'[b] = pc[b] /\ slot[b] # slot[a]
  BY FillKeeps
<1>2. \A c : c # slot[a] => content'[c] = content[c]
  BY DEF Fill, Inv, TypeOK
<1>3. slot[a] # Null /\ slot[a] \notin ToSet(Messages)
  BY <1>1 DEF Inv, HeldOK, Holding
<1>4. AbsQueue' = AbsQueue
  BY <1>1, <1>2, <1>3, QueueSame
<1>5. ASSUME NEW b \in Actor PROVE Hand(b)' = Hand(b)
  <2>1. CASE b = a
    BY <1>1, <2>1 DEF Hand
  <2>2. CASE b # a
    BY <1>1, <1>2, <2>2 DEF Hand, Fill
  <2> QED BY <2>1, <2>2
<1>6. AbsHand' = AbsHand
  BY <1>5 DEF AbsHand
<1> QED BY <1>4, <1>6

(* Nor does copying a message.                                              *)
LEMMA CopyStutters ==
  ASSUME Inv, NEW a \in Actor, Copy(a)
  PROVE  AbsQueue' = AbsQueue /\ AbsHand' = AbsHand
<1>1. /\ Messages' = Messages
      /\ pc[a] = "copy" /\ pc'[a] = "give" /\ buf'[a] = content[slot[a]]
      /\ \A b \in Actor : b # a => pc'[b] = pc[b] /\ buf'[b] = buf[b]
  BY CopyKeeps
<1>2. UNCHANGED <<content, slot>>
  BY DEF Copy, lists
<1>3. AbsQueue' = AbsQueue
  BY <1>1, <1>2, QueueSame
<1>4. ASSUME NEW b \in Actor PROVE Hand(b)' = Hand(b)
  <2>1. CASE b = a
    BY <1>1, <2>1 DEF Hand
  <2>2. CASE b # a
    BY <1>1, <1>2, <2>2 DEF Hand
  <2> QED BY <2>1, <2>2
<1>5. AbsHand' = AbsHand
  BY <1>4 DEF AbsHand
<1> QED BY <1>3, <1>5

(* A sequence is the function of its positions.                             *)
LEMMA SequenceIs ==
  ASSUME NEW S, NEW s \in Seq(S)
  PROVE  s = [i \in DOMAIN s |-> s[i]]
  OBVIOUS

(* A message linked last.                                                   *)
LEMMA QueueAppend ==
  ASSUME Inv, NEW c \in Slot, content[c] \in Msg, content' = content,
         Messages' = Append(Messages, c)
  PROVE  AbsQueue' = Append(AbsQueue, content[c])
<1>1. /\ Messages \in Seq(Slot) /\ AbsQueue \in Seq(Msg) /\ Len(AbsQueue) = Len(Messages)
      /\ \A i \in 1 .. Len(Messages) : AbsQueue[i] = content[Messages[i]]
  BY QueueIs
<1> DEFINE m == Append(Messages, c)
           s == Append(AbsQueue, content[c])
<1>2. /\ m \in Seq(Slot) /\ Len(m) = Len(Messages) + 1 /\ DOMAIN m = 1 .. Len(Messages) + 1
      /\ \A i \in 1 .. Len(Messages) : m[i] = Messages[i]
      /\ m[Len(Messages) + 1] = c
  BY <1>1
<1>3. /\ s \in Seq(Msg) /\ DOMAIN s = 1 .. Len(Messages) + 1
      /\ \A i \in 1 .. Len(Messages) : s[i] = AbsQueue[i]
      /\ s[Len(Messages) + 1] = content[c]
  BY <1>1
<1>4. AbsQueue' = [i \in DOMAIN m |-> content[m[i]]]
  BY DEF AbsQueue
<1>5. \A i \in 1 .. Len(Messages) + 1 : content[m[i]] = s[i]
  BY <1>1, <1>2, <1>3
<1>6. s = [i \in DOMAIN s |-> s[i]]
  BY <1>3, SequenceIs
<1> HIDE DEF m, s
<1>7. AbsQueue' = s
  BY <1>2, <1>3, <1>4, <1>5, <1>6
<1> QED BY <1>7 DEF s

(* A message linked first.                                                  *)
LEMMA QueueCons ==
  ASSUME Inv, NEW c \in Slot, content[c] \in Msg, content' = content,
         Messages' = Cons(c, Messages)
  PROVE  AbsQueue' = <<content[c]>> \o AbsQueue
<1>1. /\ Messages \in Seq(Slot) /\ AbsQueue \in Seq(Msg) /\ Len(AbsQueue) = Len(Messages)
      /\ \A i \in 1 .. Len(Messages) : AbsQueue[i] = content[Messages[i]]
  BY QueueIs
<1> DEFINE m == <<c>> \o Messages
           s == <<content[c]>> \o AbsQueue
<1>2. /\ m \in Seq(Slot) /\ DOMAIN m = 1 .. Len(Messages) + 1
      /\ \A i \in 1 .. Len(Messages) + 1 : m[i] = IF i = 1 THEN c ELSE Messages[i - 1]
  BY <1>1
<1>3. /\ s \in Seq(Msg) /\ DOMAIN s = 1 .. Len(Messages) + 1
      /\ \A i \in 1 .. Len(Messages) + 1 :
            s[i] = IF i = 1 THEN content[c] ELSE AbsQueue[i - 1]
  BY <1>1
<1>4. AbsQueue' = [i \in DOMAIN m |-> content[m[i]]]
  BY DEF AbsQueue, Cons
<1>5. ASSUME NEW i \in 1 .. Len(Messages) + 1 PROVE content[m[i]] = s[i]
  <2> HIDE DEF m, s
  <2>1. CASE i = 1
    BY <1>2, <1>3, <2>1
  <2>2. CASE i # 1
    <3>1. i - 1 \in 1 .. Len(Messages)
      BY <1>1, <2>2
    <3>2. content[Messages[i - 1]] = AbsQueue[i - 1]
      BY <1>1, <3>1
    <3> QED BY <1>2, <1>3, <2>2, <3>2
  <2> QED BY <2>1, <2>2
<1>6. s = [i \in DOMAIN s |-> s[i]]
  BY <1>3, SequenceIs
<1> HIDE DEF m, s
<1>7. AbsQueue' = s
  BY <1>2, <1>3, <1>4, <1>5, <1>6
<1> QED BY <1>7 DEF s

(* The first message taken.                                                 *)
LEMMA QueueTail ==
  ASSUME Inv, Messages # <<>>, content' = content, Messages' = Tail(Messages)
  PROVE  /\ AbsQueue # <<>> /\ Head(AbsQueue) = content[Head(Messages)]
         /\ AbsQueue' = Tail(AbsQueue)
<1>1. /\ Messages \in Seq(Slot) /\ AbsQueue \in Seq(Msg) /\ Len(AbsQueue) = Len(Messages)
      /\ \A i \in 1 .. Len(Messages) : AbsQueue[i] = content[Messages[i]]
  BY QueueIs
<1> DEFINE m == Tail(Messages)
           s == Tail(AbsQueue)
<1>2. Len(Messages) \in Nat /\ Len(Messages) > 0
  BY <1>1
<1>3. /\ m \in Seq(Slot) /\ DOMAIN m = 1 .. Len(Messages) - 1
      /\ \A i \in 1 .. Len(Messages) - 1 : m[i] = Messages[i + 1]
  BY <1>1, <1>2
<1>4. AbsQueue # <<>> /\ Head(AbsQueue) = AbsQueue[1] /\ Head(Messages) = Messages[1]
  BY <1>1, <1>2
<1>5. /\ s \in Seq(Msg) /\ DOMAIN s = 1 .. Len(Messages) - 1
      /\ \A i \in 1 .. Len(Messages) - 1 : s[i] = AbsQueue[i + 1]
  BY <1>1, <1>2, <1>4
<1>6. AbsQueue' = [i \in DOMAIN m |-> content[m[i]]]
  BY DEF AbsQueue
<1>7. \A i \in 1 .. Len(Messages) - 1 : content[m[i]] = s[i]
  BY <1>1, <1>2, <1>3, <1>5
<1>8. s = [i \in DOMAIN s |-> s[i]]
  BY <1>5, SequenceIs
<1> HIDE DEF m, s
<1>9. AbsQueue' = s
  BY <1>3, <1>5, <1>6, <1>7, <1>8
<1>10. Head(AbsQueue) = content[Head(Messages)]
  BY <1>1, <1>2, <1>4
<1> QED BY <1>4, <1>9, <1>10 DEF s

(* A message that is linked has room: it has the slot, and the messages in  *)
(* the list and in the hands of receivers have slots of their own.          *)
LEMMA LinkHasRoom ==
  ASSUME Inv, NEW a \in Actor, slot[a] # Null, pc[a] \notin {"copy", "give"}
  PROVE  /\ IsFiniteSet({b \in Actor : AbsHand[b] # Null})
         /\ Len(AbsQueue) + Cardinality({b \in Actor : AbsHand[b] # Null}) < Cardinality(Slot)
<1> DEFINE H == {b \in Actor : AbsHand[b] # Null}
           M == ToSet(Messages)
           R == Slot \ (M \cup {slot[a]})
           at == [b \in H |-> slot[b]]
<1>1. /\ Messages \in Seq(Slot) /\ IsInjective(Messages) /\ Len(AbsQueue) = Len(Messages)
  BY QueueIs DEF Inv, ListsOK, Lists
<1>2. IsFiniteSet(M) /\ Cardinality(M) = Len(Messages) /\ M \subseteq Slot
  BY <1>1, ListFits, EmptyList
<1>3. slot[a] \in Slot /\ slot[a] \notin M
  BY DEF Inv, HeldOK, TypeOK, SlotOrNull
<1>4. \A b \in H : pc[b] \in {"copy", "give"} /\ b \in Actor
  BY HandIs DEF AbsHand
<1>5. \A b \in H : slot[b] \in Slot /\ slot[b] \notin M /\ slot[b] # slot[a]
  <2> SUFFICES ASSUME NEW b \in H PROVE slot[b] \in Slot /\ slot[b] \notin M /\ slot[b] # slot[a]
    OBVIOUS
  <2>1. b \in Actor /\ pc[b] \in Holding /\ b # a
    BY <1>4 DEF Holding
  <2>2. slot[b] # Null
    BY <2>1 DEF Inv, HeldOK
  <2> QED BY <2>1, <2>2 DEF Inv, HeldOK, TypeOK, SlotOrNull
<1>6. \A b, c \in H : slot[b] = slot[c] => b = c
  BY <1>4, <1>5, MessageQueueAssumption DEF Inv, HeldOK
<1>7. at \in Injection(H, R)
  BY <1>5, <1>6 DEF Injection, IsInjective
<1>8. /\ IsFiniteSet(Slot) /\ IsFiniteSet(M \cup {slot[a]})
      /\ Cardinality(M \cup {slot[a]}) = Len(Messages) + 1
  BY <1>2, <1>3, FS_AddElement, MessageQueueAssumption
<1>9. /\ IsFiniteSet(R)
      /\ Cardinality(R) = Cardinality(Slot) - Cardinality(Slot \cap (M \cup {slot[a]}))
  BY <1>8, FS_Difference
<1>10. Slot \cap (M \cup {slot[a]}) = M \cup {slot[a]}
  BY <1>2, <1>3
<1>11. IsFiniteSet(H) /\ Cardinality(H) <= Cardinality(R)
  BY <1>7, <1>9, FS_Injection
<1>12. /\ Cardinality(Slot) \in Nat /\ Cardinality(H) \in Nat /\ Cardinality(R) \in Nat
       /\ Len(Messages) \in Nat
  BY <1>1, <1>8, <1>9, <1>11, FS_CardinalityType
<1>13. Len(Messages) + Cardinality(H) < Cardinality(Slot)
  <2> DEFINE cs == Cardinality(Slot)
             ch == Cardinality(H)
             cr == Cardinality(R)
             n == Len(Messages)
  <2>1. cr = cs - (n + 1) /\ ch <= cr /\ cs \in Nat /\ ch \in Nat /\ cr \in Nat /\ n \in Nat
    BY <1>8, <1>9, <1>10, <1>11, <1>12
  <2> HIDE DEF cs, ch, cr, n
  <2>2. n + ch < cs
    BY <2>1
  <2> QED BY <2>2 DEF cs, ch, n
<1> QED BY <1>1, <1>11, <1>13

(* Linking a slot puts its message.                                         *)
LEMMA LinkPuts ==
  ASSUME Inv, NEW a \in Actor, Link(a)
  PROVE  /\ content[slot[a]] \in Msg /\ slot[a] # Null /\ pc[a] \notin {"copy", "give"}
         /\ AbsHand' = AbsHand
         /\ \/ AbsQueue' = Append(AbsQueue, content[slot[a]])
            \/ AbsQueue' = <<content[slot[a]]>> \o AbsQueue
<1>1. /\ slot[a] \in Slot /\ content[slot[a]] \in Msg
      /\ Messages' = Append(Messages, slot[a]) \/ Messages' = Cons(slot[a], Messages)
  BY LinkKeeps
<1>2. content' = content /\ pc[a] \in {"link", "linkurgent"}
  BY DEF Link
<1>3. AbsQueue' = Append(AbsQueue, content[slot[a]]) \/ AbsQueue' = <<content[slot[a]]>> \o AbsQueue
  BY <1>1, <1>2, QueueAppend, QueueCons
<1>4. Quiet(a)
  BY <1>2 DEF Link, Return, Quiet, Inv, TypeOK
<1>5. AbsHand' = AbsHand
  BY <1>4, HandSame
<1>6. slot[a] # Null
  BY <1>1, MessageQueueAssumption
<1> QED BY <1>1, <1>2, <1>3, <1>5, <1>6

(* Unlinking the first message takes it.                                    *)
LEMMA UnlinkTakes ==
  ASSUME Inv, NEW a \in Actor, pc[a] \in {"run", "recv"}, ~ Suspended(a), Unlink(a)
  PROVE  /\ AbsHand[a] = Null /\ AbsQueue # <<>>
         /\ AbsHand' = [AbsHand EXCEPT ![a] = Head(AbsQueue)]
         /\ AbsQueue' = Tail(AbsQueue)
<1>1. Messages # <<>> /\ slot'[a] = Head(Messages) /\ Messages' = Tail(Messages)
  BY UnlinkKeeps
<1>2. /\ content' = content /\ buf' = buf /\ pc'[a] = "copy"
      /\ \A b \in Actor : b # a => pc'[b] = pc[b] /\ slot'[b] = slot[b]
  BY DEF Unlink, Inv, TypeOK
<1>3. AbsQueue # <<>> /\ Head(AbsQueue) = content[Head(Messages)] /\ AbsQueue' = Tail(AbsQueue)
  BY <1>1, <1>2, QueueTail
<1>4. Hand(a) = Null /\ Hand(a)' = Head(AbsQueue)
  BY <1>1, <1>2, <1>3 DEF Hand
<1>5. ASSUME NEW b \in Actor, b # a PROVE Hand(b)' = Hand(b)
  BY <1>2, <1>5 DEF Hand
<1>6. AbsHand[a] = Null /\ AbsHand' = [AbsHand EXCEPT ![a] = Head(AbsQueue)]
  BY <1>4, <1>5 DEF AbsHand
<1> QED BY <1>3, <1>6

(* Giving the slot back hands the message out.                              *)
LEMMA GiveGives ==
  ASSUME Inv, NEW a \in Actor, Give(a)
  PROVE  /\ AbsHand[a] # Null /\ AbsHand' = [AbsHand EXCEPT ![a] = Null]
         /\ AbsQueue' = AbsQueue
<1>1. /\ Messages' = Messages
      /\ pc[a] = "give" /\ pc'[a] = "run" /\ buf[a] \in Msg
      /\ \A b \in Actor : b # a => pc'[b] = pc[b] /\ slot'[b] = slot[b] /\ buf'[b] = buf[b]
  BY GiveKeeps
<1>2. content' = content
  BY DEF Give
<1>3. AbsQueue' = AbsQueue
  BY <1>1, <1>2, QueueSame
<1>4. Hand(a) # Null /\ Hand(a)' = Null
  BY <1>1, MessageQueueAssumption DEF Hand
<1>5. ASSUME NEW b \in Actor, b # a PROVE Hand(b)' = Hand(b)
  BY <1>1, <1>2, <1>5 DEF Hand
<1>6. AbsHand[a] # Null /\ AbsHand' = [AbsHand EXCEPT ![a] = Null]
  BY <1>4, <1>5 DEF AbsHand
<1> QED BY <1>3, <1>6

(* Emptying the list clears Fifo's queue.                                   *)
LEMMA EmptyClears ==
  ASSUME Messages' = <<>>, UNCHANGED <<content, pc, slot, buf>>
  PROVE  AbsQueue' = <<>> /\ AbsHand' = AbsHand
<1>1. AbsQueue' = <<>>
  BY DEF AbsQueue
<1>2. AbsHand' = AbsHand
  BY DEF AbsHand, Hand
<1> QED BY <1>1, <1>2

(* Every step of the queue is one of Fifo's or none.                        *)
LEMMA StepMaps ==
  ASSUME Inv, [Next]_vars
  PROVE  [Abstract!Next]_(Abstract!vars)
<1> DEFINE Same == AbsQueue' = AbsQueue /\ AbsHand' = AbsHand
<1>1. Same => UNCHANGED Abstract!vars
  BY DEF Abstract!vars, AbsQueue, AbsHand
<1>2. CASE UNCHANGED vars
  <2>1. Messages' = Messages /\ UNCHANGED <<content, pc, slot, buf>>
    BY <1>2 DEF Messages, vars
  <2>2. Same
    BY <2>1 DEF AbsQueue, AbsHand, Hand
  <2> QED BY <1>1, <2>2
<1>3. ASSUME NEW a \in Actor, NEW m \in Msg, Send(a, m) \/ Urgent(a, m) PROVE Same
  BY <1>3, SendKeeps, SendIsQuiet, QuietStutters
<1>4. ASSUME NEW a \in Actor, Fill(a) PROVE Same
  BY <1>4, FillStutters
<1>5. ASSUME NEW a \in Actor, Link(a) PROVE Abstract!Next
  <2>1. /\ content[slot[a]] \in Msg /\ slot[a] # Null /\ pc[a] \notin {"copy", "give"}
        /\ AbsHand' = AbsHand
        /\ \/ AbsQueue' = Append(AbsQueue, content[slot[a]])
           \/ AbsQueue' = <<content[slot[a]]>> \o AbsQueue
    BY <1>5, LinkPuts
  <2>2. Len(AbsQueue) + Cardinality({b \in Actor : AbsHand[b] # Null}) < Cardinality(Slot)
    BY <2>1, LinkHasRoom
  <2>3. Abstract!Hands = {b \in Actor : AbsHand[b] # Null}
    BY DEF Abstract!Hands, AbsHand
  <2>4. Abstract!Room
    BY <2>2, <2>3 DEF Abstract!Room, AbsQueue, Abstract!Cardinality, Cardinality
  <2>5. CASE AbsQueue' = Append(AbsQueue, content[slot[a]])
    <3>1. PICK m \in Msg : m = content[slot[a]]
      BY <2>1
    <3>2. Abstract!Put(m)
      BY <2>1, <2>4, <2>5, <3>1 DEF Abstract!Put, AbsQueue, AbsHand
    <3> QED BY <3>2 DEF Abstract!Next
  <2>6. CASE AbsQueue' = <<content[slot[a]]>> \o AbsQueue
    <3>1. PICK m \in Msg : m = content[slot[a]]
      BY <2>1
    <3>2. Abstract!PutFirst(m)
      BY <2>1, <2>4, <2>6, <3>1 DEF Abstract!PutFirst, Abstract!Cons, AbsQueue, AbsHand
    <3> QED BY <3>2 DEF Abstract!Next
  <2> QED BY <2>1, <2>5, <2>6
<1>6. ASSUME NEW a \in Actor, Unlink(a), pc[a] \in {"run", "recv"}, ~ Suspended(a)
      PROVE  Abstract!Next
  <2>1. Abstract!Take(a)
    BY <1>6, UnlinkTakes DEF Abstract!Take, AbsQueue, AbsHand
  <2> QED BY <2>1 DEF Abstract!Next
<1>7. ASSUME NEW a \in Actor, Recv(a) PROVE Same \/ Abstract!Next
  <2>1. pc[a] = "run" /\ ~ Suspended(a)
    BY <1>7, RunsOrWoken DEF Recv, Inv
  <2>2. CASE Unlink(a)
    BY <1>6, <2>1, <2>2
  <2>3. CASE ~ Unlink(a)
    BY <1>7, <2>3, RecvKeeps, RecvIsQuiet, QuietStutters
  <2> QED BY <2>2, <2>3
<1>8. ASSUME NEW a \in Actor, Copy(a) PROVE Same
  BY <1>8, CopyStutters
<1>9. ASSUME NEW a \in Actor, Give(a) PROVE Abstract!Next
  <2>1. Abstract!Give(a)
    BY <1>9, GiveGives DEF Abstract!Give, AbsQueue, AbsHand
  <2> QED BY <2>1 DEF Abstract!Next
<1>10. ASSUME NEW t \in Thread, SendRetry(t) PROVE Same
  <2>1. t \in Actor
    BY DEF Actor
  <2> QED BY <1>10, <2>1, SendRetryKeeps, SendIsQuiet, QuietStutters
<1>11. ASSUME NEW t \in Thread, RecvRetry(t) PROVE Same \/ Abstract!Next
  <2>1. t \in Actor /\ pc[t] = "recv" /\ ~ Suspended(t)
    BY <1>11 DEF Actor, CanRun, RecvRetry
  <2>2. CASE Unlink(t)
    BY <1>6, <2>1, <2>2
  <2>3. CASE ~ Unlink(t)
    BY <1>11, <2>1, <2>3, RecvRetryKeeps, RecvIsQuiet, QuietStutters
  <2> QED BY <2>2, <2>3
<1>12. ASSUME NEW t \in Thread, Expire(t) \/ Timeout(t) \/ Resume(t) PROVE Same
  <2>1. Messages' = Messages /\ UNCHANGED <<content, pc, slot, buf>>
    BY <1>12, TimeoutKeeps
  <2> QED BY <2>1 DEF AbsQueue, AbsHand, Hand
<1>13. ASSUME NEW t \in Thread, Reset(t) \/ Detach(t) PROVE Abstract!Next
  <2>1. Messages' = <<>> /\ UNCHANGED <<content, pc, slot, buf>>
    BY <1>13, ResetKeeps, DetachKeeps
  <2>2. Abstract!Clear
    BY <2>1, EmptyClears DEF Abstract!Clear, AbsQueue, AbsHand
  <2> QED BY <2>2 DEF Abstract!Next
<1> HIDE DEF Same
<1> QED BY <1>1, <1>2, <1>3, <1>4, <1>5, <1>7, <1>8, <1>9, <1>10, <1>11, <1>12, <1>13 DEF Next

(* The queue implements Fifo: messages come out whole, once, and in the     *)
(* order of their linking, and no more are under way than there are slots.  *)
THEOREM MessageQueueImplementsFifo == Spec => Implements
<1>1. Init => Abstract!Init
  <2> SUFFICES ASSUME Init PROVE Abstract!Init
    OBVIOUS
  <2>1. Messages = <<>> /\ pc = [a \in Actor |-> "run"]
    BY InitInv, EmptyLists, ListsWalked DEF Init, Messages
  <2> QED BY <2>1 DEF Abstract!Init, Hand
<1>2. Inv /\ [Next]_vars => [Abstract!Next]_(Abstract!vars)
  BY StepMaps
<1> QED BY <1>1, <1>2, AlwaysInv, PTL DEF Spec, Implements, Abstract!Spec
=============================================================================
