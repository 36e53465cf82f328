---------------------------- MODULE QueueLemmas ----------------------------
(***************************************************************************)
(* Facts about the sequences that stand for the kernel's linked lists and  *)
(* about the choice of the highest priority, stated once for every proof   *)
(* that needs them.                                                        *)
(***************************************************************************)
EXTENDS SequencesExt, TLAPS, SequenceTheorems, FiniteSetTheorems

(* A non-empty set of priorities has a highest one, the least number: what  *)
(* __rt_ffs returns exists.                                                 *)
LEMMA LeastPrio ==
  ASSUME NEW G \in SUBSET Nat, G # {}
  PROVE  \E p \in G : \A q \in G : p <= q
<1> DEFINE Below(n) == 0 .. n - 1
           T == {Below(n) : n \in G}
<1>1. IsWellFoundedOn(StrictSubsetOrdering(Nat), FiniteSubsetsOf(Nat))
  BY FS_StrictSubsetOrderingWellFounded
<1>2. T \subseteq FiniteSubsetsOf(Nat)
  <2>1. \A n \in Nat : IsFiniteSet(0 .. n - 1)
    BY FS_Interval
  <2> QED BY <2>1 DEF FiniteSubsetsOf
<1>3. T # {}
  OBVIOUS
<1>4. PICK x \in T : \A y \in T : <<y, x>> \notin StrictSubsetOrdering(Nat)
  <2> HIDE DEF T
  <2> QED BY <1>1, <1>2, <1>3, WFMin
<1>5. PICK p \in G : x = Below(p)
  OBVIOUS
<1>6. ASSUME NEW q \in G, q < p PROVE FALSE
  <2>1. Below(q) \subseteq Below(p) /\ Below(q) # Below(p)
    <3>1. q \in Below(p) /\ q \notin Below(q)
      BY <1>6
    <3> QED BY <3>1, <1>6
  <2>2. <<Below(q), x>> \in StrictSubsetOrdering(Nat)
    BY <2>1, <1>5 DEF StrictSubsetOrdering
  <2> QED BY <2>2, <1>4
<1> QED BY <1>6

(* The list without the node at position i.                                 *)
LEMMA RemoveFirstPlaces ==
  ASSUME NEW S, NEW s \in Seq(S), IsInjective(s), NEW i \in 1 .. Len(s)
  PROVE  LET r == RemoveFirst(s, s[i])
         IN  /\ r \in Seq(S)
             /\ Len(r) = Len(s) - 1
             /\ \A j \in 1 .. Len(s) - 1 : r[j] = IF j < i THEN s[j] ELSE s[j + 1]
<1> DEFINE e == s[i]
           a == SubSeq(s, 1, i - 1)
           b == SubSeq(s, i + 1, Len(s))
           r == a \o b
<1>1. {j \in 1 .. Len(s) : s[j] = e} = {i}
  BY DEF IsInjective
<1>2. Min({i}) = i
  BY DEF Min
<1>3. SelectInSeq(s, LAMBDA v : v = e) = i
  BY <1>1, <1>2 DEF SelectInSeq
<1>4. RemoveFirst(s, e) = r
  BY <1>3 DEF RemoveFirst, RemoveAt
<1>5. /\ a \in Seq(S)
      /\ Len(a) = i - 1
      /\ \A j \in 1 .. i - 1 : a[j] = s[j]
  BY SubSeqProperties
<1>6. /\ b \in Seq(S)
      /\ Len(b) = Len(s) - i
      /\ \A j \in 1 .. Len(s) - i : b[j] = s[i + j]
  BY SubSeqProperties
<1>7. /\ r \in Seq(S)
      /\ Len(r) = Len(s) - 1
      /\ \A j \in 1 .. Len(s) - 1 : r[j] = IF j < i THEN s[j] ELSE s[j + 1]
  <2> HIDE DEF a, b
  <2>1. /\ r \in Seq(S)
        /\ Len(r) = Len(a) + Len(b)
        /\ \A j \in 1 .. Len(a) + Len(b) :
             r[j] = IF j <= Len(a) THEN a[j] ELSE b[j - Len(a)]
    BY <1>5, <1>6, ConcatProperties
  <2> QED BY <2>1, <1>5, <1>6
<1> QED BY <1>4, <1>7 DEF e

(* rt_list_remove of a node that is in the list at most once.               *)
LEMMA RemoveFirstProperties ==
  ASSUME NEW S, NEW s \in Seq(S), NEW e, IsInjective(s)
  PROVE  /\ RemoveFirst(s, e) \in Seq(S)
         /\ IsInjective(RemoveFirst(s, e))
         /\ ToSet(RemoveFirst(s, e)) = ToSet(s) \ {e}
<1>1. CASE ~ \E i \in 1 .. Len(s) : s[i] = e
  BY <1>1 DEF RemoveFirst, ToSet
<1>2. CASE \E i \in 1 .. Len(s) : s[i] = e
  <2>1. PICK i \in 1 .. Len(s) : s[i] = e
    BY <1>2
  <2> DEFINE r == RemoveFirst(s, e)
  <2>8. /\ r \in Seq(S)
        /\ Len(r) = Len(s) - 1
        /\ \A j \in 1 .. Len(s) - 1 : r[j] = IF j < i THEN s[j] ELSE s[j + 1]
    BY <2>1, RemoveFirstPlaces
  <2> HIDE DEF r
  <2>9. DOMAIN r = 1 .. Len(s) - 1 /\ DOMAIN s = 1 .. Len(s)
    BY <2>8
  <2>10. IsInjective(r)
    <3> DEFINE pos(j) == IF j < i THEN j ELSE j + 1
    <3>1. \A j \in 1 .. Len(s) - 1 : pos(j) \in 1 .. Len(s) /\ r[j] = s[pos(j)]
      BY <2>8
    <3>2. \A j, l \in 1 .. Len(s) - 1 : pos(j) = pos(l) => j = l
      OBVIOUS
    <3>3. \A j, l \in 1 .. Len(s) : s[j] = s[l] => j = l
      BY <2>9 DEF IsInjective
    <3> HIDE DEF pos
    <3> QED BY <3>1, <3>2, <3>3, <2>9 DEF IsInjective
  <2>11. ToSet(r) \subseteq ToSet(s) \ {e}
    BY SMTT(30), <2>1, <2>8, <2>9 DEF IsInjective, ToSet
  <2>12. ToSet(s) \ {e} \subseteq ToSet(r)
    <3> SUFFICES ASSUME NEW j \in 1 .. Len(s), s[j] # e PROVE s[j] \in ToSet(r)
      BY <2>9 DEF ToSet
    <3>1. CASE j < i
      BY <3>1, <2>8, <2>9 DEF ToSet
    <3>2. CASE j > i
      <4>1. j - 1 \in 1 .. Len(s) - 1 /\ r[j - 1] = s[j]
        BY <3>2, <2>8
      <4> QED BY <4>1, <2>9 DEF ToSet
    <3> QED BY <3>1, <3>2, <2>1
  <2> QED BY <2>8, <2>10, <2>11, <2>12 DEF r
<1> QED BY <1>1, <1>2

(* Nothing is taken out of a list the node is not in.                       *)
LEMMA RemoveAbsent ==
  ASSUME NEW S, NEW s \in Seq(S), NEW e, e \notin ToSet(s)
  PROVE  RemoveFirst(s, e) = s
  BY DEF RemoveFirst, ToSet

(* The nodes that stay keep their order.                                    *)
LEMMA RemoveOrder ==
  ASSUME NEW S, NEW s \in Seq(S), IsInjective(s), NEW e,
         NEW i \in DOMAIN RemoveFirst(s, e), NEW j \in DOMAIN RemoveFirst(s, e), i < j
  PROVE  /\ RemoveFirst(s, e)[i] # e /\ RemoveFirst(s, e)[j] # e
         /\ \E a, b \in DOMAIN s : /\ a < b
                                   /\ RemoveFirst(s, e)[i] = s[a]
                                   /\ RemoveFirst(s, e)[j] = s[b]
<1> DEFINE r == RemoveFirst(s, e)
<1>1. r \in Seq(S) /\ ToSet(r) = ToSet(s) \ {e}
  BY RemoveFirstProperties
<1>2. r[i] # e /\ r[j] # e
  BY <1>1 DEF ToSet
<1>3. CASE e \notin ToSet(s)
  <2>1. r = s
    BY <1>3, RemoveAbsent
  <2> QED BY <1>2, <2>1
<1>4. CASE e \in ToSet(s)
  <2>1. PICK k \in 1 .. Len(s) : s[k] = e
    BY <1>4 DEF ToSet
  <2>2. /\ Len(r) = Len(s) - 1
        /\ \A n \in 1 .. Len(s) - 1 : r[n] = IF n < k THEN s[n] ELSE s[n + 1]
    BY <2>1, RemoveFirstPlaces
  <2>3. i \in 1 .. Len(s) - 1 /\ j \in 1 .. Len(s) - 1
    BY <1>1, <2>2
  <2> DEFINE up(n) == IF n < k THEN n ELSE n + 1
  <2>4. up(i) \in DOMAIN s /\ up(j) \in DOMAIN s /\ up(i) < up(j)
    BY <2>1, <2>3
  <2>5. r[i] = s[up(i)] /\ r[j] = s[up(j)]
    BY <2>2, <2>3
  <2> HIDE DEF up
  <2> QED BY <1>2, <2>4, <2>5
<1> QED BY <1>3, <1>4

(* rt_list_insert_before the list head: a new last node.                    *)
LEMMA AppendNew ==
  ASSUME NEW S, NEW s \in Seq(S), NEW e \in S, IsInjective(s), e \notin ToSet(s)
  PROVE  /\ Append(s, e) \in Seq(S)
         /\ IsInjective(Append(s, e))
         /\ ToSet(Append(s, e)) = ToSet(s) \cup {e}
  BY DEF IsInjective, ToSet

(* rt_list_insert_after the list head: a new first node.                    *)
LEMMA ConsNew ==
  ASSUME NEW S, NEW s \in Seq(S), NEW e \in S, IsInjective(s), e \notin ToSet(s)
  PROVE  /\ Cons(e, s) \in Seq(S)
         /\ IsInjective(Cons(e, s))
         /\ ToSet(Cons(e, s)) = ToSet(s) \cup {e}
<1> DEFINE c == Cons(e, s)
<1>1. /\ c \in Seq(S)
      /\ Len(c) = Len(s) + 1
      /\ \A i \in 1 .. Len(s) + 1 : c[i] = IF i = 1 THEN e ELSE s[i - 1]
  <2>1. <<e>> \in Seq(S) /\ Len(<<e>>) = 1 /\ <<e>>[1] = e
    OBVIOUS
  <2> QED BY <2>1, ConcatProperties DEF Cons
<1> HIDE DEF c
<1>2. DOMAIN c = 1 .. Len(s) + 1 /\ DOMAIN s = 1 .. Len(s)
  BY <1>1
<1>3. IsInjective(c)
  BY <1>1, <1>2 DEF IsInjective, ToSet
<1>4. ToSet(c) \subseteq ToSet(s) \cup {e}
  BY <1>1, <1>2 DEF ToSet
<1>5. ToSet(s) \cup {e} \subseteq ToSet(c)
  <2>1. e \in ToSet(c)
    BY <1>1, <1>2 DEF ToSet
  <2>2. ASSUME NEW i \in 1 .. Len(s) PROVE s[i] \in ToSet(c)
    <3>1. i + 1 \in 1 .. Len(s) + 1 /\ c[i + 1] = s[i]
      BY <1>1
    <3> QED BY <3>1, <1>2 DEF ToSet
  <2> QED BY <2>1, <2>2, <1>2 DEF ToSet
<1> QED BY <1>1, <1>3, <1>4, <1>5 DEF c

(* rt_list_isempty, and the first node of a list that is not empty.         *)
LEMMA EmptyList ==
  ASSUME NEW S, NEW s \in Seq(S)
  PROVE  /\ s = <<>> <=> ToSet(s) = {}
         /\ s # <<>> => Head(s) \in ToSet(s)
         /\ ToSet(s) \subseteq S
<1>1. s = <<>> => ToSet(s) = {}
  BY DEF ToSet
<1>2. s # <<>> => Head(s) \in ToSet(s)
  BY DEF ToSet
<1> QED BY <1>1, <1>2 DEF ToSet

(* Taking the first node out of a list.                                     *)
LEMMA TailProperties ==
  ASSUME NEW S, NEW s \in Seq(S), s # <<>>, IsInjective(s)
  PROVE  /\ Head(s) \in ToSet(s)
         /\ Tail(s) \in Seq(S)
         /\ IsInjective(Tail(s))
         /\ ToSet(Tail(s)) = ToSet(s) \ {Head(s)}
<1> DEFINE r == Tail(s)
<1>1. /\ r \in Seq(S) /\ Len(s) \in Nat /\ Len(s) >= 1
      /\ DOMAIN r = 1 .. Len(s) - 1 /\ DOMAIN s = 1 .. Len(s)
      /\ \A i \in 1 .. Len(s) - 1 : r[i] = s[i + 1]
      /\ Head(s) = s[1]
  OBVIOUS
<1> HIDE DEF r
<1>2. \A i, j \in 1 .. Len(s) : s[i] = s[j] => i = j
  BY <1>1 DEF IsInjective
<1>3. IsInjective(r)
  <2> SUFFICES ASSUME NEW i \in 1 .. Len(s) - 1, NEW j \in 1 .. Len(s) - 1, r[i] = r[j]
               PROVE  i = j
    BY <1>1 DEF IsInjective
  <2>1. i + 1 \in 1 .. Len(s) /\ j + 1 \in 1 .. Len(s) /\ s[i + 1] = s[j + 1]
    BY <1>1
  <2> QED BY <1>2, <2>1
<1>4. ToSet(r) \subseteq ToSet(s) \ {Head(s)}
  <2> SUFFICES ASSUME NEW i \in 1 .. Len(s) - 1
               PROVE  r[i] \in ToSet(s) /\ r[i] # s[1]
    BY <1>1 DEF ToSet
  <2>1. i + 1 \in 1 .. Len(s) /\ 1 \in 1 .. Len(s) /\ i + 1 # 1 /\ r[i] = s[i + 1]
    BY <1>1
  <2> QED BY <1>1, <1>2, <2>1 DEF ToSet
<1>5. ToSet(s) \ {Head(s)} \subseteq ToSet(r)
  <2> SUFFICES ASSUME NEW i \in 1 .. Len(s), s[i] # s[1]
               PROVE  s[i] \in ToSet(r)
    BY <1>1 DEF ToSet
  <2>1. i - 1 \in 1 .. Len(s) - 1 /\ r[i - 1] = s[i]
    BY <1>1
  <2> QED BY <1>1, <2>1 DEF ToSet
<1>6. Head(s) \in ToSet(s)
  BY <1>1 DEF ToSet
<1> QED BY <1>1, <1>3, <1>4, <1>5, <1>6 DEF r

(* Dropping the last element.                                               *)
LEMMA FrontProperties ==
  ASSUME NEW S, NEW s \in Seq(S), s # <<>>
  PROVE  /\ Front(s) \in Seq(S)
         /\ Len(Front(s)) = Len(s) - 1
         /\ DOMAIN Front(s) = 1 .. Len(s) - 1
         /\ \A i \in 1 .. Len(s) - 1 : Front(s)[i] = s[i]
<1> DEFINE n == Len(s) - 1
<1>1. n \in Nat /\ \A i \in 1 .. n : s[i] \in S
  OBVIOUS
<1> HIDE DEF n
<1>2. /\ SubSeq(s, 1, n) \in Seq(S)
      /\ Len(SubSeq(s, 1, n)) = IF 1 <= n THEN n - 1 + 1 ELSE 0
      /\ \A i \in 1 .. n - 1 + 1 : SubSeq(s, 1, n)[i] = s[1 + i - 1]
  BY <1>1, SubSeqProperties
<1>3. Front(s) = SubSeq(s, 1, n)
  BY DEF Front, n
<1>4. Len(Front(s)) = n /\ \A i \in 1 .. n : Front(s)[i] = s[i]
  BY <1>1, <1>2, <1>3
<1> QED BY <1>2, <1>3, <1>4 DEF n

(* rt_list_insert_before a node: a new node before the one at position i.   *)
LEMMA InsertAtProperties ==
  ASSUME NEW S, NEW s \in Seq(S), NEW i \in 1 .. Len(s) + 1, NEW e \in S
  PROVE  /\ InsertAt(s, i, e) \in Seq(S)
         /\ DOMAIN InsertAt(s, i, e) = 1 .. Len(s) + 1
         /\ \A j \in 1 .. Len(s) + 1 :
              InsertAt(s, i, e)[j] = IF j < i THEN s[j] ELSE IF j = i THEN e ELSE s[j - 1]
         /\ ToSet(InsertAt(s, i, e)) = ToSet(s) \cup {e}
<1> DEFINE a == SubSeq(s, 1, i - 1)
           b == SubSeq(s, i, Len(s))
           n == Len(s)
           r == InsertAt(s, i, e)
<1>1. n \in Nat /\ i \in 1 .. n + 1 /\ DOMAIN s = 1 .. n
  OBVIOUS
<1>2. /\ a \in Seq(S) /\ Len(a) = i - 1
      /\ \A j \in 1 .. i - 1 : a[j] = s[j]
  BY SubSeqProperties
<1>3. /\ b \in Seq(S) /\ Len(b) = n - i + 1
      /\ \A j \in 1 .. n - i + 1 : b[j] = s[i + j - 1]
  BY SubSeqProperties
<1>4. <<e>> \in Seq(S) /\ Len(<<e>>) = 1 /\ <<e>>[1] = e
  OBVIOUS
<1>5. r = (a \o <<e>>) \o b
  BY DEF InsertAt
<1> HIDE DEF a, b, r, n
<1>6. /\ a \o <<e>> \in Seq(S) /\ Len(a \o <<e>>) = i
      /\ \A j \in 1 .. i : (a \o <<e>>)[j] = IF j < i THEN s[j] ELSE e
  BY <1>1, <1>2, <1>4, ConcatProperties
<1>7. /\ r \in Seq(S) /\ Len(r) = n + 1
      /\ \A j \in 1 .. n + 1 :
           r[j] = IF j < i THEN s[j] ELSE IF j = i THEN e ELSE s[j - 1]
  <2> DEFINE c == a \o <<e>>
  <2>1. c \in Seq(S) /\ Len(c) = i /\ r = c \o b
    BY <1>5, <1>6
  <2>2. \A j \in 1 .. i : c[j] = IF j < i THEN s[j] ELSE e
    BY <1>6
  <2> HIDE DEF c
  <2>4. /\ r \in Seq(S) /\ Len(r) = n + 1
        /\ \A j \in 1 .. n + 1 : r[j] = IF j <= i THEN c[j] ELSE b[j - i]
    <3>1. /\ c \o b \in Seq(S)
          /\ Len(c \o b) = Len(c) + Len(b)
          /\ \A j \in 1 .. Len(c) + Len(b) :
               (c \o b)[j] = IF j <= Len(c) THEN c[j] ELSE b[j - Len(c)]
      BY <1>3, <2>1, ConcatProperties
    <3>2. Len(c) + Len(b) = n + 1
      BY <1>1, <1>3, <2>1
    <3> QED BY <2>1, <3>1, <3>2
  <2>3. ASSUME NEW j \in 1 .. n + 1
        PROVE  r[j] = IF j < i THEN s[j] ELSE IF j = i THEN e ELSE s[j - 1]
    <3>1. CASE j <= i
      <4>1. j \in 1 .. i
        BY <1>1, <3>1
      <4> QED BY <2>2, <2>4, <3>1, <4>1
    <3>2. CASE j > i
      <4>1. j - i \in 1 .. n - i + 1 /\ i + (j - i) - 1 = j - 1
        BY <1>1, <3>2
      <4>2. r[j] = b[j - i]
        BY <1>1, <2>4, <3>2
      <4>3. b[j - i] = s[j - 1]
        BY <1>3, <4>1
      <4> QED BY <1>1, <3>2, <4>2, <4>3
    <3> QED BY <1>1, <3>1, <3>2
  <2> QED BY <2>3, <2>4
<1>8. DOMAIN r = 1 .. n + 1
  BY <1>1, <1>7
<1>9. ToSet(r) \subseteq ToSet(s) \cup {e}
  <2> SUFFICES ASSUME NEW j \in 1 .. n + 1 PROVE r[j] \in ToSet(s) \cup {e}
    BY <1>8 DEF ToSet
  <2>1. CASE j < i
    <3>1. j \in 1 .. n /\ r[j] = s[j]
      BY <1>1, <1>7, <2>1
    <3> QED BY <1>1, <3>1 DEF ToSet
  <2>2. CASE j = i
    BY <1>1, <1>7, <2>2
  <2>3. CASE j > i
    <3>1. j - 1 \in 1 .. n /\ r[j] = s[j - 1]
      BY <1>1, <1>7, <2>3
    <3> QED BY <1>1, <3>1 DEF ToSet
  <2> QED BY <1>1, <2>1, <2>2, <2>3
<1>10. ToSet(s) \cup {e} \subseteq ToSet(r)
  <2>1. e \in ToSet(r)
    <3>1. i \in 1 .. n + 1 /\ r[i] = e
      BY <1>1, <1>7
    <3> QED BY <1>8, <3>1 DEF ToSet
  <2>2. ASSUME NEW j \in 1 .. n PROVE s[j] \in ToSet(r)
    <3>1. CASE j < i
      <4>1. j \in 1 .. n + 1 /\ r[j] = s[j]
        BY <1>1, <1>7, <3>1
      <4> QED BY <1>8, <4>1 DEF ToSet
    <3>2. CASE j >= i
      <4>1. j + 1 \in 1 .. n + 1 /\ r[j + 1] = s[j]
        BY <1>1, <1>7, <3>2
      <4> QED BY <1>8, <4>1 DEF ToSet
    <3> QED BY <1>1, <3>1, <3>2
  <2> QED BY <1>1, <2>1, <2>2 DEF ToSet
<1> QED BY <1>7, <1>8, <1>9, <1>10 DEF r, n

(* A node that was in no place of the list is afterwards in one.            *)
LEMMA InsertAtInjective ==
  ASSUME NEW S, NEW s \in Seq(S), NEW i \in 1 .. Len(s) + 1, NEW e \in S,
         IsInjective(s), e \notin ToSet(s)
  PROVE  IsInjective(InsertAt(s, i, e))
<1> DEFINE n == Len(s)
           r == InsertAt(s, i, e)
           pos(j) == IF j < i THEN j ELSE j - 1
<1>1. n \in Nat /\ i \in 1 .. n + 1 /\ DOMAIN s = 1 .. n
  OBVIOUS
<1>2. /\ DOMAIN r = 1 .. n + 1
      /\ \A j \in 1 .. n + 1 : r[j] = IF j < i THEN s[j] ELSE IF j = i THEN e ELSE s[j - 1]
  BY InsertAtProperties
<1>3. \A j, l \in 1 .. n : s[j] = s[l] => j = l
  BY <1>1 DEF IsInjective
<1>4. \A j \in 1 .. n : s[j] # e
  BY <1>1 DEF ToSet
<1> HIDE DEF r, n
<1>5. \A j \in 1 .. n + 1 : j # i => pos(j) \in 1 .. n /\ r[j] = s[pos(j)] /\ r[j] # e
  <2> SUFFICES ASSUME NEW j \in 1 .. n + 1, j # i
               PROVE  pos(j) \in 1 .. n /\ r[j] = s[pos(j)] /\ r[j] # e
    OBVIOUS
  <2>1. pos(j) \in 1 .. n /\ r[j] = s[pos(j)]
    BY <1>1, <1>2
  <2> QED BY <1>4, <2>1
<1>6. \A j, l \in 1 .. n + 1 : j # i /\ l # i /\ pos(j) = pos(l) => j = l
  BY <1>1
<1>7. r[i] = e
  BY <1>1, <1>2
<1> HIDE DEF pos
<1>8. ASSUME NEW j \in 1 .. n + 1, NEW l \in 1 .. n + 1, r[j] = r[l] PROVE j = l
  BY <1>3, <1>5, <1>6, <1>7, <1>8
<1> QED BY <1>2, <1>8 DEF IsInjective, r

(* The list of the threads of a set, in some order.                         *)
LEMMA SetToSeqProperties ==
  ASSUME NEW S, IsFiniteSet(S)
  PROVE  /\ SetToSeq(S) \in Seq(S)
         /\ IsInjective(SetToSeq(S))
         /\ ToSet(SetToSeq(S)) = S
<1> DEFINE n == Cardinality(S)
           q == SetToSeq(S)
<1>1. n \in Nat /\ ExistsBijection(1 .. n, S)
  BY FS_CardinalityType
<1>2. \E f \in [1 .. n -> S] : IsInjective(f)
  BY <1>1 DEF ExistsBijection, Bijection, Injection, IsInjective
<1>3. q \in [1 .. n -> S] /\ IsInjective(q)
  BY <1>2 DEF SetToSeq
<1> HIDE DEF q
<1>4. q \in Seq(S)
  BY <1>1, <1>3
<1>5. q \in Injection(1 .. n, S)
  BY <1>3 DEF Injection, IsInjective
<1>6. IsFiniteSet(1 .. n) /\ Cardinality(1 .. n) = n
  BY <1>1, FS_Interval
<1>7. q \in Surjection(1 .. n, S)
  BY <1>5, <1>6, FS_Injection
<1>8. ToSet(q) = S
  BY <1>3, <1>7 DEF Surjection, ToSet
<1> QED BY <1>3, <1>4, <1>8 DEF q

-----------------------------------------------------------------------------
(* Loops, which the models write as functions of the number of turns done. *)

(* What the first turn finds and every turn keeps holds after each.         *)
LEMMA LoopKeeps ==
  ASSUME NEW N \in Nat, NEW f, NEW P, f[0] \in P[0],
         \A n \in 1 .. N : f[n - 1] \in P[n - 1] => f[n] \in P[n]
  PROVE  \A n \in 0 .. N : f[n] \in P[n]
<1> DEFINE Bad == {n \in 0 .. N : f[n] \notin P[n]}
<1> SUFFICES ASSUME Bad # {} PROVE FALSE
  OBVIOUS
<1>1. Bad \in SUBSET Nat
  OBVIOUS
<1>2. PICK n \in Bad : \A q \in Bad : n <= q
  <2> HIDE DEF Bad
  <2> QED BY <1>1, LeastPrio
<1>3. n # 0
  OBVIOUS
<1>4. n \in 1 .. N /\ n - 1 \in 0 .. N
  BY <1>3
<1>5. n - 1 \notin Bad
  BY <1>2, <1>4
<1> QED BY <1>4, <1>5

(* f has the values of a loop that starts with a and whose turn n is g[n].  *)
LoopRuns(N, a, g) ==
  \E f : f = [n \in 0 .. N |-> f[n]] /\ f[0] = a /\ \A n \in 1 .. N : f[n] = g[n][f[n - 1]]

(* Such a loop has a value after each turn.                                 *)
LEMMA LoopExists ==
  ASSUME NEW N \in Nat, NEW a, NEW g
  PROVE  LoopRuns(N, a, g)
<1> DEFINE Run(f, m) == f = [n \in 0 .. m |-> IF n = 0 THEN a ELSE g[n][f[n - 1]]]
           Bad == {m \in 0 .. N : ~ \E f : Run(f, m)}
<1> SUFFICES ASSUME Bad # {} PROVE FALSE
  <2>1. CASE Bad = {}
    <3>1. N \in 0 .. N
      OBVIOUS
    <3>2. \E f : Run(f, N)
      <4> HIDE DEF Run
      <4> QED BY <2>1, <3>1
    <3>3. PICK f : Run(f, N)
      BY <3>2
    <3>4. f[0] = a /\ \A n \in 1 .. N : f[n] = g[n][f[n - 1]]
      BY <3>3
    <3>5. f = [n \in 0 .. N |-> f[n]]
      BY <3>3
    <3> QED BY <3>4, <3>5 DEF LoopRuns
  <2> QED BY <2>1
<1>1. Bad \in SUBSET Nat
  OBVIOUS
<1>2. PICK m \in Bad : \A q \in Bad : m <= q
  <2> HIDE DEF Bad
  <2> QED BY <1>1, LeastPrio
<1>3. m # 0
  <2>1. Run([n \in 0 .. 0 |-> a], 0)
    OBVIOUS
  <2> QED BY <2>1
<1>4. m \in 1 .. N /\ m - 1 \in 0 .. N
  BY <1>3
<1>5. m - 1 \notin Bad
  BY <1>2, <1>4
<1>6. PICK f : Run(f, m - 1)
  BY <1>4, <1>5
<1> DEFINE h == [n \in 0 .. m |-> IF n < m THEN f[n] ELSE g[m][f[m - 1]]]
<1>7. Run(h, m)
  <2>1. ASSUME NEW n \in 0 .. m
        PROVE  h[n] = IF n = 0 THEN a ELSE g[n][h[n - 1]]
    <3>1. CASE n = 0
      BY <1>4, <1>6, <3>1
    <3>2. CASE n # 0 /\ n < m
      <4>1. n \in 0 .. m - 1 /\ n - 1 \in 0 .. m /\ n - 1 < m
        BY <1>4, <3>2
      <4>2. f[n] = g[n][f[n - 1]]
        BY <1>6, <3>2, <4>1
      <4>3. h[n] = f[n] /\ h[n - 1] = f[n - 1]
        BY <3>2, <4>1
      <4> QED BY <3>2, <4>2, <4>3
    <3>3. CASE n = m
      BY <1>4, <3>3
    <3> QED BY <1>4, <3>1, <3>2, <3>3
  <2>2. h = [n \in 0 .. m |-> h[n]]
    OBVIOUS
  <2> HIDE DEF h
  <2> QED BY <2>1, <2>2
<1> QED BY <1>4, <1>7
=============================================================================
