----------------------------- MODULE TimerProofs -----------------------------
(***************************************************************************)
(* Proofs about the timers: the arithmetic of tick counts that wrap        *)
(* around, the order of the two lists, the invariant that ties the lists,  *)
(* the checks and the semaphore of the timer thread together, and the      *)
(* refinement of Alarms.                                                   *)
(***************************************************************************)
EXTENDS Timer, QueueLemmas

-----------------------------------------------------------------------------
(* Tick counts. *)

(* What % does to numbers that are not far from 0 .. m - 1.                 *)
LEMMA ModIs ==
  ASSUME NEW m \in Nat \ {0}, NEW x \in Int
  PROVE  /\ x % m \in 0 .. m - 1
         /\ x \in 0 .. m - 1 => x % m = x
         /\ x \in m .. 2 * m - 1 => x % m = x - m
         /\ x \in -m .. -1 => x % m = x + m
<1>1. x % m \in 0 .. m - 1
  OBVIOUS
<1>2. x \in 0 .. m - 1 => x % m = x
  OBVIOUS
<1>3. x \in m .. 2 * m - 1 => x % m = x - m
  OBVIOUS
<1>4. x \in -m .. -1 => x % m = x + m
  OBVIOUS
<1> QED BY <1>1, <1>2, <1>3, <1>4

(* Half of the tick counts.                                                 *)
LEMMA HalfIs ==
  /\ Modulus \in Nat \ {0} /\ Half \in Nat \ {0} /\ MaxLate \in 0 .. Half - 1
  /\ Modulus - 1 = 2 * Half \/ Modulus - 1 = 2 * Half + 1
<1>1. Modulus - 1 \in Nat /\ Half \in Int /\ MaxLate \in 0 .. Half - 1
  BY TimerAssumption DEF Half
<1>2. Modulus - 1 = 2 * Half \/ Modulus - 1 = 2 * Half + 1
  BY <1>1 DEF Half
<1> QED BY <1>1, <1>2, TimerAssumption

(* From count b to count e it is Signed(e - b) ticks, back or ahead.        *)
LEMMA SignedIs ==
  ASSUME NEW e \in 0 .. Modulus - 1, NEW b \in 0 .. Modulus - 1
  PROVE  /\ Signed(e - b) \in Half + 1 - Modulus .. Half
         /\ \/ e - b = Signed(e - b)
            \/ e - b = Signed(e - b) + Modulus
            \/ e - b = Signed(e - b) - Modulus
         /\ \A c \in Half + 1 - Modulus .. Half :
              e - b = c \/ e - b = c + Modulus \/ e - b = c - Modulus => c = Signed(e - b)
<1> DEFINE m == Modulus
           h == Half
           x == e - b
           r == x % m
<1>1. /\ m \in Nat \ {0} /\ h \in Nat \ {0} /\ (m - 1 = 2 * h \/ m - 1 = 2 * h + 1)
  BY HalfIs
<1>2. /\ x \in Int /\ r \in 0 .. m - 1
      /\ x \in 0 .. m - 1 => r = x
      /\ x \in -m .. -1 => r = x + m
  <2>1. x \in Int
    BY <1>1
  <2> HIDE DEF x, m
  <2> QED BY <1>1, <2>1, ModIs
<1>3. x \in -(m - 1) .. m - 1
  BY <1>1
<1>4. Signed(e - b) = IF r < h + 1 THEN r ELSE r - m
  BY DEF Signed
<1> HIDE DEF m, h, x, r
<1>5. r = x \/ r = x + m
  BY <1>1, <1>2, <1>3
<1>6. Signed(e - b) \in h + 1 - m .. h
  BY <1>1, <1>2, <1>4
<1>7. x = Signed(e - b) \/ x = Signed(e - b) + m \/ x = Signed(e - b) - m
  BY <1>1, <1>2, <1>4, <1>5
<1>8. ASSUME NEW c \in h + 1 - m .. h, x = c \/ x = c + m \/ x = c - m
      PROVE  c = Signed(e - b)
  BY <1>1, <1>6, <1>7, <1>8
<1> QED BY <1>6, <1>7, <1>8 DEF m, h, x

(* A count is due when it is reached and not more than MaxLate behind.      *)
LEMMA DueIs ==
  ASSUME tick \in 0 .. Modulus - 1, NEW e \in 0 .. Modulus - 1,
         Signed(e - tick) \in -MaxLate .. Half - 1
  PROVE  Due(e) <=> Signed(e - tick) <= 0
<1> DEFINE m == Modulus
           h == Half
           d == Signed(e - tick)
           x == tick - e
           r == x % m
<1>1. /\ m \in Nat \ {0} /\ h \in Nat \ {0} /\ (m - 1 = 2 * h \/ m - 1 = 2 * h + 1)
      /\ MaxLate \in 0 .. h - 1
  BY HalfIs
<1>2. /\ x \in Int /\ r \in 0 .. m - 1
      /\ x \in 0 .. m - 1 => r = x
      /\ x \in -m .. -1 => r = x + m
  <2>1. x \in Int
    BY <1>1
  <2> HIDE DEF x, m
  <2> QED BY <1>1, <2>1, ModIs
<1>3. x \in -(m - 1) .. m - 1
  BY <1>1
<1>4. /\ d \in Int /\ d \in -MaxLate .. h - 1
      /\ x = -d \/ x = -d - m \/ x = -d + m
  <2>1. /\ d \in h + 1 - m .. h
        /\ e - tick = d \/ e - tick = d + m \/ e - tick = d - m
    BY SignedIs
  <2>2. d \in -MaxLate .. h - 1
    OBVIOUS
  <2> HIDE DEF d, m
  <2>3. d \in Int /\ m \in Int
    BY <1>1, <2>1
  <2> QED BY <2>1, <2>2, <2>3
<1>5. Due(e) <=> r < h
  BY DEF Due
<1> HIDE DEF m, h, x, r, d
<1>6. r < h <=> d <= 0
  BY <1>1, <1>2, <1>3, <1>4
<1> QED BY <1>5, <1>6 DEF d

(* A timer that is started expires after its time.                          *)
LEMMA StartLeft ==
  ASSUME tick \in 0 .. Modulus - 1, NEW n \in Time
  PROVE  /\ (tick + n) % Modulus \in 0 .. Modulus - 1
         /\ Signed(((tick + n) % Modulus) - tick) = n
         /\ n \in 1 .. Half - 1
<1> DEFINE m == Modulus
           h == Half
           x == tick + n
           e == x % m
<1>1. /\ m \in Nat \ {0} /\ h \in Nat \ {0} /\ (m - 1 = 2 * h \/ m - 1 = 2 * h + 1)
      /\ n \in 1 .. h - 1
  BY HalfIs, TimerAssumption
<1>2. /\ x \in Int /\ e \in 0 .. m - 1
      /\ x \in 0 .. m - 1 => e = x
      /\ x \in m .. 2 * m - 1 => e = x - m
  <2>1. x \in Int
    BY <1>1
  <2> HIDE DEF x, m
  <2> QED BY <1>1, <2>1, ModIs
<1>3. x \in 0 .. 2 * m - 1
  BY <1>1
<1>4. \A c \in h + 1 - m .. h : e - tick = c \/ e - tick = c + m \/ e - tick = c - m
                                => c = Signed(e - tick)
  BY <1>2, SignedIs
<1>5. x = tick + n
  OBVIOUS
<1> HIDE DEF m, h, x, e
<1>6. e - tick = n \/ e - tick = n - m
  BY <1>1, <1>2, <1>3, <1>5
<1>7. n \in h + 1 - m .. h
  BY <1>1
<1>8. n = Signed(e - tick)
  BY <1>4, <1>6, <1>7
<1> QED BY <1>1, <1>2, <1>8 DEF m, h, x, e

(* Which timers _timer_start puts a timer before.                           *)
LEMMA LaterIs ==
  ASSUME tick \in 0 .. Modulus - 1, NEW n \in Time, NEW c \in 0 .. Modulus - 1,
         Signed(c - tick) \in -MaxLate .. Half - 1
  PROVE  (c - ((tick + n) % Modulus)) % Modulus \in 1 .. Half - 1 <=> Signed(c - tick) > n
<1> DEFINE m == Modulus
           h == Half
           e == (tick + n) % m
           d == Signed(c - tick)
           x == c - e
           r == x % m
<1>1. /\ m \in Nat \ {0} /\ h \in Nat \ {0} /\ (m - 1 = 2 * h \/ m - 1 = 2 * h + 1)
      /\ n \in 1 .. h - 1 /\ MaxLate \in 0 .. h - 1 /\ n + MaxLate <= m - h
  BY HalfIs, TimerAssumption
<1>2. e \in 0 .. m - 1 /\ Signed(e - tick) = n
  BY StartLeft
<1>3. /\ e - tick = n \/ e - tick = n + m \/ e - tick = n - m
  BY <1>2, SignedIs
<1>4. /\ d \in Int /\ d \in -MaxLate .. h - 1
      /\ c - tick = d \/ c - tick = d + m \/ c - tick = d - m
  <2>1. /\ d \in h + 1 - m .. h
        /\ c - tick = d \/ c - tick = d + m \/ c - tick = d - m
    BY SignedIs
  <2>2. d \in -MaxLate .. h - 1
    OBVIOUS
  <2> HIDE DEF d, m
  <2> QED BY <1>1, <2>1, <2>2
<1>5. /\ x \in Int /\ r \in 0 .. m - 1
      /\ x \in 0 .. m - 1 => r = x
      /\ x \in -m .. -1 => r = x + m
  <2>1. x \in Int
    BY <1>1, <1>2
  <2> HIDE DEF x, m
  <2> QED BY <1>1, <2>1, ModIs
<1>6. x \in -(m - 1) .. m - 1 /\ x = (c - tick) - (e - tick)
  BY <1>1, <1>2
<1> HIDE DEF m, h, x, r, d, e
<1>7. r = d - n \/ r = d - n + m
  <2> DEFINE y == d - n
  <2>1. y \in -(m - h) .. h - 2
    BY <1>1, <1>4
  <2>2. x = y \/ x = y + m \/ x = y - m \/ x = y + 2 * m \/ x = y - 2 * m
    BY <1>1, <1>2, <1>3, <1>4, <1>6
  <2> HIDE DEF y
  <2>3. x \in -(m - 1) .. m - 1 /\ x \in Int
    BY <1>5, <1>6
  <2>4. r = x \/ r = x + m
    BY <1>1, <1>5, <2>3
  <2>5. r = y \/ r = y + m
    BY <1>1, <1>5, <2>1, <2>2, <2>3, <2>4
  <2> QED BY <2>5 DEF y
<1>8. r \in 1 .. h - 1 <=> d > n
  BY <1>1, <1>4, <1>5, <1>7
<1> QED BY <1>8 DEF m, h, x, r, d, e

(* A tick brings every timer nearer by one; one that is due with the tick   *)
(* expires at the new count.                                                *)
LEMMA TickLeft ==
  ASSUME tick \in 0 .. Modulus - 1, NEW e \in 0 .. Modulus - 1,
         Signed(e - tick) \in 1 - MaxLate .. Half - 1
  PROVE  /\ (tick + 1) % Modulus \in 0 .. Modulus - 1
         /\ Signed(e - ((tick + 1) % Modulus)) = Signed(e - tick) - 1
         /\ Signed(e - tick) = 1 => e = (tick + 1) % Modulus
<1> DEFINE m == Modulus
           h == Half
           b == (tick + 1) % m
           d == Signed(e - tick)
<1>1. /\ m \in Nat \ {0} /\ h \in Nat \ {0} /\ (m - 1 = 2 * h \/ m - 1 = 2 * h + 1)
      /\ MaxLate \in 0 .. h - 1
  BY HalfIs
<1>2. b \in 0 .. m - 1 /\ (b = tick + 1 \/ b = tick + 1 - m)
  <2> DEFINE x == tick + 1
  <2>1. x \in Int /\ x \in 0 .. m
    BY <1>1
  <2>2. b = x % m /\ x = tick + 1
    OBVIOUS
  <2> HIDE DEF x, m, b
  <2>3. /\ x % m \in 0 .. m - 1
        /\ x \in 0 .. m - 1 => x % m = x
        /\ x \in m .. 2 * m - 1 => x % m = x - m
    BY <1>1, <2>1, ModIs
  <2>4. x % m = x \/ x % m = x - m
    BY <1>1, <2>1, <2>3
  <2> QED BY <1>1, <2>1, <2>2, <2>3, <2>4
<1>3. /\ d \in Int /\ d \in 1 - MaxLate .. h - 1
      /\ e - tick = d \/ e - tick = d + m \/ e - tick = d - m
      /\ e \in 0 .. m - 1 /\ tick \in 0 .. m - 1
  <2>1. /\ d \in h + 1 - m .. h
        /\ e - tick = d \/ e - tick = d + m \/ e - tick = d - m
    BY SignedIs
  <2>2. d \in 1 - MaxLate .. h - 1 /\ e \in 0 .. m - 1 /\ tick \in 0 .. m - 1
    OBVIOUS
  <2> HIDE DEF d, m
  <2> QED BY <1>1, <2>1, <2>2
<1>4. \A c \in h + 1 - m .. h : e - b = c \/ e - b = c + m \/ e - b = c - m
                                => c = Signed(e - b)
  BY <1>2, SignedIs
<1> DEFINE f == d - 1
<1> HIDE DEF m, h, b, d
<1>5. f \in h + 1 - m .. h /\ (e - b = f \/ e - b = f + m \/ e - b = f - m)
  BY <1>1, <1>2, <1>3
<1>6. f = Signed(e - b)
  <2> HIDE DEF f
  <2> QED BY <1>4, <1>5
<1>7. d = 1 => e = b
  BY <1>1, <1>2, <1>3
<1> QED BY <1>2, <1>6, <1>7 DEF m, h, b, d

-----------------------------------------------------------------------------
(* Lists in the order of the time left. *)

(* The time left to each timer, as the wrapped counts tell it.              *)
Ahead == [t \in Timer |-> Signed(expiry[t] - tick)]

(* The timers of s are distinct, have from lo to Half - 1 ticks left in g,  *)
(* and stand in that order.                                                 *)
Ordered(s, g, lo) ==
  /\ s \in Seq(Timer) /\ IsInjective(s)
  /\ \A u \in ToSet(s) : g[u] \in lo .. Half - 1
  /\ \A i, j \in DOMAIN s : i < j => g[s[i]] <= g[s[j]]

(* Other timers do not matter.                                              *)
LEMMA OrderedSame ==
  ASSUME NEW s, NEW g, NEW lo, Ordered(s, g, lo), NEW h, \A u \in ToSet(s) : h[u] = g[u]
  PROVE  Ordered(s, h, lo)
<1>1. \A i \in DOMAIN s : h[s[i]] = g[s[i]]
  BY DEF Ordered, ToSet
<1> QED BY <1>1 DEF Ordered

(* A timer is taken out.                                                    *)
LEMMA OrderedWithout ==
  ASSUME NEW s, NEW g, NEW lo, Ordered(s, g, lo), NEW t,
         NEW h, \A u \in ToSet(s) \ {t} : h[u] = g[u]
  PROVE  /\ Ordered(RemoveFirst(s, t), h, lo)
         /\ ToSet(RemoveFirst(s, t)) = ToSet(s) \ {t}
<1> DEFINE r == RemoveFirst(s, t)
<1>1. s \in Seq(Timer) /\ IsInjective(s)
  BY DEF Ordered
<1>2. r \in Seq(Timer) /\ IsInjective(r) /\ ToSet(r) = ToSet(s) \ {t}
  BY <1>1, RemoveFirstProperties
<1>3. \A u \in ToSet(r) : h[u] \in lo .. Half - 1
  BY <1>2 DEF Ordered
<1>4. ASSUME NEW i \in DOMAIN r, NEW j \in DOMAIN r, i < j
      PROVE  h[r[i]] <= h[r[j]]
  <2>1. PICK a \in DOMAIN s, b \in DOMAIN s : a < b /\ r[i] = s[a] /\ r[j] = s[b]
    BY <1>1, <1>4, RemoveOrder
  <2>2. r[i] \in ToSet(r) /\ r[j] \in ToSet(r)
    BY DEF ToSet
  <2>3. h[r[i]] = g[s[a]] /\ h[r[j]] = g[s[b]]
    BY <1>2, <2>1, <2>2
  <2> QED BY <2>1, <2>3 DEF Ordered
<1> QED BY <1>2, <1>3, <1>4 DEF Ordered

(* The first timer is taken out.                                            *)
LEMMA OrderedTail ==
  ASSUME NEW s, NEW g, NEW lo, Ordered(s, g, lo), s # <<>>,
         NEW h, \A u \in ToSet(s) \ {Head(s)} : h[u] = g[u]
  PROVE  /\ Head(s) \in ToSet(s) /\ \A u \in ToSet(s) : g[Head(s)] <= g[u] \/ u = Head(s)
         /\ Ordered(Tail(s), h, lo)
         /\ ToSet(Tail(s)) = ToSet(s) \ {Head(s)}
<1> DEFINE r == Tail(s)
<1>1. s \in Seq(Timer) /\ IsInjective(s)
  BY DEF Ordered
<1>2. /\ Head(s) \in ToSet(s) /\ r \in Seq(Timer) /\ IsInjective(r)
      /\ ToSet(r) = ToSet(s) \ {Head(s)}
  BY <1>1, TailProperties
<1>3. \A u \in ToSet(r) : h[u] \in lo .. Half - 1
  BY <1>2 DEF Ordered
<1>4. /\ Len(s) \in Nat /\ Len(s) > 0 /\ DOMAIN s = 1 .. Len(s) /\ Head(s) = s[1]
      /\ DOMAIN r = 1 .. Len(s) - 1 /\ \A i \in 1 .. Len(s) - 1 : r[i] = s[i + 1]
  BY <1>1
<1>5. ASSUME NEW i \in DOMAIN r, NEW j \in DOMAIN r, i < j
      PROVE  h[r[i]] <= h[r[j]]
  <2>1. r[i] \in ToSet(r) /\ r[j] \in ToSet(r)
    BY DEF ToSet
  <2>2. /\ i + 1 \in DOMAIN s /\ j + 1 \in DOMAIN s /\ i + 1 < j + 1
        /\ r[i] = s[i + 1] /\ r[j] = s[j + 1]
    BY <1>4, <1>5
  <2>3. g[s[i + 1]] <= g[s[j + 1]]
    BY <2>2 DEF Ordered
  <2>4. h[r[i]] = g[r[i]] /\ h[r[j]] = g[r[j]]
    BY <1>2, <2>1
  <2> QED BY <2>2, <2>3, <2>4
<1>6. ASSUME NEW u \in ToSet(s) PROVE g[Head(s)] <= g[u] \/ u = Head(s)
  <2>1. PICK i \in DOMAIN s : u = s[i]
    BY DEF ToSet
  <2>2. CASE i = 1
    BY <1>4, <2>1, <2>2
  <2>3. CASE i # 1
    <3>1. 1 \in DOMAIN s /\ 1 < i
      BY <1>4, <2>3
    <3> QED BY <1>4, <2>1, <3>1 DEF Ordered
  <2> QED BY <2>2, <2>3
<1> QED BY <1>2, <1>3, <1>5, <1>6 DEF Ordered

(* A timer is put in where _timer_start puts it.                            *)
LEMMA OrderedInsert ==
  ASSUME tick \in 0 .. Modulus - 1, expiry \in [Timer -> 0 .. Modulus - 1],
         NEW s, NEW g, NEW lo \in Int, -MaxLate <= lo, lo <= 1, Ordered(s, g, lo),
         \A u \in ToSet(s) : g[u] = Signed(expiry[u] - tick),
         NEW t \in Timer \ ToSet(s), NEW n \in Time,
         NEW h, h[t] = n, \A u \in ToSet(s) : h[u] = g[u]
  PROVE  /\ Ordered(Insert(s, t, (tick + n) % Modulus), h, lo)
         /\ ToSet(Insert(s, t, (tick + n) % Modulus)) = ToSet(s) \cup {t}
         /\ \A S : s \in Seq(S) /\ t \in S => Insert(s, t, (tick + n) % Modulus) \in Seq(S)
<1> DEFINE e == (tick + n) % Modulus
           later == {i \in DOMAIN s : (expiry[s[i]] - e) % Modulus \in 1 .. Half - 1}
           p == IF later = {} THEN Len(s) + 1 ELSE Min(later)
           r == InsertAt(s, p, t)
<1>1. /\ s \in Seq(Timer) /\ IsInjective(s) /\ Len(s) \in Nat /\ DOMAIN s = 1 .. Len(s)
  BY DEF Ordered
<1>2. n \in 1 .. Half - 1 /\ n \in Int
  BY StartLeft
<1>3. ASSUME NEW i \in DOMAIN s PROVE i \in later <=> g[s[i]] > n
  <2>1. s[i] \in ToSet(s) /\ s[i] \in Timer /\ expiry[s[i]] \in 0 .. Modulus - 1
    BY <1>1 DEF ToSet
  <2>2. g[s[i]] = Signed(expiry[s[i]] - tick) /\ g[s[i]] \in lo .. Half - 1
    BY <2>1 DEF Ordered
  <2>3. Signed(expiry[s[i]] - tick) \in -MaxLate .. Half - 1
    BY <2>2, HalfIs
  <2>4. (expiry[s[i]] - e) % Modulus \in 1 .. Half - 1 <=> Signed(expiry[s[i]] - tick) > n
    BY <2>1, <2>3, LaterIs
  <2> QED BY <2>2, <2>4
<1>4. \A i \in DOMAIN s : g[s[i]] \in Int
  <2>1. \A i \in DOMAIN s : s[i] \in ToSet(s)
    BY DEF ToSet
  <2> QED BY <2>1, HalfIs DEF Ordered
<1>5. /\ p \in 1 .. Len(s) + 1
      /\ \A i \in DOMAIN s : IF i < p THEN g[s[i]] <= n ELSE g[s[i]] > n
  <2>1. CASE later = {}
    <3>1. p = Len(s) + 1
      BY <2>1
    <3>2. \A i \in DOMAIN s : g[s[i]] <= n
      BY <1>2, <1>3, <1>4, <2>1
    <3> HIDE DEF p
    <3>3. \A i \in DOMAIN s : i < p
      BY <1>1, <3>1
    <3>4. p \in 1 .. Len(s) + 1
      BY <1>1, <3>1
    <3> QED BY <3>2, <3>3, <3>4
  <2>2. CASE later # {}
    <3> HIDE DEF e
    <3>1. later \subseteq Nat /\ later \subseteq DOMAIN s
      BY <1>1
    <3>2. PICK x \in later : \A y \in later : x <= y
      BY <2>2, <3>1, LeastPrio
    <3>3. p \in later /\ \A y \in later : p <= y
      BY <2>2, <3>1, <3>2 DEF Min
    <3> HIDE DEF p, later
    <3>4. ASSUME NEW i \in DOMAIN s PROVE IF i < p THEN g[s[i]] <= n ELSE g[s[i]] > n
      <4>1. CASE i < p
        BY <1>1, <1>2, <1>3, <1>4, <3>1, <3>3, <4>1
      <4>2. CASE i = p
        BY <1>1, <1>3, <3>1, <3>3, <4>2
      <4>3. CASE i > p
        <5>1. p \in DOMAIN s /\ g[s[p]] > n /\ p < i
          BY <1>3, <3>1, <3>3, <4>3
        <5>2. g[s[p]] <= g[s[i]]
          BY <5>1 DEF Ordered
        <5>3. g[s[i]] > n
          BY <1>2, <1>4, <5>1, <5>2
        <5>4. ~ (i < p)
          BY <1>1, <3>1, <5>1
        <5> QED BY <5>3, <5>4
      <4>4. i \in Int /\ p \in Int
        BY <1>1, <3>1, <3>3
      <4> QED BY <4>1, <4>2, <4>3, <4>4
    <3> QED BY <1>1, <3>1, <3>3, <3>4
  <2> QED BY <2>1, <2>2
<1>6. Insert(s, t, e) = r
  BY DEF Insert
<1> HIDE DEF p, e, later
<1>7. /\ r \in Seq(Timer) /\ DOMAIN r = 1 .. Len(s) + 1
      /\ \A j \in 1 .. Len(s) + 1 : r[j] = IF j < p THEN s[j] ELSE IF j = p THEN t ELSE s[j - 1]
      /\ ToSet(r) = ToSet(s) \cup {t} /\ IsInjective(r)
  <2>1. p \in 1 .. Len(s) + 1 /\ t \in Timer /\ t \notin ToSet(s)
    BY <1>5
  <2>2. IsInjective(r)
    BY <1>1, <2>1, InsertAtInjective
  <2>3. s \in Seq(Timer)
    BY <1>1
  <2>4. /\ InsertAt(s, p, t) \in Seq(Timer) /\ DOMAIN InsertAt(s, p, t) = 1 .. Len(s) + 1
        /\ \A j \in 1 .. Len(s) + 1 :
             InsertAt(s, p, t)[j] = IF j < p THEN s[j] ELSE IF j = p THEN t ELSE s[j - 1]
        /\ ToSet(InsertAt(s, p, t)) = ToSet(s) \cup {t}
    BY <2>1, <2>3, InsertAtProperties
  <2> QED BY <2>2, <2>4
<1>8. \A S : s \in Seq(S) /\ t \in S => r \in Seq(S)
  BY <1>5, InsertAtProperties
<1> HIDE DEF r
<1>9. \A u \in ToSet(r) : h[u] \in lo .. Half - 1
  BY <1>2, <1>7 DEF Ordered
<1>10. ASSUME NEW i \in DOMAIN r, NEW j \in DOMAIN r, i < j
       PROVE  h[r[i]] <= h[r[j]]
  <2> DEFINE l == Len(s)
  <2>1. /\ i \in 1 .. l + 1 /\ j \in 1 .. l + 1 /\ p \in 1 .. l + 1 /\ l \in Nat
        /\ i \in Int /\ j \in Int /\ p \in Int /\ DOMAIN s = 1 .. l
    BY <1>1, <1>5, <1>7
  <2>2. \A x \in 1 .. l + 1 : /\ x < p => r[x] = s[x]
                              /\ x = p => r[x] = t
                              /\ x > p => r[x] = s[x - 1]
    BY <1>5, <1>7
  <2>3. \A x \in DOMAIN s : /\ x < p => g[s[x]] <= n
                            /\ ~ (x < p) => g[s[x]] > n
    BY <1>5
  <2>4. \A x \in DOMAIN s : h[s[x]] = g[s[x]] /\ g[s[x]] \in Int
    BY <1>4 DEF ToSet
  <2>5. \A x, y \in DOMAIN s : x < y => g[s[x]] <= g[s[y]]
    BY DEF Ordered
  <2> HIDE DEF l
  <2>6. CASE j < p
    <3>1. i \in DOMAIN s /\ j \in DOMAIN s /\ i < p
      BY <1>10, <2>1, <2>6
    <3>2. r[i] = s[i] /\ r[j] = s[j]
      BY <2>1, <2>2, <2>6, <3>1
    <3> QED BY <1>10, <2>4, <2>5, <3>1, <3>2
  <2>7. CASE j = p
    <3>1. i \in DOMAIN s /\ i < p
      BY <1>10, <2>1, <2>7
    <3>2. r[i] = s[i] /\ r[j] = t
      BY <2>1, <2>2, <2>7, <3>1
    <3> QED BY <2>3, <2>4, <3>1, <3>2
  <2>8. CASE j > p
    <3>1. j - 1 \in DOMAIN s /\ ~ (j - 1 < p)
      BY <2>1, <2>8
    <3>2. r[j] = s[j - 1]
      BY <2>1, <2>2, <2>8
    <3>3. CASE i < p
      <4>1. i \in DOMAIN s /\ i < j - 1
        BY <2>1, <2>8, <3>1, <3>3
      <4>2. r[i] = s[i]
        BY <2>1, <2>2, <3>3
      <4> QED BY <2>4, <2>5, <3>1, <3>2, <4>1, <4>2
    <3>4. CASE i = p
      <4> DEFINE q == s[j - 1]
      <4>1. r[i] = t /\ r[j] = q
        BY <2>1, <2>2, <3>2, <3>4
      <4>2. h[q] = g[q] /\ g[q] \in Int /\ g[q] > n
        BY <2>3, <2>4, <3>1
      <4> HIDE DEF q
      <4> QED BY <1>2, <4>1, <4>2
    <3>5. CASE i > p
      <4>1. i - 1 \in DOMAIN s /\ i - 1 < j - 1
        BY <1>10, <2>1, <3>5
      <4>2. r[i] = s[i - 1]
        BY <2>1, <2>2, <3>5
      <4> QED BY <2>4, <2>5, <3>1, <3>2, <4>1, <4>2
    <3> QED BY <2>1, <3>3, <3>4, <3>5
  <2> QED BY <2>1, <2>6, <2>7, <2>8
<1>11. Ordered(r, h, lo)
  BY <1>7, <1>9, <1>10 DEF Ordered
<1> QED BY <1>6, <1>7, <1>8, <1>11 DEF e

-----------------------------------------------------------------------------
(* The invariant. *)

Kinds == {"hard", "soft"}
Of(k) == IF k = "soft" THEN Soft ELSE Hard

(* Everything has its type, and the functions their domains.                *)
Shape ==
  /\ tick \in 0 .. Modulus - 1
  /\ live \subseteq Timer /\ active \subseteq Timer /\ periodic \subseteq Timer
  /\ init \in [Timer -> Time]
  /\ expiry \in [Timer -> 0 .. Modulus - 1]
  /\ list \in [Kinds -> Seq(Timer)]
  /\ temp \in [Kinds -> SUBSET Timer]
  /\ cur \in [Kinds -> Timer \cup {None}]
  /\ pc \in [Kinds -> {"off", "soft", "release", "check", "call", "take", "wait"}]
  /\ pc.hard \in {"off", "soft", "release", "check", "call"}
  /\ pc.soft \in {"check", "call", "take", "wait"}
  /\ sem \in 0 .. 1

(* How far behind a timer may be: soft ones by what the timer thread is     *)
(* late, hard ones not at all, and none is due outside the tick interrupt.  *)
Low(k) == IF k = "soft" THEN -MaxLate ELSE IF pc.hard = "off" THEN 1 ELSE 0

Order(k) == list[k] \in Seq(Of(k)) /\ Ordered(list[k], Ahead, Low(k))

(* Only the timer whose callback runs is in a temporary list, and then in   *)
(* no other.                                                                *)
Flight(k) ==
  /\ temp[k] \subseteq {cur[k]} \cap Of(k)
  /\ temp[k] \cap ToSet(list[k]) = {}
  /\ cur[k] \in IF pc[k] = "call" THEN Of(k) ELSE {None}

Actives ==
  /\ Listed \subseteq active
  /\ active \cup InFlight \subseteq live
  /\ SwitchInFlight = FALSE => active = Listed \cup (InFlight \cap periodic)

(* While the timer thread sleeps or is about to, and no token waits for it  *)
(* or is on its way, the soft timers that are due became so with the tick   *)
(* of which the interrupt has not yet looked at them.                       *)
Alert ==
  /\ pc.soft = "wait" => sem = 0
  /\ pc.soft \in {"take", "wait"} /\ sem = 0 /\ pc.hard # "release" =>
       \A t \in ToSet(list.soft) : Ahead[t] <= 0 => pc.hard = "soft" /\ expiry[t] = tick

Base == Shape /\ \A k \in Kinds : Order(k) /\ Flight(k)

Inv == Base /\ Actives /\ Alert

(* Where the timers are.                                                    *)
LEMMA Places ==
  ASSUME Base
  PROVE  /\ Hard \cap Soft = {} /\ None \notin Timer
         /\ \A k \in Kinds : /\ ToSet(list[k]) \subseteq Of(k) /\ temp[k] \subseteq Of(k)
                             /\ Of(k) \subseteq Timer
         /\ \A k \in Kinds : \A t \in Of(k) : Kind(t) = k
         /\ Listed = ToSet(list["hard"]) \cup ToSet(list["soft"]) /\ Listed \subseteq Timer
         /\ InFlight = temp["hard"] \cup temp["soft"] /\ InFlight \subseteq Timer
         /\ Listed \cap InFlight = {}
<1>1. Hard \cap Soft = {} /\ None \notin Timer
  BY TimerAssumption
<1>2. \A k \in Kinds : ToSet(list[k]) \subseteq Of(k) /\ temp[k] \subseteq Of(k)
  BY EmptyList DEF Base, Order, Flight
<1>3. \A k \in Kinds : Of(k) \subseteq Timer /\ \A t \in Of(k) : Kind(t) = k
  BY <1>1 DEF Kinds, Of, Kind, Timer
<1>4. "hard" \in Kinds /\ "soft" \in Kinds /\ Of("hard") = Hard /\ Of("soft") = Soft
  BY DEF Kinds, Of
<1>5. \A k \in Kinds : temp[k] \cap ToSet(list[k]) = {}
  BY DEF Base, Flight
<1> QED BY <1>1, <1>2, <1>3, <1>4, <1>5 DEF Listed, InFlight

(* The bounds of Low.                                                       *)
LEMMA LowIs ==
  ASSUME NEW k
  PROVE  Low(k) \in Int /\ -MaxLate <= Low(k) /\ Low(k) <= 1
  BY HalfIs DEF Low

(* A list that a step does not touch.                                       *)
LEMMA OrderSame ==
  ASSUME NEW k \in Kinds, Order(k), list'[k] = list[k], Low(k)' = Low(k),
         \A u \in ToSet(list[k]) : Ahead'[u] = Ahead[u]
  PROVE  Order(k)'
<1>1. Ordered(list[k], Ahead', Low(k))
  BY OrderedSame DEF Order
<1>2. Ordered(list'[k], Ahead', Low(k)')
  BY <1>1
<1> QED BY <1>2 DEF Order, Ordered, Of

(* _timer_remove                                                            *)
LEMMA UnlinkKeeps ==
  ASSUME Base, NEW t \in Timer, Unlink(t), UNCHANGED <<tick, cur, pc>>
  PROVE  /\ \A k \in Kinds : Order(k)' /\ Flight(k)'
         /\ expiry' \in [Timer -> 0 .. Modulus - 1]
         /\ list' \in [Kinds -> Seq(Timer)] /\ temp' \in [Kinds -> SUBSET Timer]
         /\ \A k \in Kinds : ToSet(list'[k]) = ToSet(list[k]) \ {t} /\ temp'[k] = temp[k] \ {t}
         /\ Listed' = Listed \ {t} /\ InFlight' = InFlight \ {t}
         /\ \A u \in Timer : u # t => expiry'[u] = expiry[u] /\ Ahead'[u] = Ahead[u]
<1> DEFINE i == Kind(t)
<1>1. i \in Kinds /\ t \in Of(i) /\ \A k \in Kinds : t \in Of(k) => k = i
  BY Places DEF Kind, Kinds, Of, Timer
<1>2. /\ list' = [list EXCEPT ![i] = RemoveFirst(list[i], t)]
      /\ temp' = [temp EXCEPT ![i] = temp[i] \ {t}]
      /\ expiry' = [expiry EXCEPT ![t] = 0]
  BY DEF Unlink
<1>3. 0 \in 0 .. Modulus - 1
  BY HalfIs
<1>4. /\ list \in [Kinds -> Seq(Timer)] /\ temp \in [Kinds -> SUBSET Timer]
      /\ expiry \in [Timer -> 0 .. Modulus - 1]
  BY DEF Base, Shape
<1> HIDE DEF i
<1>5. /\ expiry' \in [Timer -> 0 .. Modulus - 1]
      /\ \A u \in Timer : u # t => expiry'[u] = expiry[u]
  BY <1>2, <1>3, <1>4
<1>6. \A u \in Timer : u # t => Ahead'[u] = Ahead[u]
  BY <1>5 DEF Ahead
<1>7. \A k \in Kinds : Low(k)' = Low(k)
  BY DEF Low
<1>8. ASSUME NEW k \in Kinds
      PROVE  /\ Order(k)' /\ list'[k] \in Seq(Timer)
             /\ ToSet(list'[k]) = ToSet(list[k]) \ {t} /\ temp'[k] = temp[k] \ {t}
  <2>1. /\ Order(k) /\ Flight(k) /\ ToSet(list[k]) \subseteq Of(k) /\ temp[k] \subseteq Of(k)
        /\ Of(k) \subseteq Timer
    BY Places DEF Base
  <2>2. CASE k = i
    <3>1. list'[k] = RemoveFirst(list[k], t) /\ temp'[k] = temp[k] \ {t}
      BY <1>1, <1>2, <1>4, <2>2
    <3>2. list[k] \in Seq(Of(k)) /\ IsInjective(list[k]) /\ Ordered(list[k], Ahead, Low(k))
      BY <2>1 DEF Order, Ordered
    <3>3. \A u \in ToSet(list[k]) \ {t} : Ahead'[u] = Ahead[u]
      BY <1>6, <2>1
    <3>4. /\ Ordered(RemoveFirst(list[k], t), Ahead', Low(k))
          /\ ToSet(RemoveFirst(list[k], t)) = ToSet(list[k]) \ {t}
      BY <3>2, <3>3, OrderedWithout
    <3>5. RemoveFirst(list[k], t) \in Seq(Of(k))
      BY <3>2, RemoveFirstProperties
    <3>6. Ordered(list'[k], Ahead', Low(k)')
      BY <1>7, <3>1, <3>4
    <3> QED BY <3>1, <3>4, <3>5, <3>6 DEF Order, Of, Ordered
  <2>3. CASE k # i
    <3>1. list'[k] = list[k] /\ temp'[k] = temp[k] /\ t \notin Of(k)
      BY <1>1, <1>2, <1>4, <2>3
    <3>2. \A u \in ToSet(list[k]) : Ahead'[u] = Ahead[u]
      BY <1>6, <2>1, <3>1
    <3>3. Order(k)'
      BY <1>7, <2>1, <3>1, <3>2, OrderSame
    <3> QED BY <1>4, <2>1, <3>1, <3>3
  <2> QED BY <2>2, <2>3
<1>9. list' \in [Kinds -> Seq(Timer)] /\ temp' \in [Kinds -> SUBSET Timer]
  BY <1>1, <1>2, <1>4, <1>8
<1>10. ASSUME NEW k \in Kinds PROVE Flight(k)'
  <2>1. Flight(k)
    BY DEF Base
  <2> QED BY <1>8, <2>1 DEF Flight, Of
<1>11. Listed' = Listed \ {t} /\ InFlight' = InFlight \ {t}
  BY <1>8 DEF Listed, InFlight, Kinds
<1> QED BY <1>5, <1>6, <1>8, <1>9, <1>10, <1>11

(* _timer_start                                                             *)
LEMMA StartKeeps ==
  ASSUME Base, NEW t \in Timer, StartNow(t), tick' = tick,
         pc'.hard = "off" <=> pc.hard = "off"
  PROVE  /\ \A k \in Kinds : Order(k)'
         /\ expiry' \in [Timer -> 0 .. Modulus - 1]
         /\ list' \in [Kinds -> Seq(Timer)] /\ temp' \in [Kinds -> SUBSET Timer]
         /\ \A k \in Kinds : /\ ToSet(list'[k]) = ToSet(list[k]) \cup ({t} \cap Of(k))
                             /\ temp'[k] = temp[k] \ {t}
         /\ Listed' = Listed \cup {t} /\ InFlight' = InFlight \ {t}
         /\ \A u \in Timer : u # t => expiry'[u] = expiry[u] /\ Ahead'[u] = Ahead[u]
         /\ init[t] \in Time /\ init[t] \in 1 .. Half - 1 /\ Ahead'[t] = init[t]
         /\ active' = active \cup {t}
<1> DEFINE i == Kind(t)
           n == init[t]
           e == (tick + n) % Modulus
<1>1. i \in Kinds /\ t \in Of(i) /\ \A k \in Kinds : t \in Of(k) => k = i
  BY Places DEF Kind, Kinds, Of, Timer
<1>2. /\ list' = [list EXCEPT ![i] = Insert(RemoveFirst(list[i], t), t, e)]
      /\ temp' = [temp EXCEPT ![i] = temp[i] \ {t}]
      /\ expiry' = [expiry EXCEPT ![t] = e]
      /\ active' = active \cup {t}
  BY DEF StartNow
<1>3. /\ list \in [Kinds -> Seq(Timer)] /\ temp \in [Kinds -> SUBSET Timer]
      /\ expiry \in [Timer -> 0 .. Modulus - 1] /\ tick \in 0 .. Modulus - 1
      /\ n \in Time
  BY DEF Base, Shape
<1>4. e \in 0 .. Modulus - 1 /\ Signed(e - tick) = n /\ n \in 1 .. Half - 1
  BY <1>3, StartLeft
<1> HIDE DEF i, e, n
<1>5. /\ expiry' \in [Timer -> 0 .. Modulus - 1] /\ expiry'[t] = e
      /\ \A u \in Timer : u # t => expiry'[u] = expiry[u]
  BY <1>2, <1>3, <1>4
<1>6. /\ Ahead'[t] = n
      /\ \A u \in Timer : u # t => Ahead'[u] = Ahead[u]
      /\ \A u \in Timer : Ahead[u] = Signed(expiry[u] - tick)
  BY <1>4, <1>5 DEF Ahead
<1>7. \A k \in Kinds : Low(k)' = Low(k)
  BY DEF Low
<1>8. ASSUME NEW k \in Kinds
      PROVE  /\ Order(k)' /\ list'[k] \in Seq(Timer)
             /\ ToSet(list'[k]) = ToSet(list[k]) \cup ({t} \cap Of(k)) /\ temp'[k] = temp[k] \ {t}
  <2>1. /\ Order(k) /\ ToSet(list[k]) \subseteq Of(k) /\ temp[k] \subseteq Of(k)
        /\ Of(k) \subseteq Timer
    BY Places DEF Base
  <2>2. CASE k = i
    <3> DEFINE s == RemoveFirst(list[k], t)
    <3>1. list'[k] = Insert(s, t, e) /\ temp'[k] = temp[k] \ {t}
      BY <1>1, <1>2, <1>3, <2>2
    <3>2. list[k] \in Seq(Of(k)) /\ IsInjective(list[k]) /\ Ordered(list[k], Ahead, Low(k))
      BY <2>1 DEF Order, Ordered
    <3>3. Ordered(s, Ahead, Low(k)) /\ ToSet(s) = ToSet(list[k]) \ {t} /\ s \in Seq(Of(k))
      BY <3>2, OrderedWithout, RemoveFirstProperties
    <3>4. /\ Low(k) \in Int /\ -MaxLate <= Low(k) /\ Low(k) <= 1
      BY LowIs
    <3> HIDE DEF s
    <3>5. \A u \in ToSet(s) : Ahead'[u] = Ahead[u] /\ Ahead[u] = Signed(expiry[u] - tick)
      BY <1>6, <2>1, <3>3
    <3>6. t \in Timer \ ToSet(s)
      BY <3>3
    <3>7. /\ Ordered(Insert(s, t, e), Ahead', Low(k))
          /\ ToSet(Insert(s, t, e)) = ToSet(s) \cup {t}
          /\ \A S : s \in Seq(S) /\ t \in S => Insert(s, t, e) \in Seq(S)
      <4> DEFINE h == Ahead'
                 lo == Low(k)
      <4>1. /\ tick \in 0 .. Modulus - 1 /\ expiry \in [Timer -> 0 .. Modulus - 1]
            /\ n \in Time /\ h[t] = n /\ \A u \in ToSet(s) : h[u] = Ahead[u]
            /\ \A u \in ToSet(s) : Ahead[u] = Signed(expiry[u] - tick)
        BY <1>3, <1>6, <3>5
      <4>2. lo \in Int /\ -MaxLate <= lo /\ lo <= 1 /\ Ordered(s, Ahead, lo)
        BY <3>3, <3>4
      <4> HIDE DEF h, lo
      <4>3. /\ Ordered(Insert(s, t, (tick + n) % Modulus), h, lo)
            /\ ToSet(Insert(s, t, (tick + n) % Modulus)) = ToSet(s) \cup {t}
            /\ \A S : s \in Seq(S) /\ t \in S => Insert(s, t, (tick + n) % Modulus) \in Seq(S)
        BY <3>6, <4>1, <4>2, OrderedInsert
      <4> QED BY <4>3 DEF e, h, lo
    <3>8. Insert(s, t, e) \in Seq(Of(k)) /\ Insert(s, t, e) \in Seq(Timer)
      BY <1>1, <2>2, <3>3, <3>7 DEF Ordered
    <3>9. Order(k)'
      <4>1. Ordered(list'[k], Ahead', Low(k)')
        BY <1>7, <3>1, <3>7
      <4> QED BY <3>1, <3>8, <4>1 DEF Order, Of, Ordered
    <3>10. ToSet(list'[k]) = ToSet(list[k]) \cup ({t} \cap Of(k))
      BY <1>1, <2>2, <3>1, <3>3, <3>7
    <3> QED BY <3>1, <3>8, <3>9, <3>10
  <2>3. CASE k # i
    <3>1. list'[k] = list[k] /\ temp'[k] = temp[k] /\ t \notin Of(k)
      BY <1>1, <1>2, <1>3, <2>3
    <3>2. \A u \in ToSet(list[k]) : Ahead'[u] = Ahead[u]
      BY <1>6, <2>1, <3>1
    <3>3. Order(k)'
      BY <1>7, <2>1, <3>1, <3>2, OrderSame
    <3> QED BY <1>3, <2>1, <3>1, <3>3
  <2> QED BY <2>2, <2>3
<1>9. list' \in [Kinds -> Seq(Timer)] /\ temp' \in [Kinds -> SUBSET Timer]
  BY <1>1, <1>2, <1>3, <1>8
<1>10. Listed' = Listed \cup {t} /\ InFlight' = InFlight \ {t}
  BY <1>1, <1>8 DEF Listed, InFlight, Kinds
<1> QED BY <1>2, <1>3, <1>4, <1>5, <1>6, <1>8, <1>9, <1>10 DEF n

(* What is known of a timer in a list.                                      *)
LEMMA AheadIs ==
  ASSUME Base, NEW k \in Kinds, NEW u \in ToSet(list[k])
  PROVE  /\ u \in Of(k) /\ u \in Timer /\ expiry[u] \in 0 .. Modulus - 1
         /\ Ahead[u] = Signed(expiry[u] - tick) /\ Ahead[u] \in Low(k) .. Half - 1
         /\ Ahead[u] \in -MaxLate .. Half - 1 /\ Ahead[u] \in Int
         /\ Due(expiry[u]) <=> Ahead[u] <= 0
<1>1. u \in Of(k) /\ u \in Timer
  BY Places
<1>2. expiry[u] \in 0 .. Modulus - 1 /\ tick \in 0 .. Modulus - 1
  BY <1>1 DEF Base, Shape
<1>3. Ahead[u] = Signed(expiry[u] - tick)
  BY <1>1 DEF Ahead
<1>4. Ahead[u] \in Low(k) .. Half - 1
  BY DEF Base, Order, Ordered
<1>5. Ahead[u] \in -MaxLate .. Half - 1 /\ Ahead[u] \in Int
  BY <1>4, LowIs, HalfIs
<1>6. Due(expiry[u]) <=> Signed(expiry[u] - tick) <= 0
  BY <1>2, <1>3, <1>5, DueIs
<1> QED BY <1>1, <1>2, <1>3, <1>4, <1>5, <1>6

(* The first timer of a list is the first to expire.                        *)
LEMMA HeadIs ==
  ASSUME Base, NEW k \in Kinds, list[k] # <<>>
  PROVE  /\ Head(list[k]) \in ToSet(list[k])
         /\ \A u \in ToSet(list[k]) : Ahead[Head(list[k])] <= Ahead[u]
<1>1. Ordered(list[k], Ahead, Low(k))
  BY DEF Base, Order
<1>2. /\ Head(list[k]) \in ToSet(list[k])
      /\ \A u \in ToSet(list[k]) : Ahead[Head(list[k])] <= Ahead[u] \/ u = Head(list[k])
  BY <1>1, OrderedTail
<1>3. Ahead[Head(list[k])] \in Int
  BY <1>2, AheadIs
<1> QED BY <1>2, <1>3

(* Initially.                                                               *)
LEMMA InitInv ==
  ASSUME TimerInit
  PROVE  Inv
<1>1. Shape
  <2>1. 0 \in 0 .. Modulus - 1 /\ <<>> \in Seq(Timer)
    BY HalfIs
  <2>2. /\ list \in [Kinds -> Seq(Timer)] /\ temp \in [Kinds -> SUBSET Timer]
        /\ cur \in [Kinds -> Timer \cup {None}]
    <3>1. ASSUME NEW S, NEW x \in S PROVE [hard |-> x, soft |-> x] \in [Kinds -> S]
      BY DEF Kinds
    <3>2. \A S : \A x \in S : [hard |-> x, soft |-> x] \in [Kinds -> S]
      BY <3>1
    <3>3. {} \in SUBSET Timer /\ None \in Timer \cup {None}
      OBVIOUS
    <3> QED BY <2>1, <3>2, <3>3, Zenon DEF TimerInit
  <2>3. /\ pc \in [Kinds -> {"off", "soft", "release", "check", "call", "take", "wait"}]
        /\ pc.hard = "off" /\ pc.soft = "check" /\ sem = 0
    BY DEF TimerInit, Kinds
  <2>4. expiry \in [Timer -> 0 .. Modulus - 1]
    BY <2>1 DEF TimerInit
  <2> QED BY <2>2, <2>3, <2>4 DEF TimerInit, Shape
<1>2. \A k \in Kinds : list[k] = <<>> /\ temp[k] = {} /\ cur[k] = None /\ pc[k] # "call"
  BY DEF TimerInit, Kinds
<1>3. ToSet(<<>>) = {}
  BY DEF ToSet
<1>4. \A k \in Kinds : Order(k) /\ Flight(k)
  <2>1. \A S : <<>> \in Seq(S)
    OBVIOUS
  <2>2. IsInjective(<<>>)
    BY DEF IsInjective
  <2>3. \A g, lo : Ordered(<<>>, g, lo)
    BY <1>3, <2>1, <2>2 DEF Ordered
  <2> QED BY <1>2, <1>3, <2>1, <2>3 DEF Order, Flight
<1>5. Listed = {} /\ InFlight = {} /\ active = {}
  BY <1>2, <1>3 DEF Listed, InFlight, Kinds, TimerInit
<1>6. Actives
  BY <1>5 DEF Actives
<1>7. Alert
  BY DEF TimerInit, Alert
<1> QED BY <1>1, <1>4, <1>6, <1>7 DEF Inv, Base

(* A timer is taken out and marked inactive.                                *)
LEMMA UnlinkInv ==
  ASSUME Inv, NEW t \in Timer, Unlink(t), active' = active \ {t}, live' \in {live, live \ {t}},
         periodic' \in {periodic, periodic \ {t}}, init' \in [Timer -> Time],
         UNCHANGED <<tick, cur, pc, sem>>
  PROVE  Inv'
<1>1. Base /\ Shape /\ Actives /\ Alert
  BY DEF Inv, Base
<1>2. /\ \A k \in Kinds : Order(k)' /\ Flight(k)'
      /\ expiry' \in [Timer -> 0 .. Modulus - 1]
      /\ list' \in [Kinds -> Seq(Timer)] /\ temp' \in [Kinds -> SUBSET Timer]
      /\ \A k \in Kinds : ToSet(list'[k]) = ToSet(list[k]) \ {t}
      /\ Listed' = Listed \ {t} /\ InFlight' = InFlight \ {t}
      /\ \A u \in Timer : u # t => expiry'[u] = expiry[u] /\ Ahead'[u] = Ahead[u]
  BY <1>1, UnlinkKeeps
<1>3. Shape'
  BY <1>1, <1>2 DEF Shape
<1>4. Actives'
  BY <1>1, <1>2 DEF Actives
<1>5. Alert'
  <2>1. "soft" \in Kinds
    BY DEF Kinds
  <2>2. \A u \in ToSet(list'["soft"]) :
          /\ u \in ToSet(list["soft"])
          /\ expiry'[u] = expiry[u] /\ Ahead'[u] = Ahead[u]
    BY <1>1, <1>2, <2>1, Places
  <2> QED BY <1>1, <2>2 DEF Alert
<1> QED BY <1>2, <1>3, <1>4, <1>5 DEF Inv, Base

(* A step that leaves the lists, the checks and the clock alone.            *)
LEMMA FlagsInv ==
  ASSUME Inv, UNCHANGED <<tick, expiry, list, temp, cur, pc, sem>>, Shape', Actives'
  PROVE  Inv'
<1>1. \A k : Low(k)' = Low(k) /\ Of(k)' = Of(k)
  BY DEF Low, Of
<1>2. Ahead' = Ahead
  BY DEF Ahead
<1>3. ASSUME NEW k \in Kinds PROVE Order(k)' /\ Flight(k)'
  <2>1. Order(k) /\ Flight(k)
    BY DEF Inv, Base
  <2> QED BY <1>1, <1>2, <2>1 DEF Order, Flight, Ordered
<1>4. Alert'
  BY <1>2 DEF Inv, Alert
<1> QED BY <1>3, <1>4 DEF Inv, Base

(* rt_timer_start                                                           *)
LEMMA StartInv ==
  ASSUME Inv, NEW t \in Timer, Start(t)
  PROVE  Inv'
<1>1. Base /\ Shape /\ Actives /\ Alert
  BY DEF Inv, Base
<1>2. /\ t \in live /\ StartNow(t) /\ tick' = tick /\ live' = live /\ periodic' = periodic
      /\ init' = init /\ cur' = cur /\ pc' = pc /\ sem' = sem
  BY DEF Start
<1>3. /\ \A k \in Kinds : Order(k)'
      /\ expiry' \in [Timer -> 0 .. Modulus - 1]
      /\ list' \in [Kinds -> Seq(Timer)] /\ temp' \in [Kinds -> SUBSET Timer]
      /\ \A k \in Kinds : /\ ToSet(list'[k]) = ToSet(list[k]) \cup ({t} \cap Of(k))
                          /\ temp'[k] = temp[k] \ {t}
      /\ Listed' = Listed \cup {t} /\ InFlight' = InFlight \ {t}
      /\ \A u \in Timer : u # t => expiry'[u] = expiry[u] /\ Ahead'[u] = Ahead[u]
      /\ init[t] \in 1 .. Half - 1 /\ Ahead'[t] = init[t]
      /\ active' = active \cup {t}
  BY <1>1, <1>2, StartKeeps
<1>4. Shape'
  BY <1>1, <1>2, <1>3 DEF Shape
<1>5. Actives'
  BY <1>1, <1>2, <1>3 DEF Actives
<1>6. ASSUME NEW k \in Kinds PROVE Flight(k)'
  <2>1. Flight(k)
    BY <1>1 DEF Base
  <2> QED BY <1>2, <1>3, <2>1 DEF Flight, Of
<1>7. Alert'
  <2>1. "soft" \in Kinds
    BY DEF Kinds
  <2>2. Ahead'[t] > 0
    BY <1>3, HalfIs
  <2>3. \A u \in ToSet(list'["soft"]) : u # t =>
          /\ u \in ToSet(list["soft"])
          /\ expiry'[u] = expiry[u] /\ Ahead'[u] = Ahead[u]
    BY <1>1, <1>3, <2>1, Places
  <2>4. Ahead'[t] \in Int
    BY <1>3, HalfIs
  <2>5. \A u \in ToSet(list'["soft"]) : Ahead'[u] <= 0 =>
          u \in ToSet(list["soft"]) /\ Ahead[u] <= 0 /\ expiry'[u] = expiry[u]
    BY <2>2, <2>3, <2>4
  <2> QED BY <1>1, <1>2, <2>5 DEF Alert
<1> QED BY <1>3, <1>4, <1>5, <1>6, <1>7 DEF Inv, Base

(* rt_timer_stop, and the calls that leave the lists alone.                 *)
LEMMA CallInv ==
  ASSUME Inv, NEW t \in Timer,
         \/ Stop(t) \/ SwitchKind(t) \/ Detach(t)
         \/ \E n \in Time : SetTime(t, n)
         \/ \E n \in Time, yes \in BOOLEAN : Reinit(t, n, yes)
  PROVE  Inv'
<1>1. Base /\ Shape /\ Actives
  BY DEF Inv, Base
<1>2. init \in [Timer -> Time]
  BY <1>1 DEF Shape
<1>3. Listed \subseteq Timer /\ InFlight \subseteq Timer /\ InFlight \subseteq live
  BY <1>1, Places DEF Actives
<1>4. UNCHANGED <<list, temp>> => Listed' = Listed /\ InFlight' = InFlight
  BY DEF Listed, InFlight
<1>5. CASE Stop(t)
  BY <1>2, <1>5, UnlinkInv DEF Stop
<1>6. CASE Detach(t)
  <2>1. (CHOOSE n \in Time : TRUE) \in Time
    BY <1>2
  <2>2. init' \in [Timer -> Time]
    BY <1>2, <1>6, <2>1 DEF Detach
  <2> QED BY <1>6, <2>2, UnlinkInv DEF Detach
<1>7. CASE SwitchKind(t)
  <2>1. /\ UNCHANGED <<tick, live, active, init, expiry, list, temp, cur, pc, sem>>
        /\ periodic' = IF t \in periodic THEN periodic \ {t} ELSE periodic \cup {t}
    BY <1>7 DEF SwitchKind
  <2>2. t \in InFlight => SwitchInFlight = TRUE
    <3>1. t \in temp["hard"] => t \in Hard
      BY <1>1, Places DEF Kinds, Of
    <3>2. t \in temp["soft"] => t \in Soft
      BY <1>1, Places DEF Kinds, Of
    <3> QED BY <1>7, <3>1, <3>2, TimerAssumption DEF SwitchKind, InFlight, Kind
  <2>3. Shape'
    BY <1>1, <2>1 DEF Shape
  <2>4. SwitchInFlight = FALSE => (InFlight \cap periodic') = (InFlight \cap periodic)
    BY <2>1, <2>2
  <2>5. Actives'
    BY <1>1, <1>4, <2>1, <2>4 DEF Actives
  <2> QED BY <2>1, <2>3, <2>5, FlagsInv
<1>8. ASSUME NEW n \in Time, SetTime(t, n) PROVE Inv'
  <2>1. init' = [init EXCEPT ![t] = n] /\ init' \in [Timer -> Time]
    BY <1>2, <1>8 DEF SetTime
  <2>2. UNCHANGED <<tick, live, periodic, cur, pc, sem>> /\ active' = active \ {t}
    BY <1>8 DEF SetTime
  <2>3. CASE t \in active
    BY <1>8, <2>1, <2>2, <2>3, UnlinkInv DEF SetTime
  <2>4. CASE t \notin active
    <3>1. UNCHANGED <<list, temp, expiry>> /\ active' = active
      BY <1>8, <2>2, <2>4 DEF SetTime
    <3>2. Shape'
      BY <1>1, <2>1, <2>2, <3>1 DEF Shape
    <3>3. Actives'
      BY <1>1, <1>4, <2>2, <3>1 DEF Actives
    <3> QED BY <2>2, <3>1, <3>2, <3>3, FlagsInv
  <2> QED BY <2>3, <2>4
<1>9. ASSUME NEW n \in Time, NEW yes \in BOOLEAN, Reinit(t, n, yes) PROVE Inv'
  <2>1. /\ UNCHANGED <<tick, active, expiry, list, temp, cur, pc, sem>>
        /\ t \notin live /\ live' = live \cup {t}
        /\ periodic' \in {periodic \cup {t}, periodic \ {t}}
        /\ init' \in [Timer -> Time]
    BY <1>2, <1>9 DEF Reinit
  <2>2. Shape'
    BY <1>1, <2>1 DEF Shape
  <2>3. (InFlight \cap periodic') = (InFlight \cap periodic)
    BY <1>3, <2>1
  <2>4. Actives'
    BY <1>1, <1>4, <2>1, <2>3 DEF Actives
  <2> QED BY <2>1, <2>2, <2>4, FlagsInv
<1> QED BY <1>5, <1>6, <1>7, <1>8, <1>9

(* The first timer of a list is taken for its callback.                     *)
LEMMA FireInv ==
  ASSUME Inv, NEW k \in Kinds, Fire(k)
  PROVE  Inv'
<1> DEFINE h == Head(list[k])
<1>1. Base /\ Shape /\ Actives /\ Alert
  BY DEF Inv, Base
<1>2. /\ pc[k] = "check" /\ list[k] # <<>>
      /\ list' = [list EXCEPT ![k] = Tail(list[k])] /\ temp' = [temp EXCEPT ![k] = {h}]
      /\ cur' = [cur EXCEPT ![k] = h] /\ expiry' = [expiry EXCEPT ![h] = 0]
      /\ active' = IF h \in periodic THEN active ELSE active \ {h}
      /\ pc' = [pc EXCEPT ![k] = "call"]
      /\ UNCHANGED <<tick, live, periodic, init, sem>>
  BY DEF Fire
<1>3. /\ list \in [Kinds -> Seq(Timer)] /\ temp \in [Kinds -> SUBSET Timer]
      /\ cur \in [Kinds -> Timer \cup {None}] /\ expiry \in [Timer -> 0 .. Modulus - 1]
      /\ pc \in [Kinds -> {"off", "soft", "release", "check", "call", "take", "wait"}]
      /\ "hard" \in Kinds /\ "soft" \in Kinds
  BY <1>1 DEF Shape, Kinds
<1>4. h \in ToSet(list[k]) /\ h \in Of(k) /\ h \in Timer
  BY <1>1, <1>2, HeadIs, AheadIs
<1>5. Kinds = {"hard", "soft"} /\ \A j \in Kinds : j # k => h \notin Of(j)
  BY <1>1, <1>4, Places DEF Kinds
<1> HIDE DEF h
<1>6. /\ expiry' \in [Timer -> 0 .. Modulus - 1]
      /\ \A u \in Timer : u # h => expiry'[u] = expiry[u]
  BY <1>2, <1>3, <1>4, HalfIs
<1>7. \A u \in Timer : u # h => Ahead'[u] = Ahead[u]
  BY <1>2, <1>6 DEF Ahead
<1>8. /\ pc' \in [Kinds -> {"off", "soft", "release", "check", "call", "take", "wait"}]
      /\ pc'[k] = "call" /\ \A j \in Kinds : j # k => pc'[j] = pc[j]
      /\ cur'[k] = h /\ \A j \in Kinds : j # k => cur'[j] = cur[j]
      /\ temp'[k] = {h} /\ \A j \in Kinds : j # k => temp'[j] = temp[j]
      /\ list'[k] = Tail(list[k]) /\ \A j \in Kinds : j # k => list'[j] = list[j]
  BY <1>2, <1>3
<1>9. \A j \in Kinds : Low(j)' = Low(j)
  BY <1>2, <1>3, <1>8 DEF Low
<1>10. /\ Order(k)' /\ ToSet(list'[k]) = ToSet(list[k]) \ {h} /\ list'[k] \in Seq(Timer)
  <2>1. Ordered(list[k], Ahead, Low(k)) /\ list[k] \in Seq(Of(k)) /\ list[k] # <<>>
    BY <1>1, <1>2 DEF Base, Order
  <2>2. \A u \in ToSet(list[k]) \ {Head(list[k])} : Ahead'[u] = Ahead[u]
    BY <1>1, <1>7, AheadIs DEF h
  <2>3. Ordered(Tail(list[k]), Ahead', Low(k)) /\ ToSet(Tail(list[k])) = ToSet(list[k]) \ {h}
    BY <2>1, <2>2, OrderedTail DEF h
  <2>4. Tail(list[k]) \in Seq(Of(k)) /\ Tail(list[k]) \in Seq(Timer)
    BY <2>1, <2>3 DEF Ordered
  <2>5. Ordered(list'[k], Ahead', Low(k)')
    BY <1>8, <1>9, <2>3
  <2> QED BY <1>8, <2>3, <2>4, <2>5 DEF Order, Ordered, Of
<1>11. ASSUME NEW j \in Kinds, j # k PROVE Order(j)'
  <2>1. Order(j) /\ list'[j] = list[j] /\ Low(j)' = Low(j)
    BY <1>1, <1>8, <1>9, <1>11 DEF Base
  <2>2. \A u \in ToSet(list[j]) : Ahead'[u] = Ahead[u]
    BY <1>1, <1>5, <1>7, <1>11, AheadIs
  <2> QED BY <2>1, <2>2, OrderSame
<1>12. Flight(k)'
  <2>1. temp'[k] \cap ToSet(list'[k]) = {}
    BY <1>8, <1>10
  <2> QED BY <1>4, <1>8, <2>1 DEF Flight, Of
<1>13. ASSUME NEW j \in Kinds, j # k PROVE Flight(j)'
  <2>1. Flight(j) /\ temp'[j] = temp[j] /\ cur'[j] = cur[j] /\ pc'[j] = pc[j] /\ list'[j] = list[j]
    BY <1>1, <1>8, <1>13 DEF Base
  <2> QED BY <2>1 DEF Flight, Of
<1>14. Shape'
  <2>1. /\ list' \in [Kinds -> Seq(Timer)] /\ temp' \in [Kinds -> SUBSET Timer]
        /\ cur' \in [Kinds -> Timer \cup {None}] /\ active' \subseteq Timer
    BY <1>1, <1>2, <1>3, <1>4, <1>8, <1>10 DEF Shape
  <2>2. /\ pc'.hard \in {"off", "soft", "release", "check", "call"}
        /\ pc'.soft \in {"check", "call", "take", "wait"}
    BY <1>1, <1>3, <1>8 DEF Shape
  <2> QED BY <1>1, <1>2, <1>6, <1>8, <2>1, <2>2 DEF Shape
<1>15. Listed' = Listed \ {h} /\ InFlight' = InFlight \cup {h} /\ h \in Listed
  <2>1. temp[k] = {}
    BY <1>1, <1>2, TimerAssumption DEF Base, Flight, Of, Timer
  <2>2. \A j \in Kinds : h \in ToSet(list[j]) => j = k
    BY <1>1, <1>5, AheadIs
  <2> QED BY <1>4, <1>5, <1>8, <1>10, <2>1, <2>2 DEF Listed, InFlight
<1>16. Actives'
  <2>1. h \in active /\ h \in live /\ Listed \cap InFlight = {}
    BY <1>1, <1>15, Places DEF Actives
  <2> QED BY <1>1, <1>2, <1>15, <2>1 DEF Actives
<1>17. Alert'
  <2>1. ToSet(list'["soft"]) \subseteq ToSet(list["soft"]) /\ h \notin ToSet(list'["soft"])
    BY <1>3, <1>5, <1>8, <1>10, <1>1, AheadIs
  <2>2. \A u \in ToSet(list'["soft"]) : expiry'[u] = expiry[u] /\ Ahead'[u] = Ahead[u]
    BY <1>1, <1>3, <1>6, <1>7, <2>1, AheadIs
  <2>3. pc'.soft \in {"take", "wait"} => pc.soft = pc'.soft
    BY <1>3, <1>8
  <2>4. pc'.hard # pc.hard => pc.hard = "check"
    BY <1>2, <1>3, <1>8
  <2> QED BY <1>1, <1>2, <2>1, <2>2, <2>3, <2>4 DEF Alert
<1> QED BY <1>10, <1>11, <1>12, <1>13, <1>14, <1>16, <1>17 DEF Inv, Base

(* The callback of a check has returned.                                    *)
LEMMA ReturnInv ==
  ASSUME Inv, NEW k \in Kinds, Return(k)
  PROVE  Inv'
<1> DEFINE c == cur[k]
<1>1. Base /\ Shape /\ Actives /\ Alert
  BY DEF Inv, Base
<1>2. /\ pc[k] = "call" /\ pc' = [pc EXCEPT ![k] = "check"] /\ cur' = [cur EXCEPT ![k] = None]
      /\ UNCHANGED <<tick, live, periodic, init, sem>>
  BY DEF Return
<1>3. /\ list \in [Kinds -> Seq(Timer)] /\ temp \in [Kinds -> SUBSET Timer]
      /\ cur \in [Kinds -> Timer \cup {None}] /\ expiry \in [Timer -> 0 .. Modulus - 1]
      /\ pc \in [Kinds -> {"off", "soft", "release", "check", "call", "take", "wait"}]
      /\ "hard" \in Kinds /\ "soft" \in Kinds /\ Kinds = {"hard", "soft"}
  BY <1>1 DEF Shape, Kinds
<1>4. c \in Of(k) /\ c \in Timer /\ temp[k] \subseteq {c} /\ \A j \in Kinds : j # k => c \notin Of(j)
  BY <1>1, <1>2, Places DEF Base, Flight, Kinds
<1>5. /\ pc' \in [Kinds -> {"off", "soft", "release", "check", "call", "take", "wait"}]
      /\ pc'[k] = "check" /\ \A j \in Kinds : j # k => pc'[j] = pc[j]
      /\ cur'[k] = None /\ \A j \in Kinds : j # k => cur'[j] = cur[j]
      /\ cur' \in [Kinds -> Timer \cup {None}]
  BY <1>2, <1>3
<1>6. /\ pc'.hard \in {"off", "soft", "release", "check", "call"}
      /\ pc'.soft \in {"check", "call", "take", "wait"}
      /\ pc'.hard = "off" <=> pc.hard = "off"
      /\ pc'.soft \in {"take", "wait"} => pc.soft = pc'.soft /\ k = "hard"
      /\ pc'.hard # pc.hard => pc.hard = "call"
  BY <1>1, <1>2, <1>3, <1>5 DEF Shape
<1>7. CASE c \in temp[k] \cap periodic \cap active
  <2>1. StartNow(c) /\ c \in active /\ c \in periodic /\ c \in live /\ c \in InFlight
    BY <1>1, <1>3, <1>7 DEF Return, Actives, InFlight
  <2> HIDE DEF c
  <2>2. /\ \A j \in Kinds : Order(j)'
        /\ expiry' \in [Timer -> 0 .. Modulus - 1]
        /\ list' \in [Kinds -> Seq(Timer)] /\ temp' \in [Kinds -> SUBSET Timer]
        /\ \A j \in Kinds : /\ ToSet(list'[j]) = ToSet(list[j]) \cup ({c} \cap Of(j))
                            /\ temp'[j] = temp[j] \ {c}
        /\ Listed' = Listed \cup {c} /\ InFlight' = InFlight \ {c}
        /\ \A u \in Timer : u # c => expiry'[u] = expiry[u] /\ Ahead'[u] = Ahead[u]
        /\ active' = active \cup {c}
    BY <1>1, <1>2, <1>4, <1>6, <2>1, StartKeeps
  <2>3. Flight(k)'
    <3>1. temp'[k] = {}
      BY <1>4, <2>2
    <3> QED BY <1>5, <3>1 DEF Flight, Of
  <2>4. ASSUME NEW j \in Kinds, j # k PROVE Flight(j)'
    <3>1. Flight(j) /\ cur'[j] = cur[j] /\ pc'[j] = pc[j]
      BY <1>1, <1>5, <2>4 DEF Base
    <3>2. c \notin Of(j)
      BY <1>4, <2>4
    <3>3. /\ ToSet(list'[j]) = ToSet(list[j]) \cup ({c} \cap Of(j))
          /\ temp'[j] = temp[j] \ {c}
      BY <2>2
    <3>4. temp'[j] \subseteq temp[j] /\ ToSet(list'[j]) = ToSet(list[j])
      BY <3>2, <3>3
    <3> QED BY <3>1, <3>4 DEF Flight, Of
  <2>5. Shape'
    <3>1. active' \subseteq Timer
      BY <1>1, <1>4, <2>2 DEF Shape
    <3> QED BY <1>1, <1>2, <1>5, <1>6, <2>2, <3>1 DEF Shape
  <2>6. Actives'
    BY <1>1, <1>2, <2>1, <2>2 DEF Actives
  <2>7. Alert'
    <3>1. ASSUME k = "hard", NEW u \in ToSet(list'["soft"])
          PROVE  u \in ToSet(list["soft"]) /\ expiry'[u] = expiry[u] /\ Ahead'[u] = Ahead[u]
      <4>0. "soft" \in Kinds /\ "soft" # k
        BY <1>3, <3>1
      <4>1. ToSet(list'["soft"]) = ToSet(list["soft"]) /\ c \notin Of("soft")
        <5>1. c \notin Of("soft")
          BY <1>4, <4>0
        <5>2. ToSet(list'["soft"]) = ToSet(list["soft"]) \cup ({c} \cap Of("soft"))
          BY <2>2, <4>0
        <5> QED BY <5>1, <5>2
      <4>2. u \in ToSet(list["soft"]) /\ u \in Of("soft") /\ u \in Timer
        BY <1>1, <1>3, <3>1, <4>1, AheadIs
      <4> QED BY <2>2, <4>1, <4>2
    <3> QED BY <1>1, <1>2, <1>6, <3>1 DEF Alert
  <2> QED BY <2>2, <2>3, <2>4, <2>5, <2>6, <2>7 DEF Inv, Base
<1>8. CASE c \notin temp[k] \cap periodic \cap active
  <2>1. temp' = [temp EXCEPT ![k] = {}] /\ UNCHANGED <<active, expiry, list>>
    BY <1>8 DEF Return
  <2> HIDE DEF c
  <2>2. /\ temp' \in [Kinds -> SUBSET Timer] /\ temp'[k] = {}
        /\ \A j \in Kinds : j # k => temp'[j] = temp[j]
    BY <1>3, <2>1
  <2>3. \A j \in Kinds : Low(j)' = Low(j)
    BY <1>6 DEF Low
  <2>4. Ahead' = Ahead /\ Listed' = Listed
    BY <1>2, <2>1 DEF Ahead, Listed
  <2>5. ASSUME NEW j \in Kinds PROVE Order(j)'
    BY <1>1, <2>1, <2>3, <2>4, OrderSame DEF Base
  <2>6. Flight(k)'
    BY <1>5, <2>2 DEF Flight, Of
  <2>7. ASSUME NEW j \in Kinds, j # k PROVE Flight(j)'
    <3>1. Flight(j) /\ cur'[j] = cur[j] /\ pc'[j] = pc[j] /\ temp'[j] = temp[j] /\ list'[j] = list[j]
      BY <1>1, <1>5, <2>1, <2>2, <2>7 DEF Base
    <3> QED BY <3>1 DEF Flight, Of
  <2>8. Shape'
    BY <1>1, <1>2, <1>5, <1>6, <2>1, <2>2 DEF Shape
  <2>9. InFlight' \subseteq InFlight /\ \A u \in InFlight : u \notin InFlight' => u = c /\ u \in temp[k]
    BY <1>3, <1>4, <2>2 DEF InFlight
  <2>10. SwitchInFlight = FALSE => active = Listed \cup (InFlight' \cap periodic)
    BY <1>1, <1>8, <2>9 DEF Actives
  <2>11. Actives'
    BY <1>1, <1>2, <2>1, <2>4, <2>9, <2>10 DEF Actives
  <2>12. Alert'
    BY <1>1, <1>2, <1>6, <2>1, <2>4 DEF Alert
  <2> QED BY <2>5, <2>6, <2>7, <2>8, <2>11, <2>12 DEF Inv, Base
<1> QED BY <1>7, <1>8

(* A step of the checks that leaves the timers and the clock alone.         *)
LEMMA QuietInv ==
  ASSUME Inv, UNCHANGED <<tick, timers, cur>>, Shape', Alert',
         \A k \in Kinds : pc'[k] = "call" <=> pc[k] = "call",
         \A t \in ToSet(list["hard"]) : Ahead[t] >= Low("hard")'
  PROVE  Inv'
<1>1. /\ UNCHANGED <<tick, cur, live, active, periodic, init, expiry, list, temp>>
      /\ Base /\ Shape /\ Actives
  BY DEF timers, Inv, Base
<1>2. Ahead' = Ahead /\ Listed' = Listed /\ InFlight' = InFlight
  BY <1>1 DEF Ahead, Listed, InFlight
<1>3. Actives'
  BY <1>1, <1>2 DEF Actives
<1>4. ASSUME NEW k \in Kinds PROVE Flight(k)'
  <2>1. Flight(k) /\ (pc'[k] = "call" <=> pc[k] = "call")
    BY <1>1 DEF Base
  <2> QED BY <1>1, <2>1 DEF Flight, Of
<1>5. ASSUME NEW k \in Kinds PROVE Order(k)'
  <2>1. list[k] \in Seq(Of(k)) /\ Ordered(list[k], Ahead, Low(k))
    BY <1>1 DEF Base, Order
  <2>2. \A t \in ToSet(list[k]) : Ahead[t] \in Low(k)' .. Half - 1
    <3>1. \A t \in ToSet(list[k]) : Ahead[t] \in Low(k) .. Half - 1 /\ Ahead[t] \in Int
      BY <1>1, AheadIs
    <3>2. Low(k)' \in Int /\ (k # "hard" => Low(k)' = Low(k))
      BY HalfIs DEF Low, Kinds
    <3>3. CASE k = "hard"
      BY <3>1, <3>2, <3>3, HalfIs
    <3> QED BY <3>1, <3>2, <3>3
  <2>3. Ordered(list[k], Ahead, Low(k)')
    BY <2>1, <2>2 DEF Ordered
  <2>4. Ordered(list'[k], Ahead', Low(k)')
    BY <1>1, <1>2, <2>3
  <2> QED BY <1>1, <2>1, <2>4 DEF Order, Of, Ordered
<1> QED BY <1>3, <1>4, <1>5 DEF Inv, Base

(* A check ends.                                                            *)
LEMMA DoneInv ==
  ASSUME Inv, NEW k \in Kinds, Done(k)
  PROVE  Inv'
<1>1. Base /\ Shape /\ Alert
  BY DEF Inv, Base
<1>2. /\ pc[k] = "check" /\ pc' = [pc EXCEPT ![k] = IF k = "hard" THEN "off" ELSE "take"]
      /\ UNCHANGED <<tick, timers, cur, sem>>
      /\ k = "soft" => pc.hard = "off"
      /\ list[k] # <<>> => ~ Due(expiry[Head(list[k])])
  BY DEF Done, Runs, Kinds
<1>3. /\ pc \in [Kinds -> {"off", "soft", "release", "check", "call", "take", "wait"}]
      /\ Kinds = {"hard", "soft"} /\ "hard" \in Kinds /\ "soft" \in Kinds
  BY <1>1 DEF Shape, Kinds
<1>4. ASSUME NEW t \in ToSet(list[k]) PROVE Ahead[t] > 0
  <2>1. list[k] # <<>>
    BY DEF ToSet
  <2> DEFINE h == Head(list[k])
  <2>2. h \in ToSet(list[k]) /\ Ahead[h] <= Ahead[t]
    BY <1>1, <2>1, HeadIs
  <2>3. ~ Due(expiry[h])
    BY <1>2, <2>1
  <2> HIDE DEF h
  <2>4. ~ (Ahead[h] <= 0) /\ Ahead[h] \in Int /\ Ahead[t] \in Int
    BY <1>1, <2>2, <2>3, AheadIs
  <2> QED BY <2>2, <2>4
<1>5. /\ UNCHANGED <<tick, cur, live, active, periodic, init, expiry, list, temp, sem>>
      /\ Ahead' = Ahead
  BY <1>2 DEF timers, Ahead
<1>6. CASE k = "hard"
  <2>1. /\ pc' \in [Kinds -> {"off", "soft", "release", "check", "call", "take", "wait"}]
        /\ pc.hard = "check" /\ pc'.hard = "off" /\ pc'.soft = pc.soft
    BY <1>2, <1>3, <1>6
  <2>2. Shape'
    BY <1>1, <1>5, <2>1 DEF Shape
  <2>3. Alert'
    BY <1>1, <1>5, <2>1 DEF Alert
  <2>4. \A t \in ToSet(list["hard"]) : Ahead[t] >= 1
    BY <1>1, <1>4, <1>6, AheadIs
  <2>5. \A t \in ToSet(list["hard"]) : Ahead[t] >= Low("hard")'
    BY <2>1, <2>4 DEF Low
  <2>6. \A j \in Kinds : pc'[j] = "call" <=> pc[j] = "call"
    BY <1>3, <2>1
  <2> QED BY <1>2, <2>2, <2>3, <2>5, <2>6, QuietInv
<1>7. CASE k = "soft"
  <2>1. /\ pc' \in [Kinds -> {"off", "soft", "release", "check", "call", "take", "wait"}]
        /\ pc.hard = "off" /\ pc'.hard = "off" /\ pc.soft = "check" /\ pc'.soft = "take"
    BY <1>2, <1>3, <1>7
  <2>2. Shape'
    BY <1>1, <1>5, <2>1 DEF Shape
  <2>3. Alert'
    <3>1. \A t \in ToSet(list["soft"]) : ~ (Ahead[t] <= 0)
      BY <1>1, <1>3, <1>4, <1>7, AheadIs
    <3> QED BY <1>5, <2>1, <3>1 DEF Alert
  <2>4. \A t \in ToSet(list["hard"]) : Ahead[t] >= Low("hard")'
    <3>1. Low("hard")' = Low("hard")
      BY <2>1 DEF Low
    <3>2. \A t \in ToSet(list["hard"]) : Ahead[t] \in Low("hard") .. Half - 1 /\ Ahead[t] \in Int
      BY <1>1, <1>3, AheadIs
    <3> QED BY <3>1, <3>2, LowIs
  <2>5. \A j \in Kinds : pc'[j] = "call" <=> pc[j] = "call"
    BY <1>3, <2>1
  <2> QED BY <1>2, <2>2, <2>3, <2>4, <2>5, QuietInv
<1> QED BY <1>3, <1>6, <1>7

(* The timer thread takes the semaphore, and the interrupt looks whether to *)
(* release it and does.                                                     *)
LEMMA SemInv ==
  ASSUME Inv, Take \/ LookAtSoft \/ Release
  PROVE  Inv'
<1>1. Base /\ Shape /\ Alert
  BY DEF Inv, Base
<1>2. UNCHANGED <<tick, timers, cur>>
  BY DEF Take, LookAtSoft, Release
<1>3. /\ pc \in [Kinds -> {"off", "soft", "release", "check", "call", "take", "wait"}]
      /\ Kinds = {"hard", "soft"} /\ "hard" \in Kinds /\ "soft" \in Kinds
      /\ sem \in 0 .. 1 /\ pc.soft \in {"check", "call", "take", "wait"}
  BY <1>1 DEF Shape, Kinds
<1>4. /\ UNCHANGED <<tick, cur, live, active, periodic, init, expiry, list, temp>>
      /\ Ahead' = Ahead
  BY <1>2 DEF timers, Ahead
<1>5. CASE Take
  <2>1. /\ pc' \in [Kinds -> {"off", "soft", "release", "check", "call", "take", "wait"}]
        /\ pc.hard = "off" /\ pc'.hard = "off" /\ pc.soft = "take" /\ sem' = 0
        /\ sem > 0 => pc'.soft = "check"
        /\ ~ (sem > 0) => pc'.soft = "wait" /\ sem = 0
        /\ pc'.soft \in {"check", "wait"}
    BY <1>3, <1>5 DEF Take, Runs
  <2>2. /\ \A j \in Kinds : pc'[j] = "call" <=> pc[j] = "call"
        /\ pc'.hard = "off" <=> pc.hard = "off"
        /\ sem' \in 0 .. 1
    BY <1>3, <2>1
  <2>3. Alert'
    BY <1>1, <1>3, <1>4, <2>1 DEF Alert
  <2>4. Shape'
    BY <1>1, <1>4, <2>1, <2>2 DEF Shape
  <2>5. \A t \in ToSet(list["hard"]) : Ahead[t] >= Low("hard")'
    <3>1. Low("hard")' = Low("hard")
      BY <2>1 DEF Low
    <3>2. \A t \in ToSet(list["hard"]) : Ahead[t] \in Low("hard") .. Half - 1 /\ Ahead[t] \in Int
      BY <1>1, <1>3, AheadIs
    <3> QED BY <3>1, <3>2, LowIs
  <2> QED BY <1>2, <2>2, <2>3, <2>4, <2>5, QuietInv
<1>6. CASE LookAtSoft
  <2> DEFINE h == Head(list["soft"])
             wakes == list.soft # <<>> /\ expiry[h] <= tick
  <2>1. /\ pc' = [pc EXCEPT !["hard"] = IF wakes THEN "release" ELSE "check"]
        /\ pc.hard = "soft" /\ sem' = sem
    BY <1>6 DEF LookAtSoft
  <2> HIDE DEF wakes
  <2>2. /\ pc' \in [Kinds -> {"off", "soft", "release", "check", "call", "take", "wait"}]
        /\ pc'.soft = pc.soft /\ pc'.hard \in {"release", "check"}
        /\ pc'.hard = "check" => ~ wakes
    BY <1>3, <2>1
  <2>3. \A j \in Kinds : pc'[j] = "call" <=> pc[j] = "call"
    BY <1>3, <2>1, <2>2
  <2>4. Alert'
    <3>1. ASSUME pc.soft \in {"take", "wait"}, sem = 0, ~ wakes, NEW t \in ToSet(list.soft)
          PROVE  ~ (Ahead[t] <= 0)
      <4>1. SUFFICES ASSUME Ahead[t] <= 0 PROVE FALSE
        OBVIOUS
      <4>2. list.soft # <<>>
        BY DEF ToSet
      <4>3. h \in ToSet(list.soft) /\ Ahead[h] <= Ahead[t]
        BY <1>1, <1>3, <4>2, HeadIs
      <4> HIDE DEF h
      <4>4. Ahead[h] \in Int /\ Ahead[t] \in Int
        BY <1>1, <1>3, <4>3, AheadIs
      <4>5. Ahead[h] <= 0
        BY <4>1, <4>3, <4>4
      <4>6. expiry[h] = tick
        BY <1>1, <2>1, <3>1, <4>3, <4>5 DEF Alert
      <4>7. tick \in Int /\ tick <= tick
        BY <1>1, HalfIs DEF Shape
      <4> QED BY <3>1, <4>2, <4>6, <4>7 DEF wakes
    <3> QED BY <1>1, <1>4, <2>1, <2>2, <3>1 DEF Alert
  <2>5. Shape'
    BY <1>1, <1>4, <2>1, <2>2 DEF Shape
  <2>6. \A t \in ToSet(list["hard"]) : Ahead[t] >= Low("hard")'
    <3>1. Low("hard")' = Low("hard")
      BY <2>1, <2>2 DEF Low
    <3>2. \A t \in ToSet(list["hard"]) : Ahead[t] \in Low("hard") .. Half - 1 /\ Ahead[t] \in Int
      BY <1>1, <1>3, AheadIs
    <3> QED BY <3>1, <3>2, LowIs
  <2> QED BY <1>2, <2>3, <2>4, <2>5, <2>6, QuietInv
<1>7. CASE Release
  <2>1. /\ pc' = [hard |-> "check", soft |-> IF pc.soft = "wait" THEN "check" ELSE pc.soft]
        /\ pc.hard = "release" /\ sem' = IF pc.soft = "wait" THEN sem ELSE 1
    BY <1>7 DEF Release
  <2>2. /\ pc'.hard = "check" /\ pc'.soft \in {"check", "call", "take"} /\ sem' \in 0 .. 1
        /\ pc'.soft = "call" <=> pc.soft = "call"
        /\ pc'.soft = "take" => sem' = 1
    BY <1>3, <2>1
  <2>3. pc' \in [Kinds -> {"off", "soft", "release", "check", "call", "take", "wait"}]
    <3> DEFINE x == IF pc.soft = "wait" THEN "check" ELSE pc.soft
    <3>1. x \in {"off", "soft", "release", "check", "call", "take", "wait"}
      BY <1>3
    <3>2. pc' = [hard |-> "check", soft |-> x]
      BY <2>1
    <3> HIDE DEF x
    <3> QED BY <3>1, <3>2 DEF Kinds
  <2>4. \A j \in Kinds : pc'[j] = "call" <=> pc[j] = "call"
    BY <1>3, <2>1, <2>2
  <2>5. Alert'
    BY <1>4, <2>2 DEF Alert
  <2>6. Shape'
    BY <1>1, <1>4, <2>2, <2>3 DEF Shape
  <2>7. \A t \in ToSet(list["hard"]) : Ahead[t] >= Low("hard")'
    <3>1. Low("hard")' = Low("hard")
      BY <2>1, <2>2 DEF Low
    <3>2. \A t \in ToSet(list["hard"]) : Ahead[t] \in Low("hard") .. Half - 1 /\ Ahead[t] \in Int
      BY <1>1, <1>3, AheadIs
    <3> QED BY <3>1, <3>2, LowIs
  <2> QED BY <1>2, <2>4, <2>5, <2>6, <2>7, QuietInv
<1> QED BY <1>5, <1>6, <1>7

(* A timer that the timer thread is MaxLate ticks behind with is due in the *)
(* sense of the guard of Tick.                                              *)
LEMMA LateIs ==
  ASSUME tick \in 0 .. Modulus - 1, NEW e \in 0 .. Modulus - 1,
         Signed(e - tick) = -MaxLate
  PROVE  Due((e + MaxLate) % Modulus)
<1> DEFINE m == Modulus
           x == e + MaxLate
           y == tick - tick
<1>1. m \in Nat \ {0} /\ MaxLate \in Nat /\ Half \in Nat \ {0}
  BY HalfIs
<1>2. e - tick = -MaxLate \/ e - tick = -MaxLate + m \/ e - tick = -MaxLate - m
  BY SignedIs
<1>3. x \in Int /\ (x = tick \/ x = tick + m \/ x = tick - m) /\ x >= 0
  BY <1>1, <1>2
<1>4. tick \in 0 .. m - 1 /\ y \in Int /\ y = 0
  OBVIOUS
<1> HIDE DEF m, x, y
<1>5. x % m = tick
  <2>1. /\ x \in 0 .. m - 1 => x % m = x
        /\ x \in m .. 2 * m - 1 => x % m = x - m
    BY <1>1, <1>3, ModIs
  <2> QED BY <1>1, <1>3, <1>4, <2>1
<1>6. y % m = 0
  <2>1. y \in 0 .. m - 1 => y % m = y
    BY <1>1, <1>4, ModIs
  <2> QED BY <1>1, <1>4, <2>1
<1>7. 0 < Half
  BY <1>1
<1> QED BY <1>5, <1>6, <1>7 DEF Due, m, x, y

(* The clock keeps its type.                                                *)
LEMMA NextCount ==
  ASSUME tick \in 0 .. Modulus - 1
  PROVE  (tick + 1) % Modulus \in 0 .. Modulus - 1
<1> DEFINE x == tick + 1
           m == Modulus
<1>1. x \in Int /\ m \in Nat \ {0}
  BY HalfIs
<1> HIDE DEF x, m
<1>2. x % m \in 0 .. m - 1
  BY <1>1, ModIs
<1> QED BY <1>2 DEF x, m

(* What a tick does to the time left.                                       *)
LEMMA TickAhead ==
  ASSUME Inv, Tick, NEW k \in Kinds, NEW t \in ToSet(list[k])
  PROVE  /\ Ahead'[t] = Ahead[t] - 1 /\ Ahead'[t] \in Low(k)' .. Half - 1
         /\ Ahead[t] = 1 => expiry[t] = tick'
         /\ Ahead[t] \in Int /\ Ahead[t] \in Low(k) .. Half - 1
<1>1. Base /\ Shape /\ Actives /\ Alert
  BY DEF Inv, Base
<1>2. /\ pc.hard = "off" /\ tick' = (tick + 1) % Modulus /\ pc' = [pc EXCEPT !["hard"] = "soft"]
      /\ UNCHANGED <<cur, live, active, periodic, init, expiry, list, temp, sem>>
      /\ \A u \in ToSet(list["soft"]) : ~ Due((expiry[u] + MaxLate) % Modulus)
  BY DEF Tick, timers
<1>3. /\ pc \in [Kinds -> {"off", "soft", "release", "check", "call", "take", "wait"}]
      /\ Kinds = {"hard", "soft"} /\ "hard" \in Kinds /\ "soft" \in Kinds
      /\ tick \in 0 .. Modulus - 1
  BY <1>1 DEF Shape, Kinds
<1>4. /\ pc' \in [Kinds -> {"off", "soft", "release", "check", "call", "take", "wait"}]
      /\ pc'.hard = "soft" /\ pc'.soft = pc.soft
      /\ \A j \in Kinds : pc'[j] = "call" <=> pc[j] = "call"
  BY <1>2, <1>3
<1>5. \A j \in Kinds : Low(j) = IF j = "soft" THEN -MaxLate ELSE 1
  BY <1>2 DEF Low
<1>6. \A j \in Kinds : Low(j)' = IF j = "soft" THEN -MaxLate ELSE 0
  BY <1>4 DEF Low
<1>7. /\ t \in Timer /\ expiry[t] \in 0 .. Modulus - 1 /\ Ahead[t] = Signed(expiry[t] - tick)
      /\ Ahead[t] \in Low(k) .. Half - 1 /\ Ahead[t] \in Int
  BY <1>1, AheadIs
<1>8. Ahead[t] \in 1 - MaxLate .. Half - 1
  <2>1. CASE k = "hard"
    BY <1>5, <1>7, <2>1, HalfIs
  <2>2. CASE k = "soft"
    <3>1. Ahead[t] # -MaxLate
      BY <1>2, <1>3, <1>7, <2>2, LateIs
    <3>2. Ahead[t] \in -MaxLate .. Half - 1
      BY <1>5, <1>7, <2>2
    <3> QED BY <3>1, <3>2, HalfIs
  <2> QED BY <1>3, <2>1, <2>2
<1>9. /\ Signed(expiry[t] - ((tick + 1) % Modulus)) = Signed(expiry[t] - tick) - 1
      /\ Signed(expiry[t] - tick) = 1 => expiry[t] = (tick + 1) % Modulus
  BY <1>3, <1>7, <1>8, TickLeft
<1>10. Ahead'[t] = Signed(expiry[t] - tick')
  BY <1>2, <1>7 DEF Ahead
<1>11. Ahead'[t] = Ahead[t] - 1 /\ (Ahead[t] = 1 => expiry[t] = tick')
  <2> DEFINE b == (tick + 1) % Modulus
  <2>1. tick' = b
    BY <1>2
  <2>2. /\ Signed(expiry[t] - b) = Signed(expiry[t] - tick) - 1
        /\ Signed(expiry[t] - tick) = 1 => expiry[t] = b
    BY <1>9
  <2> HIDE DEF b
  <2> QED BY <1>7, <1>10, <2>1, <2>2
<1>12. Ahead[t] - 1 \in Low(k)' .. Half - 1
  <2>1. CASE k = "hard"
    <3>1. Ahead[t] \in 1 .. Half - 1 /\ Low(k)' = 0
      BY <1>5, <1>6, <1>7, <2>1
    <3> QED BY <3>1, HalfIs
  <2>2. CASE k = "soft"
    <3>1. Low(k)' = -MaxLate
      BY <1>6, <2>2
    <3> QED BY <1>8, <3>1, HalfIs
  <2> QED BY <1>3, <2>1, <2>2
<1> QED BY <1>7, <1>11, <1>12

(* The tick.                                                                *)
LEMMA TickInv ==
  ASSUME Inv, Tick
  PROVE  Inv'
<1>1. Base /\ Shape /\ Actives /\ Alert
  BY DEF Inv, Base
<1>2. /\ pc.hard = "off" /\ tick' = (tick + 1) % Modulus /\ pc' = [pc EXCEPT !["hard"] = "soft"]
      /\ UNCHANGED <<cur, live, active, periodic, init, expiry, list, temp, sem>>
      /\ \A t \in ToSet(list["soft"]) : ~ Due((expiry[t] + MaxLate) % Modulus)
  BY DEF Tick, timers
<1>3. /\ pc \in [Kinds -> {"off", "soft", "release", "check", "call", "take", "wait"}]
      /\ Kinds = {"hard", "soft"} /\ "hard" \in Kinds /\ "soft" \in Kinds
      /\ tick \in 0 .. Modulus - 1
  BY <1>1 DEF Shape, Kinds
<1>4. /\ pc' \in [Kinds -> {"off", "soft", "release", "check", "call", "take", "wait"}]
      /\ pc'.hard = "soft" /\ pc'.soft = pc.soft
      /\ \A j \in Kinds : pc'[j] = "call" <=> pc[j] = "call"
  BY <1>2, <1>3
<1>5. ASSUME NEW k \in Kinds, NEW t \in ToSet(list[k])
      PROVE  /\ Ahead'[t] = Ahead[t] - 1 /\ Ahead'[t] \in Low(k)' .. Half - 1
             /\ Ahead[t] = 1 => expiry[t] = tick'
             /\ Ahead[t] \in Int
  BY TickAhead
<1>6. ASSUME NEW k \in Kinds PROVE Order(k)'
  <2>1. list[k] \in Seq(Of(k)) /\ Ordered(list[k], Ahead, Low(k)) /\ list'[k] = list[k]
    BY <1>1, <1>2 DEF Base, Order
  <2>2. ASSUME NEW i \in DOMAIN list[k], NEW j \in DOMAIN list[k], i < j
        PROVE  Ahead'[list[k][i]] <= Ahead'[list[k][j]]
    <3> DEFINE a == list[k][i]
               b == list[k][j]
    <3>1. a \in ToSet(list[k]) /\ b \in ToSet(list[k])
      BY DEF ToSet
    <3>2. Ahead[a] <= Ahead[b]
      BY <2>1, <2>2 DEF Ordered
    <3> HIDE DEF a, b
    <3>3. /\ Ahead'[a] = Ahead[a] - 1 /\ Ahead'[b] = Ahead[b] - 1
          /\ Ahead[a] \in Int /\ Ahead[b] \in Int
      BY <1>5, <3>1
    <3>4. Ahead'[a] <= Ahead'[b]
      BY <3>2, <3>3
    <3> QED BY <3>4 DEF a, b
  <2>3. Ordered(list[k], Ahead', Low(k)')
    BY <1>5, <2>1, <2>2 DEF Ordered
  <2> QED BY <2>1, <2>3 DEF Order, Of, Ordered
<1>7. ASSUME NEW k \in Kinds PROVE Flight(k)'
  <2>1. Flight(k) /\ (pc'[k] = "call" <=> pc[k] = "call")
    BY <1>1, <1>4 DEF Base
  <2> QED BY <1>2, <2>1 DEF Flight, Of
<1>8. Shape'
  <2>1. tick' \in 0 .. Modulus - 1
    BY <1>2, <1>3, NextCount
  <2> QED BY <1>1, <1>2, <1>4, <2>1 DEF Shape
<1>9. Actives'
  BY <1>1, <1>2 DEF Actives, Listed, InFlight
<1>10. Alert'
  <2>1. ASSUME pc.soft \in {"take", "wait"}, sem = 0, NEW t \in ToSet(list["soft"]), Ahead'[t] <= 0
        PROVE  expiry[t] = tick'
    <3>1. ~ (Ahead[t] <= 0)
      BY <1>1, <1>2, <2>1 DEF Alert
    <3>2. /\ Ahead'[t] = Ahead[t] - 1 /\ Ahead[t] \in Int
          /\ Ahead[t] = 1 => expiry[t] = tick'
      BY <1>3, <1>5
    <3>3. Ahead[t] = 1
      BY <2>1, <3>1, <3>2
    <3> QED BY <3>2, <3>3
  <2> QED BY <1>1, <1>2, <1>4, <2>1 DEF Alert
<1> QED BY <1>6, <1>7, <1>8, <1>9, <1>10 DEF Inv, Base

(* No step breaks the invariant.                                            *)
LEMMA NextInv ==
  ASSUME Inv, [TimerNext]_timerVars
  PROVE  Inv'
<1>1. CASE TimerNext
  <2>1. ASSUME NEW t \in Timer,
               \/ Start(t) \/ Stop(t) \/ SwitchKind(t) \/ Detach(t)
               \/ \E n \in Time : SetTime(t, n)
               \/ \E n \in Time, yes \in BOOLEAN : Reinit(t, n, yes)
        PROVE  Inv'
    BY <2>1, StartInv, CallInv
  <2>2. ASSUME NEW k \in {"hard", "soft"}, Fire(k) \/ Return(k) \/ Done(k)
        PROVE  Inv'
    BY <2>2, FireInv, ReturnInv, DoneInv DEF Kinds
  <2>3. Take \/ LookAtSoft \/ Release => Inv'
    BY SemInv
  <2>4. Tick => Inv'
    BY TickInv
  <2> QED BY <1>1, <2>1, <2>2, <2>3, <2>4 DEF TimerNext
<1>2. CASE UNCHANGED timerVars
  <2>1. /\ UNCHANGED <<tick, expiry, list, temp, cur, pc, sem, live, active, periodic, init>>
        /\ Shape /\ Actives
    BY <1>2 DEF timerVars, timers, Inv, Base
  <2>2. Shape' /\ Actives'
    BY <2>1 DEF Shape, Actives, Listed, InFlight
  <2> QED BY <2>1, <2>2, FlagsInv
<1> QED BY <1>1, <1>2

(* The invariant holds throughout.                                          *)
LEMMA InvHolds == TimerSpec => []Inv
<1>1. TimerInit => Inv
  BY InitInv
<1>2. Inv /\ [TimerNext]_timerVars => Inv'
  BY NextInv
<1> QED BY <1>1, <1>2, PTL DEF TimerSpec

(* TimerTypeOK: ticks and expiries stay within the counter, each list holds *)
(* timers of its kind, the checks are where their code can be, and the      *)
(* semaphore of the timer thread never exceeds its limit of 1.              *)
THEOREM TimerTyped == TimerSpec => []TimerTypeOK
<1>1. Inv => TimerTypeOK
  <2> SUFFICES ASSUME Inv PROVE TimerTypeOK
    OBVIOUS
  <2>1. /\ Shape /\ "hard" \in Kinds /\ "soft" \in Kinds /\ Of("hard") = Hard /\ Of("soft") = Soft
        /\ \A k \in Kinds : Order(k) /\ Flight(k)
    BY DEF Inv, Base, Kinds, Of
  <2>2. list["hard"] \in Seq(Hard) /\ list["soft"] \in Seq(Soft)
    BY <2>1 DEF Order
  <2>3. /\ temp["hard"] \subseteq Hard /\ temp["soft"] \subseteq Soft
        /\ cur["hard"] \in Hard \cup {None} /\ cur["soft"] \in Soft \cup {None}
    BY <2>1 DEF Flight
  <2> QED BY <2>1, <2>2, <2>3 DEF TimerTypeOK, Shape
<1> QED BY <1>1, InvHolds, PTL

(* ListsOK: unless a timer changes its kind while its callback runs, a      *)
(* timer is marked active exactly when it is in the list of its kind, once, *)
(* or is a periodic one whose callback runs.                                *)
THEOREM TimersListed ==
  ASSUME SwitchInFlight = FALSE
  PROVE  TimerSpec => []ListsOK
<1>1. Inv => ListsOK
  <2> SUFFICES ASSUME Inv PROVE ListsOK
    OBVIOUS
  <2>1. IsInjective(list["hard"]) /\ IsInjective(list["soft"])
    BY DEF Inv, Base, Kinds, Order, Ordered
  <2>2. Listed \cap InFlight = {}
    BY Places DEF Inv
  <2> QED BY <2>1, <2>2 DEF Inv, Actives, ListsOK
<1> QED BY <1>1, InvHolds, PTL

(* SoftServed: the timer thread never waits, outside the tick interrupt,    *)
(* while a soft timer is due.                                               *)
THEOREM SoftNeverLate == TimerSpec => []SoftServed
<1>1. Inv => SoftServed
  <2> SUFFICES ASSUME Inv, pc.hard = "off", pc.soft = "wait", NEW t \in ToSet(list["soft"]),
                      Due(expiry[t])
               PROVE  FALSE
    BY DEF SoftServed
  <2>1. Ahead[t] <= 0
    BY AheadIs DEF Inv, Kinds
  <2> QED BY <2>1 DEF Inv, Alert
<1> QED BY <1>1, InvHolds, PTL

-----------------------------------------------------------------------------
(* The refinement of Alarms. *)

Left == [t \in Listed |-> Signed(expiry[t] - tick)]
Ringing == {cur.hard, cur.soft} \ {None}

(* What Alarms sees.                                                        *)
LEMMA LeftIs ==
  ASSUME Base
  PROVE  Left = [t \in Listed |-> Ahead[t]] /\ DOMAIN Left = Listed
BY Places DEF Left, Ahead

(* A timer that leaves the lists is an alarm that is cancelled.             *)
LEMMA CancelStep ==
  ASSUME Base, NEW t, Listed' = Listed \ {t},
         \A u \in Listed : u # t => Ahead'[u] = Ahead[u]
  PROVE  Abstract!Cancel(t)
<1>1. Left = [u \in Listed |-> Ahead[u]] /\ DOMAIN Left = Listed
  BY LeftIs
<1>2. Left' = [u \in Listed' |-> Ahead'[u]]
  <2>1. Listed' \subseteq Timer
    BY Places
  <2> QED BY <2>1 DEF Left, Ahead
<1>3. Left' = [u \in DOMAIN Left \ {t} |-> Left[u]]
  BY <1>1, <1>2
<1> QED BY <1>3 DEF Abstract!Cancel, Left

(* A timer that enters a list is an alarm that is set.                      *)
LEMMA SetStep ==
  ASSUME Base, NEW t \in Timer, Listed' = Listed \cup {t}, Ahead'[t] \in Time,
         \A u \in Listed : u # t => Ahead'[u] = Ahead[u]
  PROVE  Abstract!Set(t)
<1>1. Left = [u \in Listed |-> Ahead[u]] /\ DOMAIN Left = Listed
  BY LeftIs
<1>2. Left' = [u \in Listed' |-> Ahead'[u]]
  <2>1. Listed' \subseteq Timer
    BY Places
  <2> QED BY <2>1 DEF Left, Ahead
<1>3. Left' = [u \in DOMAIN Left \cup {t} |-> IF u = t THEN Ahead'[t] ELSE Left[u]]
  BY <1>1, <1>2
<1>4. \E n \in Time : Left' = [u \in DOMAIN Left \cup {t} |-> IF u = t THEN n ELSE Left[u]]
  BY <1>3
<1> QED BY <1>4 DEF Abstract!Set, Left

(* A step that moves no timer and keeps the clock.                          *)
LEMMA StillStep ==
  ASSUME UNCHANGED <<tick, expiry, cur>>, Listed' = Listed
  PROVE  UNCHANGED Abstract!vars
BY DEF Abstract!vars

(* The calls are alarms set or cancelled.                                   *)
LEMMA CallsImplement ==
  ASSUME Inv, NEW t \in Timer,
         \/ Start(t) \/ Stop(t) \/ SwitchKind(t) \/ Detach(t)
         \/ \E n \in Time : SetTime(t, n)
         \/ \E n \in Time, yes \in BOOLEAN : Reinit(t, n, yes)
  PROVE  [Abstract!Next]_(Abstract!vars)
<1>1. Base /\ Listed \subseteq Timer /\ Listed \subseteq active
  BY Places DEF Inv, Actives
<1>2. cur' = cur /\ tick' = tick /\ pc' = pc
  BY DEF Start, Stop, SwitchKind, Detach, SetTime, Reinit
<1>3. ({cur.hard, cur.soft} \ {None})' = {cur.hard, cur.soft} \ {None}
  BY <1>2
<1>4. ASSUME Unlink(t) PROVE Abstract!Next
  <2>1. /\ Listed' = Listed \ {t}
        /\ \A u \in Timer : u # t => Ahead'[u] = Ahead[u]
    BY <1>1, <1>2, <1>4, UnlinkKeeps
  <2>2. Abstract!Cancel(t)
    BY <1>1, <2>1, CancelStep
  <2> QED BY <1>3, <2>2 DEF Abstract!Next
<1>5. CASE Start(t)
  <2>1. StartNow(t) /\ (pc'.hard = "off" <=> pc.hard = "off")
    BY <1>2, <1>5 DEF Start
  <2>2. /\ Listed' = Listed \cup {t} /\ init[t] \in Time /\ Ahead'[t] = init[t]
        /\ \A u \in Timer : u # t => Ahead'[u] = Ahead[u]
    BY <1>1, <1>2, <2>1, StartKeeps
  <2>3. Abstract!Set(t)
    BY <1>1, <2>2, SetStep
  <2> QED BY <1>3, <2>3 DEF Abstract!Next
<1>6. CASE Stop(t) \/ Detach(t)
  BY <1>4, <1>6 DEF Stop, Detach
<1>7. CASE SwitchKind(t) \/ \E n \in Time, yes \in BOOLEAN : Reinit(t, n, yes)
  <2>1. UNCHANGED <<tick, expiry, cur, list>>
    BY <1>7 DEF SwitchKind, Reinit
  <2>2. Listed' = Listed
    BY <2>1 DEF Listed
  <2> QED BY <2>1, <2>2, StillStep
<1>8. ASSUME NEW n \in Time, SetTime(t, n) PROVE [Abstract!Next]_(Abstract!vars)
  <2>1. CASE t \in active
    BY <1>4, <1>8, <2>1 DEF SetTime
  <2>2. CASE t \notin active
    <3>1. UNCHANGED <<tick, expiry, cur, list>>
      BY <1>8, <2>2 DEF SetTime
    <3>2. Listed' = Listed
      BY <3>1 DEF Listed
    <3> QED BY <3>1, <3>2, StillStep
  <2> QED BY <2>1, <2>2
<1> QED BY <1>5, <1>6, <1>7, <1>8

(* Who rings: the timers whose callbacks run.                               *)
LEMMA RingingIs ==
  ASSUME Base, NEW k \in Kinds, NEW t \in Of(k)
  PROVE  /\ t \in Ringing <=> cur[k] = t
         /\ Abstract!Peers(t) = Of(k)
         /\ pc[k] # "call" => Ringing \cap Of(k) = {}
<1>1. /\ cur["hard"] \in Hard \cup {None} /\ cur["soft"] \in Soft \cup {None}
      /\ Hard \cap Soft = {} /\ None \notin Timer
      /\ \A j \in Kinds : pc[j] # "call" => cur[j] = None
  BY TimerAssumption DEF Base, Flight, Kinds, Of
<1>2. CASE k = "hard"
  <2>1. t \in Hard /\ Of(k) = Hard
    BY <1>2 DEF Of
  <2>2. Abstract!Peers(t) = Hard
    BY <2>1 DEF Abstract!Peers
  <2>3. t \in Ringing <=> cur["hard"] = t
    BY <1>1, <2>1 DEF Ringing, Timer
  <2>4. cur["hard"] = None => Ringing \cap Hard = {}
    BY <1>1 DEF Ringing, Timer
  <2> QED BY <1>1, <1>2, <2>1, <2>2, <2>3, <2>4
<1>3. CASE k = "soft"
  <2>1. t \in Soft /\ Of(k) = Soft /\ t \notin Hard
    BY <1>1, <1>3 DEF Of
  <2>2. Abstract!Peers(t) = Soft
    BY <1>1, <2>1 DEF Abstract!Peers, Timer
  <2>3. t \in Ringing <=> cur["soft"] = t
    BY <1>1, <2>1 DEF Ringing, Timer
  <2>4. cur["soft"] = None => Ringing \cap Soft = {}
    BY <1>1 DEF Ringing, Timer
  <2> QED BY <1>1, <1>3, <2>1, <2>2, <2>3, <2>4
<1> QED BY <1>2, <1>3 DEF Kinds

(* The first due timer of a list is the next alarm to go off.               *)
LEMMA FireImplements ==
  ASSUME Inv, NEW k \in Kinds, Fire(k)
  PROVE  Abstract!Next
<1> DEFINE h == Head(list[k])
<1>1. /\ Base /\ pc[k] = "check" /\ list[k] # <<>> /\ Due(expiry[h]) /\ tick' = tick
      /\ cur' = [cur EXCEPT ![k] = h] /\ expiry' = [expiry EXCEPT ![h] = 0]
      /\ list' = [list EXCEPT ![k] = Tail(list[k])]
  BY DEF Fire, Inv
<1>2. /\ h \in ToSet(list[k]) /\ \A u \in ToSet(list[k]) : Ahead[h] <= Ahead[u]
      /\ Ordered(list[k], Ahead, Low(k))
  BY <1>1, HeadIs DEF Base, Order
<1>3. ToSet(Tail(list[k])) = ToSet(list[k]) \ {h}
  BY <1>1, <1>2, OrderedTail
<1> HIDE DEF h
<1>4. h \in Of(k) /\ h \in Timer /\ Ahead[h] <= 0
  BY <1>1, <1>2, AheadIs
<1>5. /\ cur \in [Kinds -> Timer \cup {None}] /\ list \in [Kinds -> Seq(Timer)]
      /\ expiry \in [Timer -> 0 .. Modulus - 1]
      /\ Kinds = {"hard", "soft"} /\ h # None
  BY <1>1, <1>4, TimerAssumption DEF Base, Shape, Kinds
<1>6. /\ Listed = ToSet(list["hard"]) \cup ToSet(list["soft"]) /\ h \in Listed
      /\ \A j \in Kinds : ToSet(list[j]) \subseteq Of(j) /\ Of(j) \subseteq Timer
      /\ \A j \in Kinds : j # k => h \notin Of(j) /\ Of(j) \cap Of(k) = {}
  <2>1. /\ Listed = ToSet(list["hard"]) \cup ToSet(list["soft"]) /\ Hard \cap Soft = {}
        /\ \A j \in Kinds : ToSet(list[j]) \subseteq Of(j) /\ Of(j) \subseteq Timer
    BY <1>1, Places
  <2>2. h \in Listed
    BY <1>2, <1>5, <2>1
  <2>3. \A j \in Kinds : j # k => Of(j) \cap Of(k) = {}
    BY <2>1 DEF Of, Kinds
  <2> QED BY <1>4, <2>1, <2>2, <2>3
<1>7. /\ Listed' = Listed \ {h}
      /\ \A u \in Listed : u # h => Ahead'[u] = Ahead[u]
  <2>1. list'[k] = Tail(list[k]) /\ \A j \in Kinds : j # k => list'[j] = list[j]
    BY <1>1, <1>5
  <2>2. \A j \in Kinds : j # k => h \notin ToSet(list[j])
    BY <1>6
  <2>3. Listed' = Listed \ {h}
    BY <1>3, <1>5, <1>6, <2>1, <2>2 DEF Listed
  <2>4. \A u \in Timer : u # h => expiry'[u] = expiry[u]
    BY <1>1, <1>5
  <2>5. \A u \in Timer : u # h => Ahead'[u] = Ahead[u]
    BY <1>1, <2>4 DEF Ahead
  <2>6. Listed \subseteq Timer
    BY <1>5, <1>6
  <2> QED BY <2>3, <2>5, <2>6
<1>8. Abstract!Cancel(h)
  BY <1>1, <1>7, CancelStep
<1>9. Ringing' = Ringing \cup {h}
  <2>1. cur[k] = None
    BY <1>1 DEF Base, Flight
  <2>2. cur'[k] = h /\ \A j \in Kinds : j # k => cur'[j] = cur[j]
    BY <1>1, <1>5
  <2> QED BY <1>5, <2>1, <2>2 DEF Ringing
<1>10. Abstract!Peers(h) = Of(k) /\ Ringing \cap Of(k) = {}
  BY <1>1, <1>4, RingingIs
<1>11. /\ h \in DOMAIN Left /\ Left[h] <= 0
       /\ \A b \in DOMAIN Left \cap Of(k) : Left[h] <= Left[b]
  <2>1. Left = [u \in Listed |-> Ahead[u]] /\ DOMAIN Left = Listed
    BY <1>1, LeftIs
  <2>2. \A b \in Listed \cap Of(k) : b \in ToSet(list[k])
    BY <1>5, <1>6
  <2> QED BY <1>2, <1>4, <1>6, <2>1, <2>2
<1>12. Abstract!GoOff(h)
  BY <1>8, <1>9, <1>10, <1>11 DEF Abstract!GoOff, Left, Ringing
<1> QED BY <1>4, <1>12 DEF Abstract!Next

(* A callback that returns is an alarm that stops, and is perhaps set again. *)
LEMMA ReturnImplements ==
  ASSUME Inv, NEW k \in Kinds, Return(k)
  PROVE  Abstract!Next
<1> DEFINE c == cur[k]
<1>1. /\ Base /\ pc[k] = "call" /\ pc' = [pc EXCEPT ![k] = "check"]
      /\ cur' = [cur EXCEPT ![k] = None] /\ tick' = tick
  BY DEF Return, Inv
<1>2. /\ cur \in [Kinds -> Timer \cup {None}] /\ c \in Of(k) /\ c \in Timer /\ c # None
      /\ pc \in [Kinds -> {"off", "soft", "release", "check", "call", "take", "wait"}]
      /\ Kinds = {"hard", "soft"}
  BY <1>1, Places DEF Base, Shape, Flight, Kinds
<1>3. c \in Ringing /\ \A j \in Kinds : j # k => cur[j] # c
  <2>1. c \in Ringing
    BY <1>1, <1>2, RingingIs
  <2>2. ASSUME NEW j \in Kinds, j # k, cur[j] = c PROVE FALSE
    <3>1. c \in Of(j)
      BY <1>1, <1>2, <2>2, TimerAssumption DEF Base, Flight, Timer
    <3> QED BY <1>1, <1>2, <2>2, <3>1, Places
  <2> QED BY <2>1, <2>2
<1>4. pc'.hard = "off" <=> pc.hard = "off"
  BY <1>1, <1>2
<1> HIDE DEF c
<1>5. Ringing' = Ringing \ {c}
  <2>1. cur'[k] = None /\ \A j \in Kinds : j # k => cur'[j] = cur[j]
    BY <1>1, <1>2
  <2>2. cur[k] = c
    BY DEF c
  <2> QED BY <1>2, <1>3, <2>1, <2>2 DEF Ringing
<1>6. Abstract!Set(c) \/ Left' = Left
  <2>1. CASE c \in temp[k] \cap periodic \cap active
    <3>1. StartNow(c)
      BY <2>1 DEF Return, c
    <3>2. /\ Listed' = Listed \cup {c} /\ init[c] \in Time /\ Ahead'[c] = init[c]
          /\ \A u \in Timer : u # c => Ahead'[u] = Ahead[u]
      BY <1>1, <1>2, <1>4, <3>1, StartKeeps
    <3>3. Listed \subseteq Timer
      BY <1>1, Places
    <3> QED BY <1>1, <1>2, <3>2, <3>3, SetStep
  <2>2. CASE c \notin temp[k] \cap periodic \cap active
    <3>1. UNCHANGED <<expiry, list, tick>>
      BY <1>1, <2>2 DEF Return, c
    <3> QED BY <3>1 DEF Left, Listed
  <2> QED BY <2>1, <2>2
<1>7. Abstract!Stop(c)
  BY <1>3, <1>5, <1>6 DEF Abstract!Stop, Left, Ringing
<1> QED BY <1>2, <1>7 DEF Abstract!Next

(* The clock moves on only while no hard timer is due or rings.             *)
LEMMA TickImplements ==
  ASSUME Inv, Tick
  PROVE  Abstract!Next
<1>1. Base /\ pc.hard = "off" /\ cur' = cur /\ list' = list
  BY DEF Tick, Inv, timers
<1>2. Left = [u \in Listed |-> Ahead[u]] /\ DOMAIN Left = Listed
  BY <1>1, LeftIs
<1>3. Listed' = Listed /\ Ringing' = Ringing
  BY <1>1 DEF Listed, Ringing
<1>4. /\ Listed = ToSet(list["hard"]) \cup ToSet(list["soft"]) /\ Listed \subseteq Timer
      /\ ToSet(list["soft"]) \subseteq Soft /\ Hard \cap Soft = {}
  BY <1>1, Places DEF Kinds, Of
<1>5. \A a \in Listed : Ahead'[a] = Ahead[a] - 1
  BY <1>4, TickAhead DEF Kinds
<1>6. \A a \in Listed \cap Hard : Ahead[a] > 0
  <2>1. ASSUME NEW a \in ToSet(list["hard"]) PROVE Ahead[a] > 0
    <3>1. Ahead[a] \in Low("hard") .. Half - 1 /\ Low("hard") = 1
      BY <1>1, AheadIs DEF Kinds, Low
    <3> QED BY <3>1, HalfIs
  <2> QED BY <1>4, <2>1
<1>7. Ringing \cap Hard = {}
  <2>1. cur["hard"] = None /\ cur["soft"] \in Soft \cup {None}
    BY <1>1 DEF Base, Flight, Kinds, Of
  <2> QED BY <1>4, <2>1, TimerAssumption DEF Ringing, Timer
<1>8. Left' = [a \in DOMAIN Left |-> Left[a] - 1]
  <2>1. Left' = [a \in Listed |-> Ahead'[a]]
    BY <1>3, <1>4 DEF Left, Ahead
  <2> QED BY <1>2, <1>5, <2>1
<1>9. /\ \A a \in DOMAIN Left \cap Hard : Left[a] > 0
      /\ UNCHANGED Ringing
  BY <1>2, <1>3, <1>6
<1>10. Abstract!Tick
  BY <1>7, <1>8, <1>9 DEF Abstract!Tick, Left, Ringing
<1> QED BY <1>10 DEF Abstract!Next

(* Implements: whatever calls come during callbacks and whenever the tick   *)
(* count wraps around, each timer goes off when its time has come and not   *)
(* before, those of one kind in the order of their expiries and one after   *)
(* the other, and hard timers before the next tick.                         *)
THEOREM TimerImplementsAlarms == TimerSpec => Implements
<1>1. TimerInit => Abstract!Init
  <2> SUFFICES ASSUME TimerInit PROVE Abstract!Init
    OBVIOUS
  <2>1. Listed = {} /\ cur.hard = None /\ cur.soft = None
    BY DEF TimerInit, Listed, ToSet
  <2>2. Left = <<>> /\ Ringing = {}
    BY <2>1 DEF Left, Ringing
  <2> QED BY <2>2 DEF Abstract!Init, Left, Ringing
<1>2. Inv /\ [TimerNext]_timerVars => [Abstract!Next]_(Abstract!vars)
  <2> SUFFICES ASSUME Inv, [TimerNext]_timerVars PROVE [Abstract!Next]_(Abstract!vars)
    OBVIOUS
  <2>1. ASSUME NEW t \in Timer,
               \/ Start(t) \/ Stop(t) \/ SwitchKind(t) \/ Detach(t)
               \/ \E n \in Time : SetTime(t, n)
               \/ \E n \in Time, yes \in BOOLEAN : Reinit(t, n, yes)
        PROVE  [Abstract!Next]_(Abstract!vars)
    BY <2>1, CallsImplement
  <2>2. ASSUME NEW k \in {"hard", "soft"}, Fire(k) \/ Return(k)
        PROVE  Abstract!Next
    BY <2>2, FireImplements, ReturnImplements DEF Kinds
  <2>3. ASSUME \/ \E k \in {"hard", "soft"} : Done(k)
               \/ Take \/ LookAtSoft \/ Release \/ UNCHANGED timerVars
        PROVE  UNCHANGED Abstract!vars
    <3>1. UNCHANGED <<tick, expiry, cur, list>>
      BY <2>3 DEF Done, Take, LookAtSoft, Release, timerVars, timers
    <3>2. Listed' = Listed
      BY <3>1 DEF Listed
    <3> QED BY <3>1, <3>2, StillStep
  <2>4. Tick => Abstract!Next
    BY TickImplements
  <2> QED BY <2>1, <2>2, <2>3, <2>4 DEF TimerNext
<1> QED BY <1>1, <1>2, InvHolds, PTL DEF TimerSpec, Implements, Abstract!Spec
=============================================================================
