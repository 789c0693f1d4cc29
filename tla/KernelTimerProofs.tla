-------------------------- MODULE KernelTimerProofs --------------------------
(***************************************************************************)
(* Theorems about KernelTimer for every set of timers, delays and number of  *)
(* ticks: the list stays sorted by the time that is left though ticks wrap,  *)
(* and the timers are the countdowns of Countdowns.  The argument: a timeout  *)
(* that waits is, modulo the ticks, as far from now as ticks are left, and    *)
(* never so far that half of the ticks lie between two of them.  First the    *)
(* arithmetic of ticks, then lists, then what each operation leaves of the   *)
(* list, then the invariant and each step.                                   *)
(***************************************************************************)
EXTENDS KernelTimer, WellFoundedInduction, SequenceTheorems, TLAPS

Half == TickMax \div 2
Ticks == 0..TickMax

LEMMA Numbers ==
  /\ TickMax \in Nat /\ MaxPreempt \in Nat /\ Half \in Nat /\ 2 * Half <= TickMax
  /\ Delays \subseteq Nat /\ \A d \in Delays : d + MaxPreempt < Half
  /\ MaxPreempt + 1 < Half /\ Modulus \in Nat /\ Modulus = TickMax + 1
  BY TickAssumption DEF Half, Modulus

\* A number that is less than one turn of the ticks off.
LEMMA Wrapped ==
  ASSUME NEW x \in Int, -Modulus <= x, x < 2 * Modulus
  PROVE  x % Modulus = IF x < 0 THEN x + Modulus ELSE IF x < Modulus THEN x ELSE x - Modulus
  <1>0. Modulus \in Nat /\ Modulus > 0
    BY Numbers
  <1> HIDE DEF Modulus
  <1>1. QED
    BY <1>0
----------------------------------------------------------------------------
LEMMA Smallest ==
  ASSUME NEW S \in SUBSET Nat, S # {}
  PROVE  \E x \in S : \A y \in S : x <= y
  <1>1. PICK x \in S : \A y \in S : <<y, x>> \notin OpToRel(<, Nat)
    BY NatLessThanWellFounded, WFMin
  <1>2. ASSUME NEW y \in S PROVE x <= y
    <2>1. y < x => <<y, x>> \in OpToRel(<, Nat)
      BY Zenon DEF OpToRel
    <2>2. ~(y < x)
      BY <1>1, <2>1
    <2>3. QED
      BY <2>2
  <1>3. QED
    BY <1>2
----------------------------------------------------------------------------
\* Sequences of timers, each in them once.
Lists == { s \in Seq(Timers) : IsInjective(s) }

\* f does not decrease along s.
SortedBy(s, f) == \A i, j \in 1..Len(s) : i < j => f[s[i]] <= f[s[j]]

\* What is used of a sequence of timers and of the set of its members.
LEMMA SeqFacts ==
  ASSUME NEW s \in Seq(Timers)
  PROVE  /\ Len(s) \in Nat /\ DOMAIN s = 1..Len(s)
         /\ \A i \in 1..Len(s) : s[i] \in Timers
         /\ ToSet(s) = { s[i] : i \in 1..Len(s) } /\ ToSet(s) \subseteq Timers
         /\ \A u : u \in ToSet(s) <=> \E i \in 1..Len(s) : u = s[i]
         /\ s = <<>> <=> ToSet(s) = {}
         /\ s # <<>> => Head(s) = s[1] /\ Head(s) \in ToSet(s)
         /\ IsInjective(s) <=> \A i, j \in 1..Len(s) : s[i] = s[j] => i = j
  <1>1. Len(s) \in Nat /\ DOMAIN s = 1..Len(s) /\ \A i \in 1..Len(s) : s[i] \in Timers
    OBVIOUS
  <1>2. ToSet(s) = { s[i] : i \in 1..Len(s) } /\ ToSet(s) \subseteq Timers
    BY <1>1 DEF ToSet
  <1>3. s = <<>> <=> ToSet(s) = {}
    <2>1. s = <<>> <=> Len(s) = 0
      BY EmptySeq
    <2>2. Len(s) # 0 => 1 \in 1..Len(s)
      BY <1>1
    <2>3. QED
      BY <1>1, <1>2, <2>1, <2>2
  <1>4. s # <<>> => Head(s) = s[1] /\ Head(s) \in ToSet(s)
    <2>1. s # <<>> => 1 \in 1..Len(s)
      BY <1>1, EmptySeq
    <2>2. QED
      BY <1>2, <2>1
  <1>5. IsInjective(s) <=> \A i, j \in 1..Len(s) : s[i] = s[j] => i = j
    BY <1>1 DEF IsInjective
  <1>6. QED
    BY <1>1, <1>2, <1>3, <1>4, <1>5

\* The elements of e are those of s at increasing places.
LEMMA Thinned ==
  ASSUME NEW s \in Lists, NEW e \in Seq(Timers), NEW m,
         \A i \in 1..Len(e) : m[i] \in 1..Len(s) /\ e[i] = s[m[i]],
         \A i, j \in 1..Len(e) : i < j => m[i] < m[j]
  PROVE  /\ e \in Lists
         /\ \A f \in [Timers -> Int] : SortedBy(s, f) => SortedBy(e, f)
  <1> s \in Seq(Timers)
    BY DEF Lists
  <1>1. \A i, j \in 1..Len(s) : s[i] = s[j] => i = j
    BY SeqFacts DEF Lists
  <1>2. Len(e) \in Nat
    OBVIOUS
  <1>3. ASSUME NEW i \in 1..Len(e), NEW j \in 1..Len(e), e[i] = e[j] PROVE i = j
    <2>1. m[i] = m[j]
      BY <1>1, <1>3
    <2>2. ~(i < j) /\ ~(j < i)
      BY <2>1, SeqFacts
    <2>3. QED
      BY <1>2, <2>2
  <1>4. ASSUME NEW f \in [Timers -> Int], SortedBy(s, f),
               NEW i \in 1..Len(e), NEW j \in 1..Len(e), i < j
        PROVE  f[e[i]] <= f[e[j]]
    <2>1. m[i] \in 1..Len(s) /\ m[j] \in 1..Len(s) /\ m[i] < m[j]
      BY <1>4
    <2>2. f[s[m[i]]] <= f[s[m[j]]]
      BY <1>4, <2>1 DEF SortedBy
    <2>3. QED
      BY <2>2
  <1>5. e \in Lists
    BY <1>3, SeqFacts DEF Lists
  <1>6. QED
    BY <1>4, <1>5 DEF SortedBy

\* Taking a timer out keeps the order of the others.
LEMMA Withdrawn ==
  ASSUME NEW s \in Lists, NEW t
  PROVE  /\ Unlinked(s, t) \in Lists
         /\ ToSet(Unlinked(s, t)) = ToSet(s) \ {t}
         /\ \A f \in [Timers -> Int] : SortedBy(s, f) => SortedBy(Unlinked(s, t), f)
  <1> DEFINE at == CHOOSE i \in DOMAIN s : s[i] = t
             e == Unlinked(s, t)
  <1> s \in Seq(Timers)
    BY DEF Lists
  <1>1. CASE t \notin ToSet(s)
    BY <1>1 DEF Unlinked
  <1>2. CASE t \in ToSet(s)
    <2>1. at \in DOMAIN s /\ s[at] = t
      BY <1>2 DEF ToSet
    <2>2. e = SubSeq(s, 1, at - 1) \o SubSeq(s, at + 1, Len(s))
      BY <1>2 DEF Unlinked, RemoveAt
    <2> HIDE DEF at, e
    <2>3. at \in 1..Len(s) /\ s[at] = t /\ Len(s) \in Nat
      BY <2>1, SeqFacts
    <2>4. /\ e \in Seq(Timers) /\ Len(e) = Len(s) - 1
          /\ \A i \in 1..Len(e) : e[i] = s[IF i < at THEN i ELSE i + 1]
      <3> DEFINE l == SubSeq(s, 1, at - 1)
                 r == SubSeq(s, at + 1, Len(s))
      <3>1. l \in Seq(Timers) /\ Len(l) = at - 1 /\ \A i \in 1..(at - 1) : l[i] = s[i]
        BY <2>3
      <3>2. /\ r \in Seq(Timers) /\ Len(r) = Len(s) - at
            /\ \A i \in 1..(Len(s) - at) : r[i] = s[at + i]
        BY <2>3
      <3>3. e = l \o r
        BY <2>2
      <3> HIDE DEF l, r
      <3>4. /\ e \in Seq(Timers) /\ Len(e) = Len(l) + Len(r)
            /\ \A i \in 1..Len(e) : e[i] = IF i <= Len(l) THEN l[i] ELSE r[i - Len(l)]
        BY <3>1, <3>2, <3>3, ConcatProperties
      <3>5. ASSUME NEW i \in 1..Len(e) PROVE e[i] = s[IF i < at THEN i ELSE i + 1]
        <4>1. CASE i < at
          BY <4>1, <2>3, <3>1, <3>2, <3>4
        <4>2. CASE i >= at
          <5>1. i - Len(l) \in 1..(Len(s) - at) /\ at + (i - Len(l)) = i + 1
            BY <4>2, <2>3, <3>1, <3>2, <3>4
          <5>2. ~(i <= Len(l))
            BY <4>2, <2>3, <3>1
          <5>3. e[i] = r[i - Len(l)]
            BY <5>2, <3>4
          <5>4. r[i - Len(l)] = s[at + (i - Len(l))]
            BY <5>1, <3>2
          <5>5. ~(i < at)
            BY <4>2, <2>3
          <5>6. QED
            BY <5>1, <5>3, <5>4, <5>5
        <4>3. QED
          BY <2>3, <4>1, <4>2
      <3>6. QED
        BY <2>3, <3>1, <3>2, <3>4, <3>5
    <2> DEFINE m == [i \in 1..Len(e) |-> IF i < at THEN i ELSE i + 1]
    <2>5. /\ \A i \in 1..Len(e) : m[i] \in 1..Len(s) /\ e[i] = s[m[i]]
          /\ \A i, j \in 1..Len(e) : i < j => m[i] < m[j]
      BY <2>3, <2>4
    <2>6. e \in Lists /\ \A f \in [Timers -> Int] : SortedBy(s, f) => SortedBy(e, f)
      BY <2>4, <2>5, Thinned
    <2>7. ToSet(e) = ToSet(s) \ {t}
      <3>1. ASSUME NEW u \in ToSet(e) PROVE u \in ToSet(s) \ {t}
        <4>1. PICK i \in 1..Len(e) : u = e[i]
          BY <2>4, SeqFacts
        <4>2. m[i] # at /\ m[i] \in 1..Len(s) /\ u = s[m[i]]
          BY <2>3, <2>4, <2>5, <4>1
        <4>3. QED
          BY <2>3, <4>2, SeqFacts DEF Lists
      <3>2. ASSUME NEW u \in ToSet(s) \ {t} PROVE u \in ToSet(e)
        <4>1. PICK i \in 1..Len(s) : u = s[i]
          BY SeqFacts
        <4>2. i # at
          BY <2>3, <4>1
        <4>3. \E j \in 1..Len(e) : e[j] = s[i]
          <5>1. CASE i < at
            BY <5>1, <2>3, <2>4
          <5>2. CASE i > at
            <6>1. i - 1 \in 1..Len(e) /\ e[i - 1] = s[i]
              BY <5>2, <2>3, <2>4
            <6>2. QED
              BY <6>1
          <5>3. QED
            BY <4>2, <5>1, <5>2, <2>3
        <4>4. QED
          BY <4>1, <4>3, <2>4, SeqFacts
      <3>3. QED
        BY <3>1, <3>2
    <2>8. QED
      BY <2>6, <2>7 DEF e
  <1>3. QED
    BY <1>1, <1>2

\* A list grows by a timer that is put in at a place.
LEMMA PutIn ==
  ASSUME NEW s \in Lists, NEW t \in Timers, t \notin ToSet(s), NEW at \in 1..(Len(s) + 1)
  PROVE  /\ InsertAt(s, at, t) \in Lists /\ ToSet(InsertAt(s, at, t)) = ToSet(s) \union {t}
         /\ Len(InsertAt(s, at, t)) = Len(s) + 1
         /\ \A i \in 1..(Len(s) + 1) : InsertAt(s, at, t)[i] =
              IF i < at THEN s[i] ELSE IF i = at THEN t ELSE s[i - 1]
  <1> DEFINE e == InsertAt(s, at, t)
             l == SubSeq(s, 1, at - 1)
             r == SubSeq(s, at, Len(s))
             x == <<t>>
             y == l \o x
  <1> s \in Seq(Timers)
    BY DEF Lists
  <1>1. l \in Seq(Timers) /\ Len(l) = at - 1 /\ \A i \in 1..(at - 1) : l[i] = s[i]
    OBVIOUS
  <1>2. /\ r \in Seq(Timers) /\ Len(r) = Len(s) + 1 - at
        /\ \A i \in 1..(Len(s) + 1 - at) : r[i] = s[at + i - 1]
    OBVIOUS
  <1>3. x \in Seq(Timers) /\ Len(x) = 1 /\ x[1] = t
    OBVIOUS
  <1>4. e = y \o r
    BY DEF InsertAt
  <1>5. Len(s) \in Nat /\ at \in Nat
    OBVIOUS
  <1> HIDE DEF e, l, r, x
  <1>6. y \in Seq(Timers) /\ Len(y) = at /\ \A i \in 1..at : y[i] = IF i < at THEN s[i] ELSE t
    <2>1. /\ y \in Seq(Timers) /\ Len(y) = Len(l) + Len(x)
          /\ \A i \in 1..(Len(l) + Len(x)) : y[i] = IF i <= Len(l) THEN l[i] ELSE x[i - Len(l)]
      BY <1>1, <1>3, ConcatProperties
    <2>2. QED
      BY <2>1, <1>1, <1>3, <1>5
  <1> HIDE DEF y
  <1>7. /\ e \in Seq(Timers) /\ Len(e) = Len(s) + 1
        /\ \A i \in 1..(Len(s) + 1) : e[i] = IF i <= at THEN y[i] ELSE r[i - at]
    <2>1. /\ e \in Seq(Timers) /\ Len(e) = Len(y) + Len(r)
          /\ \A i \in 1..(Len(y) + Len(r)) : e[i] = IF i <= Len(y) THEN y[i] ELSE r[i - Len(y)]
      BY <1>2, <1>4, <1>6, ConcatProperties
    <2>2. QED
      BY <2>1, <1>2, <1>5, <1>6
  <1>8. ASSUME NEW i \in 1..(Len(s) + 1)
        PROVE  e[i] = IF i < at THEN s[i] ELSE IF i = at THEN t ELSE s[i - 1]
    <2>1. CASE i <= at
      BY <2>1, <1>5, <1>6, <1>7
    <2>2. CASE i > at
      <3>1. i - at \in 1..(Len(s) + 1 - at) /\ at + (i - at) - 1 = i - 1
        BY <2>2, <1>5
      <3>2. QED
        BY <2>2, <3>1, <1>2, <1>5, <1>7
    <2>3. QED
      BY <2>1, <2>2, <1>5
  <1>9. \A i \in 1..Len(s) : s[i] # t
    BY SeqFacts
  <1>10. e \in Lists
    <2>1. \A i, j \in 1..Len(s) : s[i] = s[j] => i = j
      BY SeqFacts DEF Lists
    <2>2. ASSUME NEW i \in 1..(Len(s) + 1), NEW j \in 1..(Len(s) + 1), e[i] = e[j] PROVE i = j
      <3> DEFINE o(n) == IF n < at THEN n ELSE n - 1
      <3>1. \A n \in 1..(Len(s) + 1) : n # at => o(n) \in 1..Len(s) /\ e[n] = s[o(n)]
        BY <1>5, <1>8
      <3>2. e[at] = t
        BY <1>5, <1>8
      <3>3. CASE i = at \/ j = at
        BY <3>1, <3>2, <3>3, <2>2, <1>9
      <3>4. CASE i # at /\ j # at
        <4>1. o(i) = o(j)
          BY <3>1, <3>4, <2>1, <2>2
        <4>2. QED
          BY <3>4, <4>1, <1>5
      <3>5. QED
        BY <3>3, <3>4
    <2>3. QED
      BY <2>2, <1>7, SeqFacts DEF Lists
  <1>11. ToSet(e) = ToSet(s) \union {t}
    <2>1. t \in ToSet(e)
      BY <1>5, <1>7, <1>8, SeqFacts
    <2>2. ToSet(e) \subseteq ToSet(s) \union {t}
      <3>1. \A i \in 1..(Len(s) + 1) : i = at \/ (i < at /\ i \in 1..Len(s))
                                     \/ (i > at /\ i - 1 \in 1..Len(s))
        BY <1>5
      <3>2. QED
        BY <3>1, <1>5, <1>7, <1>8, SeqFacts
    <2>3. ASSUME NEW i \in 1..Len(s) PROVE s[i] \in ToSet(e)
      <3>1. CASE i < at
        BY <3>1, <1>5, <1>7, <1>8, SeqFacts
      <3>2. CASE i >= at
        <4>1. i + 1 \in 1..(Len(s) + 1) /\ e[i + 1] = s[i]
          BY <3>2, <1>5, <1>8
        <4>2. QED
          BY <4>1, <1>7, SeqFacts
      <3>3. QED
        BY <3>1, <3>2, <1>5
    <2>4. QED
      BY <2>1, <2>2, <2>3, SeqFacts
  <1>12. QED
    BY <1>7, <1>8, <1>10, <1>11 DEF e
----------------------------------------------------------------------------
\* How far from now a timeout in the list may be.
InRange(x) == -(MaxPreempt + 1) <= x /\ x + MaxPreempt < Half

LEMMA PlusType ==
  ASSUME NEW now \in Ticks, NEW x \in Int, -Modulus <= x, x <= Modulus
  PROVE  /\ Plus(now, x) \in Ticks
         /\ Plus(now, x) = now + x \/ Plus(now, x) = now + x + Modulus
              \/ Plus(now, x) = now + x - Modulus
  <1>1. /\ now + x \in Int /\ -Modulus <= now + x /\ now + x < 2 * Modulus
        /\ Modulus = TickMax + 1 /\ TickMax \in Nat
    BY Numbers DEF Ticks
  <1>2. Plus(now, x) = IF now + x < 0 THEN now + x + Modulus
                       ELSE IF now + x < Modulus THEN now + x ELSE now + x - Modulus
    <2> DEFINE y == now + x
    <2>1. Plus(now, x) = y % Modulus /\ y \in Int /\ -Modulus <= y /\ y < 2 * Modulus
      BY <1>1 DEF Plus
    <2> HIDE DEF y
    <2>2. y % Modulus = IF y < 0 THEN y + Modulus ELSE IF y < Modulus THEN y ELSE y - Modulus
      BY <2>1, Wrapped
    <2>3. QED
      BY <1>1, <2>1, <2>2 DEF y, Ticks
  <1> HIDE DEF Modulus
  <1>3. QED
    BY <1>1, <1>2 DEF Ticks

LEMMA MinusIs ==
  ASSUME NEW a \in Ticks, NEW b \in Ticks
  PROVE  Minus(a, b) = IF a < b THEN a - b + Modulus ELSE a - b
  <1>1. a - b \in Int /\ -Modulus <= a - b /\ a - b < Modulus /\ Modulus \in Nat
    BY Numbers DEF Ticks
  <1> DEFINE y == a - b
  <1>2. /\ Minus(a, b) = y % Modulus /\ y \in Int /\ -Modulus <= y /\ y < 2 * Modulus
        /\ y < Modulus /\ (y < 0 <=> a < b)
    BY <1>1 DEF Minus, Ticks
  <1> HIDE DEF y
  <1>3. y % Modulus = IF y < 0 THEN y + Modulus ELSE IF y < Modulus THEN y ELSE y - Modulus
    BY <1>2, Wrapped
  <1>4. QED
    BY <1>2, <1>3 DEF y

\* Ticks that wrap are compared like the times that are left.
LEMMA ComesAfter ==
  ASSUME NEW now \in Ticks, NEW x \in Int, NEW y \in Int, InRange(x), InRange(y),
         -MaxPreempt <= y
  PROVE  IsAfter(Plus(now, x), Plus(now, y)) <=> x > y
  <1> DEFINE a == Plus(now, x)
             b == Plus(now, y)
  <1>1. /\ MaxPreempt \in Nat /\ Half \in Nat /\ Modulus \in Nat /\ MaxPreempt + 1 < Half
        /\ 2 * Half < Modulus /\ Modulus = TickMax + 1 /\ TickMax \in Nat
    BY Numbers
  <1>2. /\ -Modulus <= x /\ x <= Modulus /\ -Modulus <= y /\ y <= Modulus
        /\ x - y < Half /\ y - x <= Half
    BY <1>1 DEF InRange
  <1>3. /\ a \in Ticks /\ b \in Ticks
        /\ a = now + x \/ a = now + x + Modulus \/ a = now + x - Modulus
        /\ b = now + y \/ b = now + y + Modulus \/ b = now + y - Modulus
    BY <1>2, PlusType
  <1>4. Minus(a, b) = IF a < b THEN a - b + Modulus ELSE a - b
    BY <1>3, MinusIs
  <1> HIDE DEF a, b, Modulus, Half
  <1>5. IsAfter(a, b) <=> Minus(a, b) # 0 /\ Minus(a, b) < Half
    BY DEF IsAfter, Half
  <1>6. now \in Int
    BY DEF Ticks
  <1>7. a \in 0..(Modulus - 1) /\ b \in 0..(Modulus - 1)
    BY <1>1, <1>3 DEF Ticks
  <1>8. a - b = x - y \/ a - b = x - y + Modulus \/ a - b = x - y - Modulus
    BY <1>1, <1>2, <1>3, <1>6, <1>7
  <1>9. Minus(a, b) = IF x - y >= 0 THEN x - y ELSE x - y + Modulus
    BY <1>1, <1>2, <1>4, <1>7, <1>8
  <1>10. QED
    BY <1>1, <1>2, <1>5, <1>9 DEF a, b

\* The tick at which a timer is due, and the next one.
LEMMA DueWhenOver ==
  ASSUME NEW now \in Ticks, NEW x \in Int, InRange(x)
  PROVE  Minus(now, Plus(now, x)) < Half <=> x <= 0
  <1> DEFINE a == Plus(now, x)
  <1>1. /\ MaxPreempt \in Nat /\ Half \in Nat /\ Modulus \in Nat /\ MaxPreempt + 1 < Half
        /\ 2 * Half < Modulus /\ Modulus = TickMax + 1 /\ TickMax \in Nat
    BY Numbers
  <1>2. -Modulus <= x /\ x <= Modulus /\ x < Half /\ -x < Half
    BY <1>1 DEF InRange
  <1>3. a \in Ticks /\ (a = now + x \/ a = now + x + Modulus \/ a = now + x - Modulus)
    BY <1>2, PlusType
  <1>4. Minus(now, a) = IF now < a THEN now - a + Modulus ELSE now - a
    BY <1>3, MinusIs
  <1> HIDE DEF a, Modulus, Half
  <1>5. a \in 0..(Modulus - 1) /\ now \in 0..(Modulus - 1)
    BY <1>1, <1>3 DEF Ticks
  <1>6. Minus(now, a) = IF x <= 0 THEN -x ELSE Modulus - x
    BY <1>1, <1>2, <1>3, <1>4, <1>5
  <1>7. QED
    BY <1>1, <1>2, <1>6 DEF a

LEMMA NextTick ==
  ASSUME NEW now \in Ticks, NEW x \in Int, -MaxPreempt <= x, x + MaxPreempt < Half
  PROVE  Plus(now, 1) \in Ticks /\ Plus(Plus(now, 1), x - 1) = Plus(now, x)
  <1> DEFINE a == Plus(now, x)
             n == Plus(now, 1)
             b == Plus(n, x - 1)
  <1>1. /\ MaxPreempt \in Nat /\ Half \in Nat /\ Modulus \in Nat /\ MaxPreempt + 1 < Half
        /\ 2 * Half < Modulus /\ Modulus = TickMax + 1 /\ TickMax \in Nat
    BY Numbers
  <1>2. /\ -Modulus <= x /\ x <= Modulus /\ x - 1 \in Int /\ -Modulus <= x - 1 /\ x - 1 <= Modulus
        /\ -Modulus <= 1 /\ 1 <= Modulus /\ 1 \in Int
    BY <1>1
  <1>3. /\ n \in Ticks /\ (n = now + 1 \/ n = now + 1 + Modulus \/ n = now + 1 - Modulus)
        /\ a \in Ticks /\ (a = now + x \/ a = now + x + Modulus \/ a = now + x - Modulus)
    BY <1>2, PlusType
  <1> HIDE DEF n
  <1>4. b \in Ticks /\ (b = n + (x - 1) \/ b = n + (x - 1) + Modulus \/ b = n + (x - 1) - Modulus)
    BY <1>2, <1>3, PlusType
  <1> HIDE DEF a, b, Modulus, Half
  <1>5. /\ a \in 0..(Modulus - 1) /\ b \in 0..(Modulus - 1) /\ n \in 0..(Modulus - 1)
        /\ now \in 0..(Modulus - 1)
    BY <1>1, <1>3, <1>4 DEF Ticks
  <1>6. a = b
    BY <1>1, <1>2, <1>3, <1>4, <1>5
  <1>7. QED
    BY <1>3, <1>6 DEF a, b, n
----------------------------------------------------------------------------
TimerType ==
  [timeout_tick : Ticks, init_tick : Delays, periodic : BOOLEAN, activated : BOOLEAN]

\* What the functions work on.
States == [list : Lists, timer : [Timers -> TimerType], left : [Timers -> Int]]

\* The timeout of t is as many ticks from now as are left.
Shown(s, now, t) ==
  InRange(s.left[t]) /\ s.timer[t].timeout_tick = Plus(now, s.left[t])

Good(s, now) ==
  /\ s \in States
  /\ \A t \in ToSet(s.list) : Shown(s, now, t)
  /\ SortedBy(s.list, s.left)

\* r differs from s by the timer t only.
Others(s, r, t) ==
  /\ \A u \in Timers \ {t} : r.left[u] = s.left[u] /\ r.timer[u] = s.timer[u]
  /\ ToSet(r.list) \ {t} = ToSet(s.list) \ {t}

\* And t keeps its delay.
Elsewhere(s, r, t) == Others(s, r, t) /\ r.timer[t].init_tick = s.timer[t].init_tick

LEMMA StateFacts ==
  ASSUME NEW s \in States
  PROVE  /\ s.list \in Lists /\ s.list \in Seq(Timers) /\ s.timer \in [Timers -> TimerType]
         /\ s.left \in [Timers -> Int] /\ ToSet(s.list) \subseteq Timers
         /\ \A t \in Timers :
              /\ s.timer[t] \in TimerType /\ s.left[t] \in Int
              /\ s.timer[t].init_tick \in Delays /\ s.timer[t].init_tick \in Nat
              /\ s.timer[t].init_tick + MaxPreempt < Half
  <1>1. s.list \in Lists /\ s.timer \in [Timers -> TimerType] /\ s.left \in [Timers -> Int]
    BY DEF States
  <1>2. s.list \in Seq(Timers)
    BY <1>1 DEF Lists
  <1>3. \A t \in Timers : s.timer[t] \in TimerType /\ s.left[t] \in Int
    BY <1>1
  <1>4. \A t \in Timers : s.timer[t].init_tick \in Delays
    BY <1>3 DEF TimerType
  <1>5. QED
    BY <1>1, <1>2, <1>3, <1>4, SeqFacts, Numbers

\* The order of a list is that of the times left of its members.
LEMMA SameOrder ==
  ASSUME NEW l \in Lists, NEW f, NEW g, SortedBy(l, f), \A u \in ToSet(l) : g[u] = f[u]
  PROVE  SortedBy(l, g)
  <1>1. \A i \in 1..Len(l) : l[i] \in ToSet(l)
    BY SeqFacts DEF Lists
  <1>2. QED
    BY <1>1 DEF SortedBy

\* A state stays good when a timer leaves the list, whatever becomes of it.
LEMMA LeavesGood ==
  ASSUME NEW now \in Ticks, NEW s, Good(s, now), NEW t, NEW r \in States,
         r.list = Unlinked(s.list, t),
         \A u \in ToSet(s.list) \ {t} :
            r.left[u] = s.left[u] /\ r.timer[u].timeout_tick = s.timer[u].timeout_tick
  PROVE  Good(r, now) /\ ToSet(r.list) = ToSet(s.list) \ {t}
  <1>1. s \in States /\ s.list \in Lists /\ s.left \in [Timers -> Int]
    BY StateFacts DEF Good
  <1>2. r.list \in Lists /\ ToSet(r.list) = ToSet(s.list) \ {t} /\ SortedBy(r.list, s.left)
    BY <1>1, Withdrawn DEF Good
  <1>3. SortedBy(r.list, r.left)
    BY <1>2, SameOrder
  <1>4. \A u \in ToSet(r.list) : Shown(r, now, u)
    BY <1>2 DEF Good, Shown
  <1>5. QED
    BY <1>2, <1>3, <1>4 DEF Good

\* It stays good, too, when nothing but a timer that is not in the list is changed.
LEMMA StaysGood ==
  ASSUME NEW now \in Ticks, NEW s, Good(s, now), NEW r \in States, r.list = s.list,
         \A u \in ToSet(s.list) :
            r.left[u] = s.left[u] /\ r.timer[u].timeout_tick = s.timer[u].timeout_tick
  PROVE  Good(r, now)
  <1>1. s.list \in Lists
    BY StateFacts DEF Good
  <1>2. SortedBy(r.list, r.left)
    BY <1>1, SameOrder DEF Good
  <1>3. QED
    BY <1>2 DEF Good, Shown

\* The head of the list is due first.
LEMMA HeadFirst ==
  ASSUME NEW l \in Lists, NEW f \in [Timers -> Int], SortedBy(l, f), l # <<>>
  PROVE  /\ Head(l) \in ToSet(l) /\ Head(l) \in Timers
         /\ \A u \in ToSet(l) : f[Head(l)] <= f[u]
  <1>1. l \in Seq(Timers)
    BY DEF Lists
  <1>2. Head(l) = l[1] /\ Head(l) \in ToSet(l) /\ ToSet(l) \subseteq Timers
    BY <1>1, SeqFacts
  <1>3. ASSUME NEW u \in ToSet(l) PROVE f[Head(l)] <= f[u]
    <2>1. PICK i \in 1..Len(l) : u = l[i]
      BY <1>1, SeqFacts
    <2>2. CASE i = 1
      BY <1>2, <2>1, <2>2
    <2>3. CASE 1 < i
      <3>1. 1 \in 1..Len(l)
        BY <1>1, <2>3, SeqFacts
      <3>2. QED
        BY <1>2, <2>1, <2>3, <3>1 DEF SortedBy
    <2>4. QED
      BY <2>2, <2>3
  <1>4. QED
    BY <1>2, <1>3
----------------------------------------------------------------------------
\* _rt_timer_remove
LEMMA RemovedDoes ==
  ASSUME NEW now \in Ticks, NEW s, Good(s, now), NEW t \in Timers
  PROVE  LET r == Removed(s, t)
         IN /\ Good(r, now) /\ Elsewhere(s, r, t) /\ t \notin ToSet(r.list)
            /\ r.left = s.left
  <1> DEFINE r == Removed(s, t)
  <1>1. s \in States
    BY DEF Good
  <1>2. /\ s.list \in Lists /\ s.timer \in [Timers -> TimerType] /\ s.left \in [Timers -> Int]
        /\ s.timer[t] \in TimerType /\ Unlinked(s.list, t) \in Lists
    BY <1>1, StateFacts, Withdrawn
  <1>3. /\ r.list = Unlinked(s.list, t) /\ r.left = s.left
        /\ r.timer = [s.timer EXCEPT ![t].activated = FALSE]
        /\ r = [list |-> r.list, timer |-> r.timer, left |-> r.left]
    <2>1. s = [list |-> s.list, timer |-> s.timer, left |-> s.left]
      BY <1>1 DEF States
    <2>2. r = [s EXCEPT !.list = Unlinked(s.list, t), !.timer = [s.timer EXCEPT ![t].activated = FALSE]]
      BY <2>1 DEF Removed
    <2>3. QED
      BY <2>1, <2>2
  <1> HIDE DEF r
  <1>4. r.timer[t] = [s.timer[t] EXCEPT !.activated = FALSE] /\ r.timer[t] \in TimerType
    BY <1>2, <1>3 DEF TimerType
  <1>5. r.timer[t].init_tick = s.timer[t].init_tick
    BY <1>2, <1>4 DEF TimerType
  <1>6. /\ \A u \in Timers \ {t} : r.timer[u] = s.timer[u]
        /\ r.timer \in [Timers -> TimerType]
    BY <1>2, <1>3, <1>4
  <1>7. r \in States
    BY <1>2, <1>3, <1>6 DEF States
  <1>8. ToSet(s.list) \subseteq Timers
    BY <1>1, StateFacts
  <1>9. Good(r, now) /\ ToSet(r.list) = ToSet(s.list) \ {t}
    BY <1>3, <1>6, <1>7, <1>8, LeavesGood
  <1>10. QED
    BY <1>3, <1>5, <1>6, <1>9 DEF Elsewhere, Others, r

\* The flag of a timer is cleared.
LEMMA ClearedDoes ==
  ASSUME NEW now \in Ticks, NEW s, Good(s, now), NEW t \in Timers
  PROVE  LET r == [s EXCEPT !.timer[t].activated = FALSE]
         IN Good(r, now) /\ Elsewhere(s, r, t) /\ r.list = s.list /\ r.left = s.left
  <1> DEFINE r == [s EXCEPT !.timer[t].activated = FALSE]
  <1>1. s \in States
    BY DEF Good
  <1>2. /\ s.list \in Lists /\ s.timer \in [Timers -> TimerType] /\ s.left \in [Timers -> Int]
        /\ s.timer[t] \in TimerType
    BY <1>1, StateFacts
  <1>3. /\ r.list = s.list /\ r.left = s.left
        /\ r.timer = [s.timer EXCEPT ![t].activated = FALSE]
        /\ r = [list |-> r.list, timer |-> r.timer, left |-> r.left]
    <2>1. s = [list |-> s.list, timer |-> s.timer, left |-> s.left]
      BY <1>1 DEF States
    <2>2. r = [s EXCEPT !.timer = [s.timer EXCEPT ![t].activated = FALSE]]
      BY <2>1
    <2> HIDE DEF r
    <2>3. QED
      BY <2>1, <2>2
  <1> HIDE DEF r
  <1>4. r.timer[t] = [s.timer[t] EXCEPT !.activated = FALSE] /\ r.timer[t] \in TimerType
    BY <1>2, <1>3 DEF TimerType
  <1>5. /\ r.timer[t].init_tick = s.timer[t].init_tick
        /\ r.timer[t].timeout_tick = s.timer[t].timeout_tick
    BY <1>2, <1>4 DEF TimerType
  <1>6. /\ \A u \in Timers \ {t} : r.timer[u] = s.timer[u]
        /\ r.timer \in [Timers -> TimerType]
    BY <1>2, <1>3, <1>4
  <1>7. r \in States
    BY <1>2, <1>3, <1>6 DEF States
  <1>8. ToSet(s.list) \subseteq Timers
    BY <1>1, StateFacts
  <1>9. \A u \in ToSet(s.list) : r.timer[u].timeout_tick = s.timer[u].timeout_tick
    BY <1>5, <1>6, <1>8
  <1>10. Good(r, now)
    BY <1>3, <1>7, <1>9, StaysGood
  <1>11. QED
    BY <1>3, <1>5, <1>6, <1>10 DEF Elsewhere, Others, r

\* The timeout of a timer that is not in the list is computed.
LEMMA StampedDoes ==
  ASSUME NEW now \in Ticks, NEW s, Good(s, now), NEW t \in Timers, t \notin ToSet(s.list)
  PROVE  LET r == Stamped(s, now, t)
         IN /\ Good(r, now) /\ Elsewhere(s, r, t) /\ r.list = s.list
            /\ r.left[t] = s.timer[t].init_tick /\ Shown(r, now, t)
  <1> DEFINE r == Stamped(s, now, t)
             d == s.timer[t].init_tick
  <1>1. s \in States
    BY DEF Good
  <1>2. /\ s.list \in Lists /\ s.timer \in [Timers -> TimerType] /\ s.left \in [Timers -> Int]
        /\ s.timer[t] \in TimerType /\ d \in Nat /\ d + MaxPreempt < Half /\ d \in Int
    BY <1>1, StateFacts
  <1>3. Plus(now, d) \in Ticks
    BY <1>2, PlusType, Numbers
  <1>4. /\ r.list = s.list /\ r.left = [s.left EXCEPT ![t] = d]
        /\ r.timer = [s.timer EXCEPT ![t].timeout_tick = Plus(now, d)]
        /\ r = [list |-> r.list, timer |-> r.timer, left |-> r.left]
    <2>1. s = [list |-> s.list, timer |-> s.timer, left |-> s.left]
      BY <1>1 DEF States
    <2>2. r = [s EXCEPT !.timer = [s.timer EXCEPT ![t].timeout_tick = Plus(now, d)],
                        !.left = [s.left EXCEPT ![t] = d]]
      BY <2>1 DEF Stamped
    <2>3. QED
      BY <2>1, <2>2
  <1> HIDE DEF r
  <1>5. /\ r.timer[t] = [s.timer[t] EXCEPT !.timeout_tick = Plus(now, d)]
        /\ r.timer[t] \in TimerType
    BY <1>2, <1>3, <1>4 DEF TimerType
  <1>6. r.timer[t].init_tick = d /\ r.timer[t].timeout_tick = Plus(now, d)
    BY <1>2, <1>5 DEF TimerType
  <1>7. /\ \A u \in Timers \ {t} : r.timer[u] = s.timer[u] /\ r.left[u] = s.left[u]
        /\ r.timer \in [Timers -> TimerType] /\ r.left \in [Timers -> Int] /\ r.left[t] = d
    BY <1>2, <1>4, <1>5
  <1>8. r \in States
    BY <1>2, <1>4, <1>7 DEF States
  <1>9. \A u \in ToSet(s.list) : u \in Timers \ {t}
    BY <1>1, StateFacts
  <1>10. Good(r, now)
    BY <1>4, <1>7, <1>8, <1>9, StaysGood
  <1>11. InRange(d)
    BY <1>2, Numbers DEF InRange
  <1>12. QED
    BY <1>4, <1>6, <1>7, <1>10, <1>11 DEF Elsewhere, Others, Shown, r
\* A timer is put into the list: what comes after it is what has more ticks left.
LEMMA InsertedDoes ==
  ASSUME NEW now \in Ticks, NEW s, Good(s, now), NEW t \in Timers, t \notin ToSet(s.list),
         Shown(s, now, t), -MaxPreempt <= s.left[t]
  PROVE  LET r == Inserted(s, t)
         IN /\ Good(r, now) /\ Elsewhere(s, r, t) /\ r.left = s.left
            /\ ToSet(r.list) = ToSet(s.list) \union {t}
  <1> DEFINE r == Inserted(s, t)
             l == s.list
             f == s.left
             after == { i \in 1..Len(l) :
                          IsAfter(s.timer[l[i]].timeout_tick, s.timer[t].timeout_tick) }
             at == IF after = {} THEN Len(l) + 1
                   ELSE CHOOSE i \in after : \A j \in after : i <= j
             e == InsertAt(l, at, t)
  <1>1. s \in States
    BY DEF Good
  <1>2. /\ l \in Lists /\ l \in Seq(Timers) /\ s.timer \in [Timers -> TimerType]
        /\ f \in [Timers -> Int] /\ s.timer[t] \in TimerType /\ ToSet(l) \subseteq Timers
        /\ Len(l) \in Nat /\ \A i \in 1..Len(l) : l[i] \in ToSet(l)
    BY <1>1, StateFacts, SeqFacts
  <1>3. Linked(l, t, s.timer) = e
    BY DEF Linked
  <1>4. /\ r.list = e /\ r.left = s.left
        /\ r.timer = [s.timer EXCEPT ![t].activated = TRUE]
        /\ r = [list |-> r.list, timer |-> r.timer, left |-> r.left]
    <2>1. s = [list |-> s.list, timer |-> s.timer, left |-> s.left]
      BY <1>1 DEF States
    <2>2. r = [s EXCEPT !.list = e, !.timer = [s.timer EXCEPT ![t].activated = TRUE]]
      BY <1>3, <2>1 DEF Inserted
    <2> HIDE DEF e
    <2>3. QED
      BY <2>1, <2>2
  <1>5. \A i \in 1..Len(l) : i \in after <=> f[l[i]] > f[t]
    <2>1. ASSUME NEW i \in 1..Len(l)
          PROVE  IsAfter(s.timer[l[i]].timeout_tick, s.timer[t].timeout_tick) <=> f[l[i]] > f[t]
      <3>1. Shown(s, now, l[i]) /\ f[l[i]] \in Int /\ f[t] \in Int
        BY <1>2 DEF Good
      <3>2. QED
        BY <3>1, ComesAfter DEF Shown
    <2>2. QED
      BY <2>1
  <1>6. /\ at \in 1..(Len(l) + 1)
        /\ \A i \in 1..Len(l) : i < at => f[l[i]] <= f[t]
        /\ at <= Len(l) => f[l[at]] > f[t]
    <2>1. after \in SUBSET Nat
      BY <1>2
    <2>2. \A i \in 1..Len(l) : f[l[i]] \in Int /\ f[t] \in Int
      BY <1>2
    <2> HIDE DEF after
    <2>3. CASE after = {}
      <3>1. at = Len(l) + 1
        BY <2>3
      <3> HIDE DEF at
      <3>2. QED
        BY <1>2, <1>5, <2>2, <2>3, <3>1
    <2>4. CASE after # {}
      <3>1. at \in after /\ \A j \in after : at <= j
        BY <2>1, <2>4, Smallest
      <3>2. after \subseteq 1..Len(l)
        BY DEF after
      <3> HIDE DEF at
      <3>3. QED
        BY <1>2, <1>5, <2>2, <3>1, <3>2
    <2>5. QED
      BY <2>3, <2>4
  <1> HIDE DEF r, after, at
  <1>7. /\ e \in Lists /\ ToSet(e) = ToSet(l) \union {t} /\ Len(e) = Len(l) + 1
        /\ \A i \in 1..(Len(l) + 1) : e[i] =
             IF i < at THEN l[i] ELSE IF i = at THEN t ELSE l[i - 1]
    BY <1>2, <1>6, PutIn
  <1> HIDE DEF e
  <1>8. SortedBy(e, f)
    <2>1. \A i, j \in 1..Len(l) : i < j => f[l[i]] <= f[l[j]]
      BY DEF Good, SortedBy
    <2>2. \A i \in 1..Len(l) : f[l[i]] \in Int /\ f[t] \in Int
      BY <1>2
    <2>3. \A i \in 1..Len(l) : at <= i => f[t] < f[l[i]]
      <3>1. ASSUME NEW i \in 1..Len(l), at <= i PROVE f[t] < f[l[i]]
        <4>1. at \in 1..Len(l) /\ f[t] < f[l[at]]
          BY <1>2, <1>6, <2>2, <3>1
        <4>2. f[l[at]] <= f[l[i]]
          BY <2>1, <2>2, <3>1, <4>1
        <4>3. QED
          BY <2>2, <4>1, <4>2
      <3>2. QED
        BY <3>1
    <2>4. ASSUME NEW i \in 1..Len(e), NEW j \in 1..Len(e), i < j PROVE f[e[i]] <= f[e[j]]
      <3>1. i \in Nat /\ j \in Nat /\ at \in Nat /\ i \in 1..(Len(l) + 1) /\ j \in 1..(Len(l) + 1)
        BY <1>2, <1>6, <1>7
      <3>2. CASE j < at
        <4>1. i \in 1..Len(l) /\ j \in 1..Len(l) /\ e[i] = l[i] /\ e[j] = l[j]
          BY <3>1, <3>2, <1>2, <1>6, <1>7, <2>4
        <4>2. QED
          BY <4>1, <2>1, <2>4
      <3>3. CASE j = at
        <4>1. i \in 1..Len(l) /\ i < at /\ e[i] = l[i] /\ e[j] = t
          BY <3>1, <3>3, <1>2, <1>6, <1>7, <2>4
        <4>2. QED
          BY <4>1, <1>6
      <3>4. CASE j > at /\ i < at
        <4>1. i \in 1..Len(l) /\ j - 1 \in 1..Len(l) /\ at <= j - 1
              /\ e[i] = l[i] /\ e[j] = l[j - 1]
          BY <3>1, <3>4, <1>2, <1>6, <1>7
        <4>2. f[l[i]] <= f[t] /\ f[t] < f[l[j - 1]]
          BY <3>4, <4>1, <1>6, <2>3
        <4>3. QED
          BY <4>1, <4>2, <2>2
      <3>5. CASE j > at /\ i = at
        <4>1. j - 1 \in 1..Len(l) /\ at <= j - 1 /\ ~(j < at) /\ j # at
          BY <3>1, <3>5, <1>2
        <4>2. e[j] = l[j - 1]
          BY <3>1, <4>1, <1>7
        <4>3. e[i] = t
          BY <3>1, <3>5, <1>7
        <4>4. QED
          BY <4>1, <4>2, <4>3, <2>2, <2>3
      <3>6. CASE i > at
        <4>1. i - 1 \in 1..Len(l) /\ j - 1 \in 1..Len(l) /\ i - 1 < j - 1
              /\ e[i] = l[i - 1] /\ e[j] = l[j - 1]
          BY <3>1, <3>6, <1>2, <1>6, <1>7, <2>4
        <4>2. QED
          BY <4>1, <2>1
      <3>7. QED
        BY <3>1, <3>2, <3>3, <3>4, <3>5, <3>6, <2>4
    <2>5. QED
      BY <2>4 DEF SortedBy
  <1>9. r.timer[t] = [s.timer[t] EXCEPT !.activated = TRUE] /\ r.timer[t] \in TimerType
    BY <1>2, <1>4 DEF TimerType
  <1>10. /\ r.timer[t].init_tick = s.timer[t].init_tick
         /\ r.timer[t].timeout_tick = s.timer[t].timeout_tick
    BY <1>2, <1>9 DEF TimerType
  <1>11. /\ \A u \in Timers \ {t} : r.timer[u] = s.timer[u]
         /\ r.timer \in [Timers -> TimerType]
    BY <1>2, <1>4, <1>9
  <1>12. r \in States
    BY <1>2, <1>4, <1>7, <1>11 DEF States
  <1>13. \A u \in ToSet(r.list) : Shown(r, now, u)
    <2>1. ASSUME NEW u \in ToSet(r.list) PROVE Shown(s, now, u)
      BY <1>4, <1>7, <2>1 DEF Good
    <2>2. \A u \in ToSet(r.list) : r.timer[u].timeout_tick = s.timer[u].timeout_tick
      BY <1>2, <1>4, <1>7, <1>10, <1>11
    <2>3. QED
      BY <1>4, <2>1, <2>2 DEF Shown
  <1>14. QED
    BY <1>4, <1>7, <1>8, <1>10, <1>11, <1>12, <1>13 DEF Elsewhere, Others, Good, r

\* What is elsewhere of two changes of one timer.
LEMMA ElsewhereBoth ==
  ASSUME NEW s, NEW r, NEW q, NEW t, Elsewhere(s, r, t), Elsewhere(r, q, t)
  PROVE  Elsewhere(s, q, t)
  BY DEF Elsewhere, Others

\* A timer is started for all of its delay.
LEMMA StartedDoes ==
  ASSUME NEW now \in Ticks, NEW s, Good(s, now), NEW t \in Timers
  PROVE  LET r == Started(s, now, t)
         IN /\ Good(r, now) /\ Elsewhere(s, r, t) /\ t \in ToSet(r.list)
            /\ r.left[t] = s.timer[t].init_tick
  <1> DEFINE a == Removed(s, t)
             b == Stamped(a, now, t)
             c == Inserted(b, t)
  <1>1. Good(a, now) /\ Elsewhere(s, a, t) /\ t \notin ToSet(a.list)
    BY RemovedDoes
  <1> HIDE DEF a
  <1>2. /\ Good(b, now) /\ Elsewhere(a, b, t) /\ b.list = a.list
        /\ b.left[t] = a.timer[t].init_tick /\ Shown(b, now, t)
    BY <1>1, StampedDoes
  <1>3. a.timer[t].init_tick = s.timer[t].init_tick /\ s.timer[t].init_tick \in Nat
    BY <1>1, StateFacts DEF Elsewhere, Others, Good
  <1>4. -MaxPreempt <= b.left[t]
    BY <1>2, <1>3, Numbers
  <1> HIDE DEF b
  <1>5. /\ Good(c, now) /\ Elsewhere(b, c, t) /\ c.left = b.left
        /\ ToSet(c.list) = ToSet(b.list) \union {t}
    BY <1>1, <1>2, <1>4, InsertedDoes
  <1> HIDE DEF c
  <1>6. Elsewhere(s, c, t)
    BY <1>1, <1>2, <1>5, ElsewhereBoth
  <1>7. Started(s, now, t) = c
    BY DEF a, b, c, Started, Restart
  <1>8. QED
    BY <1>2, <1>3, <1>5, <1>6, <1>7

\* A timer that is not in the list has no ticks left.
LEMMA ResetDoes ==
  ASSUME NEW now \in Ticks, NEW s, Good(s, now), NEW t \in Timers, t \notin ToSet(s.list)
  PROVE  LET r == [s EXCEPT !.left[t] = 0]
         IN r \in States /\ Good(r, now) /\ Elsewhere(s, r, t) /\ r.list = s.list
  <1> DEFINE r == [s EXCEPT !.left[t] = 0]
  <1>1. s \in States
    BY DEF Good
  <1>2. /\ s.list \in Lists /\ s.timer \in [Timers -> TimerType] /\ s.left \in [Timers -> Int]
        /\ ToSet(s.list) \subseteq Timers
    BY <1>1, StateFacts
  <1>3. /\ r.list = s.list /\ r.left = [s.left EXCEPT ![t] = 0] /\ r.timer = s.timer
        /\ r = [list |-> r.list, timer |-> r.timer, left |-> r.left]
    <2>1. s = [list |-> s.list, timer |-> s.timer, left |-> s.left]
      BY <1>1 DEF States
    <2>2. r = [s EXCEPT !.left = [s.left EXCEPT ![t] = 0]]
      BY <2>1
    <2> HIDE DEF r
    <2>3. QED
      BY <2>1, <2>2
  <1> HIDE DEF r
  <1>4. r.left \in [Timers -> Int] /\ \A u \in Timers \ {t} : r.left[u] = s.left[u]
    BY <1>2, <1>3
  <1>5. r \in States
    BY <1>2, <1>3, <1>4 DEF States
  <1>6. Good(r, now)
    BY <1>2, <1>3, <1>4, <1>5, StaysGood
  <1>7. QED
    BY <1>3, <1>4, <1>5, <1>6 DEF Elsewhere, Others, r

\* A timer leaves the list and has no ticks left.
LEMMA UnlinkedDoes ==
  ASSUME NEW now \in Ticks, NEW s, Good(s, now), NEW t \in Timers
  PROVE  LET r == [s EXCEPT !.list = Unlinked(s.list, t), !.left[t] = 0]
         IN /\ r \in States /\ Good(r, now) /\ Elsewhere(s, r, t)
            /\ t \notin ToSet(r.list) /\ r.left[t] = 0
            /\ r.left = [s.left EXCEPT ![t] = 0] /\ r.timer = s.timer
  <1> DEFINE r == [s EXCEPT !.list = Unlinked(s.list, t), !.left[t] = 0]
  <1>1. s \in States
    BY DEF Good
  <1>2. /\ s.list \in Lists /\ s.timer \in [Timers -> TimerType] /\ s.left \in [Timers -> Int]
        /\ ToSet(s.list) \subseteq Timers /\ Unlinked(s.list, t) \in Lists
    BY <1>1, StateFacts, Withdrawn
  <1>3. /\ r.list = Unlinked(s.list, t) /\ r.left = [s.left EXCEPT ![t] = 0]
        /\ r.timer = s.timer /\ r = [list |-> r.list, timer |-> r.timer, left |-> r.left]
    <2>1. s = [list |-> s.list, timer |-> s.timer, left |-> s.left]
      BY <1>1 DEF States
    <2>2. r = [s EXCEPT !.list = Unlinked(s.list, t), !.left = [s.left EXCEPT ![t] = 0]]
      BY <2>1
    <2> HIDE DEF r
    <2>3. QED
      BY <2>1, <2>2
  <1> HIDE DEF r
  <1>4. /\ r.left \in [Timers -> Int] /\ \A u \in Timers \ {t} : r.left[u] = s.left[u]
        /\ r.left[t] = 0
    BY <1>2, <1>3
  <1>5. r \in States
    BY <1>2, <1>3, <1>4 DEF States
  <1>6. Good(r, now) /\ ToSet(r.list) = ToSet(s.list) \ {t}
    BY <1>2, <1>3, <1>4, <1>5, LeavesGood
  <1>7. QED
    BY <1>3, <1>4, <1>5, <1>6 DEF Elsewhere, Others, r
----------------------------------------------------------------------------
PCs == {"idle", "removed", "stamped", "stopping", "unlinked", "detached"}

\* Where a call leaves its timer out of the list.
Away == {"removed", "stamped", "unlinked", "detached"}

TypeOK == rt_tick \in Ticks /\ checking \in BOOLEAN /\ pc \in [Timers -> PCs]

Alone == \A t \in Timers : pc[t] \in Away => t \notin ToSet(list)

\* Ticks pass between the computing of a timeout and the inserting of the timer.
Stamp(t) ==
  /\ timer[t].timeout_tick = Plus(rt_tick, left[t])
  /\ left[t] <= timer[t].init_tick /\ timer[t].init_tick - left[t] <= MaxPreempt

Stamps == \A t \in Timers : pc[t] = "stamped" => Stamp(t)

\* Between two checks no timer waits that was due before, but for a late start.
Prompt == ~checking => \A t \in ToSet(list) : -MaxPreempt <= left[t]

IInv == TypeOK /\ Good(Here, rt_tick) /\ Alone /\ Stamps /\ Prompt

LEMMA HereFacts ==
  ASSUME IInv
  PROVE  /\ rt_tick \in Ticks /\ checking \in BOOLEAN /\ pc \in [Timers -> PCs]
         /\ Good(Here, rt_tick) /\ Here \in States
         /\ Here.list = list /\ Here.timer = timer /\ Here.left = left
         /\ list \in Lists /\ list \in Seq(Timers) /\ timer \in [Timers -> TimerType]
         /\ left \in [Timers -> Int] /\ ToSet(list) \subseteq Timers
         /\ \A t \in Timers : /\ timer[t] \in TimerType /\ left[t] \in Int
                              /\ timer[t].init_tick \in Delays /\ timer[t].init_tick \in Nat
                              /\ timer[t].init_tick + MaxPreempt < Half
         /\ SortedBy(list, left)
  <1>1. Good(Here, rt_tick) /\ Here \in States
    BY DEF IInv, Good
  <1>2. Here.list = list /\ Here.timer = timer /\ Here.left = left
    BY DEF Here
  <1>3. QED
    BY <1>1, <1>2, StateFacts DEF IInv, TypeOK, Good

LEMMA Became ==
  ASSUME NEW s \in States, Becomes(s)
  PROVE  Here' = s
  BY DEF Becomes, Here, States

\* What a call for t keeps of the invariant if it keeps its list good.
LEMMA ThreadKeeps ==
  ASSUME IInv, NEW t \in Timers, NEW p \in PCs,
         rt_tick' = rt_tick, checking' = checking, pc' = [pc EXCEPT ![t] = p],
         Good(Here', rt_tick), Others(Here, Here', t),
         p \in Away => t \notin ToSet(list'), p = "stamped" => Stamp(t)',
         ~checking /\ t \in ToSet(list') => -MaxPreempt <= left'[t]
  PROVE  IInv'
  <1>1. /\ TypeOK /\ Alone /\ Stamps /\ Prompt /\ ToSet(list) \subseteq Timers
    BY HereFacts DEF IInv
  <1>2. /\ \A u \in Timers \ {t} : left'[u] = left[u] /\ timer'[u] = timer[u]
        /\ ToSet(list') \ {t} = ToSet(list) \ {t}
    BY DEF Others, Here
  <1>3. pc'[t] = p /\ \A u \in Timers \ {t} : pc'[u] = pc[u]
    BY <1>1 DEF TypeOK
  <1>4. TypeOK'
    BY <1>1 DEF TypeOK
  <1>5. Alone'
    BY <1>1, <1>2, <1>3 DEF Alone
  <1>6. Stamps'
    <2>1. ASSUME NEW u \in Timers \ {t}, pc'[u] = "stamped" PROVE Stamp(u)'
      BY <1>1, <1>2, <1>3, <2>1 DEF Stamps, Stamp
    <2>2. QED
      BY <1>3, <2>1 DEF Stamps
  <1>7. Prompt'
    BY <1>1, <1>2 DEF Prompt
  <1>8. Good(Here, rt_tick)'
    OBVIOUS
  <1>9. QED
    BY <1>4, <1>5, <1>6, <1>7, <1>8 DEF IInv
----------------------------------------------------------------------------
\* The calls that take a timer out of the list.
LEMMA Leaving ==
  ASSUME IInv, NEW t \in Timers, StartRemove(t) \/ StopRemove(t) \/ Detach(t)
  PROVE  /\ Good(Here', rt_tick) /\ Others(Here, Here', t) /\ t \notin ToSet(list')
         /\ \E p \in PCs : pc' = [pc EXCEPT ![t] = p] /\ p # "stamped"
  <1>1. CASE StartRemove(t)
    <2> DEFINE r == Removed(Here, t)
               q == [r EXCEPT !.left[t] = 0]
    <2>1. Good(r, rt_tick) /\ Elsewhere(Here, r, t) /\ t \notin ToSet(r.list)
      BY HereFacts, RemovedDoes
    <2> HIDE DEF r
    <2>2. q \in States /\ Good(q, rt_tick) /\ Elsewhere(r, q, t) /\ q.list = r.list
      BY <2>1, ResetDoes, HereFacts
    <2>3. Becomes(q)
      BY <1>1 DEF StartRemove, r
    <2> HIDE DEF q
    <2>4. Here' = q /\ list' = q.list
      BY <2>2, <2>3, Became DEF Becomes
    <2>5. Elsewhere(Here, q, t)
      BY <2>1, <2>2, ElsewhereBoth
    <2>6. pc' = [pc EXCEPT ![t] = "removed"]
      BY <1>1 DEF StartRemove
    <2>7. QED
      BY <2>1, <2>2, <2>4, <2>5, <2>6 DEF Elsewhere, PCs
  <1>2. CASE StopRemove(t) \/ Detach(t)
    <2> DEFINE q == [Here EXCEPT !.list = Unlinked(Here.list, t), !.left[t] = 0]
    <2>1. /\ q \in States /\ Good(q, rt_tick) /\ Elsewhere(Here, q, t)
          /\ t \notin ToSet(q.list) /\ q.left = [left EXCEPT ![t] = 0] /\ q.timer = timer
      BY HereFacts, UnlinkedDoes
    <2>2. q.list = Unlinked(list, t)
      BY DEF Here
    <2> HIDE DEF q
    <2>3. Becomes(q)
      BY <1>2, <2>1, <2>2 DEF StopRemove, Detach, Becomes
    <2>4. Here' = q /\ list' = q.list
      BY <2>1, <2>3, Became DEF Becomes
    <2>5. pc' = [pc EXCEPT ![t] = "unlinked"] \/ pc' = [pc EXCEPT ![t] = "detached"]
      BY <1>2 DEF StopRemove, Detach
    <2>6. QED
      BY <2>1, <2>4, <2>5 DEF Elsewhere, PCs
  <1>3. QED
    BY <1>1, <1>2

\* The call that puts a timer into the list, as far from now as it was stamped.
LEMMA Entering ==
  ASSUME IInv, NEW t \in Timers, StartInsert(t)
  PROVE  /\ Good(Here', rt_tick) /\ Others(Here, Here', t) /\ left' = left
         /\ ToSet(list') = ToSet(list) \union {t} /\ t \notin ToSet(list)
         /\ pc' = [pc EXCEPT ![t] = "idle"] /\ Stamp(t)
  <1> DEFINE q == Inserted(Here, t)
  <1>1. pc[t] = "stamped" /\ pc' = [pc EXCEPT ![t] = "idle"] /\ Becomes(q)
    BY DEF StartInsert
  <1>2. Stamp(t) /\ t \notin ToSet(list)
    BY <1>1 DEF IInv, Stamps, Alone, Away
  <1>3. left[t] \in Int /\ timer[t].init_tick \in Nat /\ timer[t].init_tick + MaxPreempt < Half
    BY HereFacts
  <1>4. -MaxPreempt <= left[t] /\ InRange(left[t])
    BY <1>2, <1>3, Numbers DEF Stamp, InRange
  <1>5. Shown(Here, rt_tick, t)
    BY <1>2, <1>4, HereFacts DEF Shown, Stamp
  <1>6. /\ Good(q, rt_tick) /\ Elsewhere(Here, q, t) /\ q.left = Here.left
        /\ ToSet(q.list) = ToSet(Here.list) \union {t}
    BY <1>2, <1>4, <1>5, HereFacts, InsertedDoes
  <1> HIDE DEF q
  <1>7. Here' = q /\ list' = q.list /\ left' = q.left
    BY <1>1, <1>6, Became DEF Becomes, Good
  <1>8. QED
    BY <1>1, <1>2, <1>6, <1>7, HereFacts DEF Elsewhere

\* The calls that leave the list as it is.
LEMMA Staying ==
  ASSUME IInv, NEW t \in Timers,
         StartStamp(t) \/ StopBegin(t) \/ StopFlag(t) \/ Control(t) \/ InitTimer(t)
  PROVE  /\ Good(Here', rt_tick) /\ Others(Here, Here', t) /\ list' = list
         /\ t \in ToSet(list) => left'[t] = left[t]
         /\ \E p \in PCs : /\ pc' = [pc EXCEPT ![t] = p]
                           /\ p \in Away => t \notin ToSet(list)
                           /\ p = "stamped" => StartStamp(t)
  <1>1. CASE StartStamp(t)
    <2> DEFINE q == Stamped(Here, rt_tick, t)
    <2>1. pc[t] = "removed" /\ pc' = [pc EXCEPT ![t] = "stamped"] /\ Becomes(q)
      BY <1>1 DEF StartStamp
    <2>2. t \notin ToSet(list)
      BY <2>1 DEF IInv, Alone, Away
    <2>3. Good(q, rt_tick) /\ Elsewhere(Here, q, t) /\ q.list = Here.list
      BY <2>2, HereFacts, StampedDoes
    <2> HIDE DEF q
    <2>4. Here' = q /\ list' = list
      BY <2>1, <2>3, Became, HereFacts DEF Becomes, Good
    <2>5. QED
      BY <1>1, <2>1, <2>2, <2>3, <2>4 DEF Elsewhere, PCs
  <1>2. ASSUME list' = list, left' = left, timer' \in [Timers -> TimerType],
               \A u \in Timers \ {t} : timer'[u] = timer[u],
               t \in ToSet(list) => timer'[t].timeout_tick = timer[t].timeout_tick
        PROVE  Good(Here', rt_tick) /\ Others(Here, Here', t)
    <2>1. Here' \in States
      BY <1>2, HereFacts DEF Here, States
    <2>2. Here'.list = list /\ Here'.left = left /\ Here'.timer = timer'
      BY <1>2 DEF Here
    <2>3. \A u \in ToSet(list) : timer'[u].timeout_tick = timer[u].timeout_tick
      BY <1>2, HereFacts
    <2>4. Good(Here', rt_tick)
      BY <2>1, <2>2, <2>3, HereFacts, StaysGood
    <2>5. QED
      BY <1>2, <2>2, <2>4, HereFacts DEF Others
  <1>3. CASE StopBegin(t)
    <2>1. /\ list' = list /\ left' = left /\ timer' = timer
          /\ pc' = [pc EXCEPT ![t] = "stopping"]
      BY <1>3 DEF StopBegin
    <2>2. Good(Here', rt_tick) /\ Others(Here, Here', t)
      BY <1>2, <2>1, HereFacts
    <2>3. QED
      BY <2>1, <2>2 DEF PCs, Away
  <1>4. CASE StopFlag(t)
    <2>1. /\ list' = list /\ left' = left /\ pc' = [pc EXCEPT ![t] = "idle"]
          /\ timer' = [timer EXCEPT ![t].activated = FALSE]
      BY <1>4 DEF StopFlag, Unflagged
    <2>2. timer[t] \in TimerType /\ timer \in [Timers -> TimerType]
      BY HereFacts
    <2>3. /\ timer'[t] = [timer[t] EXCEPT !.activated = FALSE]
          /\ \A u \in Timers \ {t} : timer'[u] = timer[u]
      BY <2>1, <2>2
    <2>4. timer'[t] \in TimerType /\ timer'[t].timeout_tick = timer[t].timeout_tick
      BY <2>2, <2>3 DEF TimerType
    <2>5. timer' \in [Timers -> TimerType]
      BY <2>1, <2>2, <2>3, <2>4
    <2>6. Good(Here', rt_tick) /\ Others(Here, Here', t)
      BY <1>2, <2>1, <2>3, <2>4, <2>5
    <2>7. QED
      BY <2>1, <2>6 DEF PCs, Away
  <1>5. CASE Control(t)
    <2>1. PICK d \in Delays, b \in BOOLEAN :
            timer' = [timer EXCEPT ![t].init_tick = d, ![t].periodic = b]
      BY <1>5 DEF Control
    <2>2. list' = list /\ left' = left /\ pc' = pc /\ pc[t] = "idle" /\ pc' = [pc EXCEPT ![t] = "idle"]
      <3>1. pc' = pc /\ pc[t] = "idle" /\ list' = list /\ left' = left
        BY <1>5 DEF Control
      <3>2. pc \in [Timers -> PCs]
        BY HereFacts
      <3>3. QED
        BY <3>1, <3>2
    <2>3. timer[t] \in TimerType /\ timer \in [Timers -> TimerType]
      BY HereFacts
    <2>4. /\ timer'[t] = [timer[t] EXCEPT !.init_tick = d, !.periodic = b]
          /\ \A u \in Timers \ {t} : timer'[u] = timer[u]
      BY <2>1, <2>3 DEF TimerType
    <2>5. timer'[t] \in TimerType /\ timer'[t].timeout_tick = timer[t].timeout_tick
      BY <2>3, <2>4 DEF TimerType
    <2>6. timer' = [timer EXCEPT ![t] = [timer[t] EXCEPT !.init_tick = d, !.periodic = b]]
      BY <2>1, <2>3 DEF TimerType
    <2>7. timer' \in [Timers -> TimerType]
      BY <2>3, <2>4, <2>5, <2>6
    <2>8. Good(Here', rt_tick) /\ Others(Here, Here', t)
      BY <1>2, <2>2, <2>4, <2>5, <2>7
    <2>9. QED
      BY <2>2, <2>8 DEF PCs, Away
  <1>6. CASE InitTimer(t)
    <2>1. PICK d \in Delays, b \in BOOLEAN : timer' = [timer EXCEPT ![t] = Fresh(d, b)]
      BY <1>6 DEF InitTimer
    <2>2. /\ list' = list /\ left' = left /\ pc[t] = "detached"
          /\ pc' = [pc EXCEPT ![t] = "idle"]
      BY <1>6 DEF InitTimer
    <2>3. t \notin ToSet(list)
      BY <2>2 DEF IInv, Alone, Away
    <2>4. Fresh(d, b) \in TimerType
      BY Numbers DEF Fresh, TimerType, Ticks
    <2>5. timer' \in [Timers -> TimerType] /\ \A u \in Timers \ {t} : timer'[u] = timer[u]
      BY <2>1, <2>4, HereFacts
    <2>6. Good(Here', rt_tick) /\ Others(Here, Here', t)
      BY <1>2, <2>2, <2>3, <2>5
    <2>7. QED
      BY <2>2, <2>6 DEF PCs, Away
  <1>7. QED
    BY <1>1, <1>3, <1>4, <1>5, <1>6

\* What computing a timeout makes of the timer.
LEMMA StampDone ==
  ASSUME IInv, NEW t \in Timers, StartStamp(t), rt_tick' = rt_tick
  PROVE  Stamp(t)'
  <1> DEFINE q == Stamped(Here, rt_tick, t)
  <1>1. pc[t] = "removed" /\ Becomes(q)
    BY DEF StartStamp
  <1>2. t \notin ToSet(list)
    BY <1>1 DEF IInv, Alone, Away
  <1>3. /\ Elsewhere(Here, q, t) /\ q.left[t] = Here.timer[t].init_tick
        /\ Shown(q, rt_tick, t)
    BY <1>2, HereFacts, StampedDoes
  <1> HIDE DEF q
  <1>4. timer' = q.timer /\ left' = q.left
    BY <1>1 DEF Becomes
  <1>5. timer[t].init_tick \in Nat
    BY HereFacts
  <1>6. left'[t] = timer'[t].init_tick /\ timer'[t].timeout_tick = Plus(rt_tick, left'[t])
    BY <1>3, <1>4, HereFacts DEF Elsewhere, Shown
  <1>7. timer'[t].init_tick \in Nat
    BY <1>3, <1>4, <1>5, HereFacts DEF Elsewhere
  <1>8. left'[t] <= timer'[t].init_tick /\ timer'[t].init_tick - left'[t] <= MaxPreempt
    BY <1>6, <1>7, Numbers
  <1>9. QED
    BY <1>6, <1>8 DEF Stamp

LEMMA ThreadStep ==
  ASSUME IInv, NEW t \in Timers, Thread(t)
  PROVE  IInv'
  <1>1. rt_tick' = rt_tick /\ checking' = checking /\ Prompt /\ ~checking
    BY DEF Thread, IInv
  <1>2. CASE StartRemove(t) \/ StopRemove(t) \/ Detach(t)
    <2>1. /\ Good(Here', rt_tick) /\ Others(Here, Here', t) /\ t \notin ToSet(list')
      BY <1>2, Leaving
    <2>2. PICK p \in PCs : pc' = [pc EXCEPT ![t] = p] /\ p # "stamped"
      BY <1>2, Leaving
    <2>3. QED
      BY <1>1, <2>1, <2>2, ThreadKeeps
  <1>3. CASE StartInsert(t)
    <2>1. /\ Good(Here', rt_tick) /\ Others(Here, Here', t) /\ left' = left
          /\ pc' = [pc EXCEPT ![t] = "idle"] /\ Stamp(t)
      BY <1>3, Entering
    <2>2. "idle" \in PCs /\ "idle" \notin Away
      BY DEF PCs, Away
    <2>3. left[t] \in Int /\ timer[t].init_tick \in Nat
      BY HereFacts
    <2>4. -MaxPreempt <= left'[t]
      BY <2>1, <2>3, Numbers DEF Stamp
    <2>5. QED
      BY <1>1, <2>1, <2>2, <2>4, ThreadKeeps
  <1>4. CASE StartStamp(t) \/ StopBegin(t) \/ StopFlag(t) \/ Control(t) \/ InitTimer(t)
    <2>1. /\ Good(Here', rt_tick) /\ Others(Here, Here', t) /\ list' = list
          /\ t \in ToSet(list) => left'[t] = left[t]
      BY <1>4, Staying
    <2>2. PICK p \in PCs : /\ pc' = [pc EXCEPT ![t] = p]
                           /\ p \in Away => t \notin ToSet(list)
                           /\ p = "stamped" => StartStamp(t)
      BY <1>4, Staying
    <2>3. p = "stamped" => Stamp(t)'
      BY <1>1, <2>2, StampDone
    <2>4. t \in ToSet(list') => -MaxPreempt <= left'[t]
      BY <1>1, <2>1 DEF Prompt
    <2>5. p \in Away => t \notin ToSet(list')
      BY <2>1, <2>2
    <2>6. pc' = [pc EXCEPT ![t] = p]
      BY <2>2
    <2>7. QED
      BY <1>1, <2>1, <2>3, <2>4, <2>5, <2>6, ThreadKeeps
  <1>5. QED
    BY <1>2, <1>3, <1>4 DEF Thread
----------------------------------------------------------------------------
\* A tick brings every timeout a tick nearer.
LEMMA TickStep ==
  ASSUME IInv, Tick
  PROVE  IInv'
  <1> DEFINE now == Plus(rt_tick, 1)
  <1>1. /\ ~checking /\ checking' = TRUE /\ rt_tick' = now
        /\ list' = list /\ timer' = timer /\ pc' = pc
        /\ \A t \in Timers : pc[t] = "stamped" => timer[t].init_tick - left[t] < MaxPreempt
        /\ left' = [t \in Timers |->
                      IF t \in ToSet(list) \/ pc[t] = "stamped" THEN left[t] - 1 ELSE left[t]]
    BY DEF Tick, Listed
  <1>2. now \in Ticks
    BY HereFacts, Numbers, PlusType
  <1> HIDE DEF now
  <1>3. ASSUME NEW t \in Timers, -MaxPreempt <= left[t], left[t] + MaxPreempt < Half,
               timer[t].timeout_tick = Plus(rt_tick, left[t])
        PROVE  timer[t].timeout_tick = Plus(now, left[t] - 1)
    <2>1. left[t] \in Int /\ rt_tick \in Ticks
      BY HereFacts
    <2>2. Plus(Plus(rt_tick, 1), left[t] - 1) = Plus(rt_tick, left[t])
      BY <1>3, <2>1, NextTick
    <2>3. QED
      BY <1>3, <2>2 DEF now
  <1>4. /\ left' \in [Timers -> Int]
        /\ \A t \in Timers : left'[t] =
             IF t \in ToSet(list) \/ pc[t] = "stamped" THEN left[t] - 1 ELSE left[t]
    BY <1>1, HereFacts
  <1>5. Good(Here', now)
    <2>1. Here' \in States
      BY <1>1, <1>4, HereFacts DEF Here, States
    <2>2. Here'.list = list /\ Here'.left = left' /\ Here'.timer = timer
      BY <1>1 DEF Here
    <2>3. ASSUME NEW t \in ToSet(list) PROVE Shown(Here', now, t)
      <3>1. /\ InRange(left[t]) /\ timer[t].timeout_tick = Plus(rt_tick, left[t])
            /\ t \in Timers /\ left[t] \in Int
        BY HereFacts DEF Good, Shown
      <3>2. -MaxPreempt <= left[t]
        BY <1>1 DEF IInv, Prompt
      <3>3. timer[t].timeout_tick = Plus(now, left[t] - 1) /\ left'[t] = left[t] - 1
        BY <1>3, <1>4, <3>1, <3>2 DEF InRange
      <3>4. InRange(left'[t])
        BY <3>1, <3>2, <3>3, Numbers DEF InRange
      <3>5. QED
        BY <2>2, <3>3, <3>4 DEF Shown
    <2>4. SortedBy(list, left')
      <3>1. ASSUME NEW i \in 1..Len(list), NEW j \in 1..Len(list), i < j
            PROVE  left'[list[i]] <= left'[list[j]]
        <4>1. /\ list[i] \in ToSet(list) /\ list[j] \in ToSet(list)
              /\ list[i] \in Timers /\ list[j] \in Timers
          BY HereFacts, SeqFacts
        <4>2. left[list[i]] <= left[list[j]]
          BY <3>1, HereFacts DEF SortedBy
        <4>3. left[list[i]] \in Int /\ left[list[j]] \in Int
          BY <4>1, HereFacts
        <4>4. left'[list[i]] = left[list[i]] - 1 /\ left'[list[j]] = left[list[j]] - 1
          BY <4>1, <1>4
        <4>5. QED
          BY <4>2, <4>3, <4>4
      <3>2. QED
        BY <3>1 DEF SortedBy
    <2>5. QED
      BY <2>1, <2>2, <2>3, <2>4 DEF Good
  <1>6. Stamps'
    <2>1. ASSUME NEW t \in Timers, pc[t] = "stamped"
          PROVE  Stamp(t)'
      <3>1. Stamp(t) /\ timer[t].init_tick - left[t] < MaxPreempt
        BY <1>1, <2>1 DEF IInv, Stamps
      <3>2. /\ left[t] \in Int /\ timer[t].init_tick \in Nat
            /\ timer[t].init_tick + MaxPreempt < Half
        BY HereFacts
      <3>3. -MaxPreempt <= left[t] /\ left[t] + MaxPreempt < Half
        BY <3>1, <3>2, Numbers DEF Stamp
      <3>4. timer[t].timeout_tick = Plus(now, left[t] - 1) /\ left'[t] = left[t] - 1
        BY <1>3, <1>4, <2>1, <3>1, <3>3 DEF Stamp
      <3>5. left'[t] <= timer[t].init_tick /\ timer[t].init_tick - left'[t] <= MaxPreempt
        BY <3>1, <3>2, <3>4, Numbers DEF Stamp
      <3>6. QED
        BY <1>1, <3>4, <3>5 DEF Stamp
    <2>2. QED
      BY <1>1, <2>1 DEF Stamps
  <1>7. TypeOK' /\ Alone' /\ Prompt'
    BY <1>1, <1>2 DEF IInv, TypeOK, Alone, Prompt
  <1>8. Good(Here, rt_tick)'
    BY <1>1, <1>5
  <1>9. QED
    BY <1>6, <1>7, <1>8 DEF IInv

\* What a timer's callback leaves of the timers.
LEMMA BackDoes ==
  ASSUME NEW s, Good(s, rt_tick), rt_tick \in Ticks, NEW t \in Timers, t \notin ToSet(s.list),
         NEW r \in CalledBack(s, t)
  PROVE  /\ Good(r, rt_tick) /\ Elsewhere(s, r, t)
         /\ t \in ToSet(r.list) => r.left[t] = s.timer[t].init_tick
  <1>1. r = s \/ r = Removed(s, t) \/ r = Started(s, rt_tick, t)
    BY DEF CalledBack, Stopped
  <1>2. CASE r = s
    BY <1>2 DEF Elsewhere, Others
  <1>3. CASE r = Removed(s, t)
    BY <1>3, RemovedDoes
  <1>4. CASE r = Started(s, rt_tick, t)
    BY <1>4, StartedDoes
  <1>5. QED
    BY <1>1, <1>2, <1>3, <1>4

\* The timer that expires is due, and before all others; it waits again for its
\* whole delay or does not wait.
LEMMA Expires ==
  ASSUME IInv, Expire
  PROVE  LET t == Head(list)
         IN /\ Good(Here', rt_tick) /\ Others(Here, Here', t) /\ t \in ToSet(list) /\ t \in Timers
            /\ left[t] <= 0 /\ \A u \in ToSet(list) : left[t] <= left[u]
            /\ t \in ToSet(list') => left'[t] \in Delays
  <1> DEFINE t == Head(list)
             s0 == [Here EXCEPT !.list = Unlinked(Here.list, t), !.left[t] = 0]
  <1>1. t \in ToSet(list) /\ t \in Timers /\ \A u \in ToSet(list) : left[t] <= left[u]
    BY HereFacts, HeadFirst DEF Expire
  <1>2. left[t] <= 0
    <2>1. InRange(left[t]) /\ timer[t].timeout_tick = Plus(rt_tick, left[t]) /\ left[t] \in Int
      BY <1>1, HereFacts DEF Good, Shown
    <2>2. Minus(rt_tick, Plus(rt_tick, left[t])) < Half
      BY <2>1 DEF Expire, Due, Half
    <2>3. QED
      BY <2>1, <2>2, DueWhenOver, HereFacts
  <1>3. PICK s \in CalledBack(s0, t) :
          Becomes(IF s.timer[t].periodic /\ s.timer[t].activated
                  THEN Started(s, rt_tick, t)
                  ELSE [s EXCEPT !.timer[t].activated = FALSE])
    BY HereFacts DEF Expire
  <1> HIDE DEF t
  <1>4. Good(s0, rt_tick) /\ Elsewhere(Here, s0, t) /\ t \notin ToSet(s0.list)
    BY <1>1, HereFacts, UnlinkedDoes
  <1> HIDE DEF s0
  <1>5. /\ Good(s, rt_tick) /\ Elsewhere(s0, s, t)
        /\ t \in ToSet(s.list) => s.left[t] = s0.timer[t].init_tick
    BY <1>1, <1>3, <1>4, BackDoes, HereFacts
  <1>6. s.timer[t].init_tick = timer[t].init_tick /\ s0.timer[t].init_tick = timer[t].init_tick
    BY <1>4, <1>5, HereFacts DEF Elsewhere
  <1>7. \E r : /\ Becomes(r) /\ Good(r, rt_tick) /\ Elsewhere(s, r, t)
               /\ t \in ToSet(r.list) => r.left[t] = timer[t].init_tick
    <2>1. CASE s.timer[t].periodic /\ s.timer[t].activated
      <3> DEFINE r == Started(s, rt_tick, t)
      <3>1. Becomes(r)
        BY <1>3, <2>1
      <3>2. Good(r, rt_tick) /\ Elsewhere(s, r, t) /\ r.left[t] = timer[t].init_tick
        BY <1>1, <1>5, <1>6, StartedDoes, HereFacts
      <3>3. QED
        BY <3>1, <3>2
    <2>2. CASE ~(s.timer[t].periodic /\ s.timer[t].activated)
      <3> DEFINE r == [s EXCEPT !.timer[t].activated = FALSE]
      <3>1. Becomes(r)
        BY <1>3, <2>2
      <3>2. Good(r, rt_tick) /\ Elsewhere(s, r, t) /\ r.list = s.list /\ r.left = s.left
        BY <1>1, <1>5, ClearedDoes, HereFacts
      <3> HIDE DEF r
      <3>3. QED
        BY <1>5, <1>6, <3>1, <3>2
    <2>3. QED
      BY <2>1, <2>2
  <1>8. PICK r : /\ Becomes(r) /\ Good(r, rt_tick) /\ Elsewhere(s, r, t)
                 /\ t \in ToSet(r.list) => r.left[t] = timer[t].init_tick
    BY <1>7
  <1>9. Here' = r /\ list' = r.list /\ left' = r.left
    BY <1>8, Became DEF Becomes, Good
  <1>10. Elsewhere(Here, r, t)
    BY <1>4, <1>5, <1>8, ElsewhereBoth
  <1>11. timer[t].init_tick \in Delays
    BY <1>1, HereFacts
  <1>12. QED
    BY <1>1, <1>2, <1>8, <1>9, <1>10, <1>11 DEF Elsewhere, t

LEMMA ExpireStep ==
  ASSUME IInv, Expire
  PROVE  IInv'
  <1> DEFINE t == Head(list)
  <1>1. t \in Timers /\ t \in ToSet(list) /\ Good(Here', rt_tick) /\ Others(Here, Here', t)
    BY Expires
  <1>2. checking /\ rt_tick' = rt_tick /\ pc' = pc /\ checking' = checking
    BY DEF Expire
  <1> HIDE DEF t
  <1>3. pc[t] \in PCs /\ pc[t] \notin Away /\ pc = [pc EXCEPT ![t] = pc[t]]
    BY <1>1, HereFacts DEF IInv, Alone
  <1>4. pc[t] # "stamped"
    BY <1>3 DEF Away
  <1>5. QED
    BY <1>1, <1>2, <1>3, <1>4, ThreadKeeps

\* When the check ends no timer is due.
LEMMA NoneDue ==
  ASSUME IInv, CheckEnd
  PROVE  \A t \in ToSet(list) : left[t] > 0
  <1>1. CASE list = <<>>
    BY <1>1, HereFacts, SeqFacts
  <1>2. CASE list # <<>>
    <2> DEFINE h == Head(list)
    <2>1. /\ h \in ToSet(list) /\ h \in Timers /\ left[h] \in Int
          /\ \A u \in ToSet(list) : left[h] <= left[u] /\ left[u] \in Int
      BY <1>2, HereFacts, HeadFirst
    <2>2. InRange(left[h]) /\ timer[h].timeout_tick = Plus(rt_tick, left[h])
      BY <2>1, HereFacts DEF Good, Shown
    <2>3. ~(Minus(rt_tick, Plus(rt_tick, left[h])) < Half)
      BY <1>2, <2>2 DEF CheckEnd, Due, Half
    <2> HIDE DEF h
    <2>4. ~(left[h] <= 0)
      BY <2>1, <2>2, <2>3, DueWhenOver, HereFacts
    <2>5. QED
      BY <2>1, <2>4
  <1>3. QED
    BY <1>1, <1>2

LEMMA CheckEndStep ==
  ASSUME IInv, CheckEnd
  PROVE  IInv'
  <1>1. /\ checking' = FALSE /\ rt_tick' = rt_tick /\ pc' = pc
        /\ list' = list /\ timer' = timer /\ left' = left
    BY DEF CheckEnd
  <1>2. \A t \in ToSet(list) : left[t] > 0 /\ left[t] \in Int
    BY NoneDue, HereFacts
  <1>3. Prompt'
    BY <1>1, <1>2, Numbers DEF Prompt
  <1>4. Good(Here, rt_tick)'
    BY <1>1 DEF IInv, Here
  <1>5. (TypeOK /\ Alone /\ Stamps)'
    BY <1>1 DEF IInv, TypeOK, Alone, Stamps, Stamp
  <1>6. QED
    BY <1>3, <1>4, <1>5 DEF IInv
----------------------------------------------------------------------------
\* When no thread makes a call and no timer waits nothing is wrong.
LEMMA Starts ==
  ASSUME Init
  PROVE  IInv
  <1>1. /\ rt_tick = 0 /\ list = <<>> /\ checking = FALSE
        /\ pc = [t \in Timers |-> "idle"] /\ left = [t \in Timers |-> 0]
        /\ timer \in [Timers -> { Fresh(d, FALSE) : d \in Delays }]
    BY DEF Init
  <1>2. list \in Seq(Timers) /\ Len(list) = 0 /\ ToSet(list) = {}
    BY <1>1 DEF ToSet
  <1>3. list \in Lists
    BY <1>2, SeqFacts DEF Lists
  <1>4. \A d \in Delays : Fresh(d, FALSE) \in TimerType
    BY Numbers DEF Fresh, TimerType, Ticks
  <1>5. timer \in [Timers -> TimerType]
    <2>1. \A t \in Timers : timer[t] \in TimerType
      BY <1>1, <1>4
    <2>2. QED
      BY <1>1, <2>1
  <1>6. left \in [Timers -> Int]
    BY <1>1
  <1>7. Here \in States
    BY <1>3, <1>5, <1>6 DEF Here, States
  <1>8. SortedBy(list, left)
    BY <1>2 DEF SortedBy
  <1>9. Good(Here, rt_tick)
    BY <1>2, <1>7, <1>8 DEF Good, Here
  <1>10. TypeOK
    <2>1. rt_tick \in Ticks
      BY <1>1, Numbers DEF Ticks
    <2>2. pc \in [Timers -> PCs]
      BY <1>1 DEF PCs
    <2>3. QED
      BY <1>1, <2>1, <2>2 DEF TypeOK
  <1>11. Alone /\ Stamps /\ Prompt
    BY <1>1, <1>2 DEF Alone, Stamps, Prompt
  <1>12. QED
    BY <1>9, <1>10, <1>11 DEF IInv

LEMMA Steps ==
  ASSUME IInv, [Next]_vars
  PROVE  IInv'
  <1>1. CASE Tick
    BY <1>1, TickStep
  <1>2. CASE Expire
    BY <1>2, ExpireStep
  <1>3. CASE CheckEnd
    BY <1>3, CheckEndStep
  <1>4. ASSUME NEW t \in Timers, Thread(t) PROVE IInv'
    BY <1>4, ThreadStep
  <1>5. CASE UNCHANGED vars
    BY <1>5 DEF vars, IInv, TypeOK, Alone, Stamps, Stamp, Prompt, Here
  <1>6. QED
    BY <1>1, <1>2, <1>3, <1>4, <1>5 DEF Next, Isr

\* The inductive invariant: what waits shows the ticks that are left for it, and
\* waits in their order, at every step of every call and of every check.
THEOREM Invariance == Spec => []IInv
  <1>1. Init => IInv
    BY Starts
  <1>2. IInv /\ [Next]_vars => IInv'
    BY Steps
  <1>3. QED
    BY <1>1, <1>2, PTL DEF Spec

\* The list of timers is sorted by the ticks really left, whatever the number of
\* timers, their delays and the ticks before the tick value wraps.
THEOREM Sorted == Spec => []SortedByDue
  <1>1. IInv => SortedByDue
    BY HereFacts DEF SortedBy, SortedByDue
  <1>2. QED
    BY <1>1, Invariance, PTL
----------------------------------------------------------------------------
\* The ticks left as Countdowns counts them.
Shows == [t \in Timers |-> IF t \in ToSet(list) THEN left[t] ELSE 0]

LEMMA ShowsStay ==
  ASSUME ToSet(list') = ToSet(list), checking' = checking,
         \A t \in ToSet(list) : left'[t] = left[t]
  PROVE  UNCHANGED Promise!vars
  BY DEF Promise!vars, Listed

\* A call for one timer changes the countdown of that timer only.
LEMMA ShowsOne ==
  ASSUME NEW t \in Timers, Others(Here, Here', t)
  PROVE  Shows' = [Shows EXCEPT ![t] = IF t \in ToSet(list') THEN left'[t] ELSE 0]
  <1>1. /\ \A u \in Timers \ {t} : left'[u] = left[u]
        /\ \A u \in Timers \ {t} : u \in ToSet(list') <=> u \in ToSet(list)
    BY DEF Others, Here
  <1>2. QED
    BY <1>1 DEF Shows

LEMMA StepsOfCountdowns ==
  ASSUME IInv, [Next]_vars
  PROVE  [Promise!Next]_Promise!vars
  <1>0. ToSet(list) \subseteq Timers /\ left \in [Timers -> Int]
    BY HereFacts
  <1>1. CASE Tick
    <2>1. /\ ~checking /\ checking' = TRUE /\ list' = list
          /\ left' = [t \in Timers |->
                        IF t \in ToSet(list) \/ pc[t] = "stamped" THEN left[t] - 1 ELSE left[t]]
      BY <1>1 DEF Tick, Listed
    <2>2. Shows' = [t \in Timers |-> IF t \in ToSet(list) THEN Shows[t] - 1 ELSE Shows[t]]
      BY <2>1 DEF Shows
    <2>3. Promise!Elapse
      BY <2>1, <2>2 DEF Promise!Elapse, Shows, Listed
    <2>4. QED
      BY <2>3 DEF Promise!Next
  <1>2. CASE Expire
    <2>1. PICK t \in Timers :
            /\ Others(Here, Here', t) /\ t \in ToSet(list)
            /\ left[t] <= 0 /\ \A u \in ToSet(list) : left[t] <= left[u]
            /\ t \in ToSet(list') => left'[t] \in Delays
      BY <1>2, Expires
    <2>2. checking /\ checking' = checking
      BY <1>2 DEF Expire
    <2>3. Shows' = [Shows EXCEPT ![t] = IF t \in ToSet(list') THEN left'[t] ELSE 0]
      BY <2>1, ShowsOne
    <2>4. Shows[t] <= 0 /\ \A u \in ToSet(list) : Shows[t] <= Shows[u]
      BY <1>0, <2>1 DEF Shows
    <2>5. ToSet(list') \ {t} = ToSet(list) \ {t}
      BY <2>1 DEF Others, Here
    <2>6. \/ ToSet(list') = ToSet(list) \ {t} /\ Shows' = [Shows EXCEPT ![t] = 0]
          \/ ToSet(list') = ToSet(list) /\ \E d \in Delays : Shows' = [Shows EXCEPT ![t] = d]
      <3>1. CASE t \in ToSet(list')
        <4>1. ToSet(list') = ToSet(list)
          BY <2>1, <2>5, <3>1
        <4>2. QED
          BY <2>1, <2>3, <3>1, <4>1
      <3>2. CASE t \notin ToSet(list')
        <4>1. ToSet(list') = ToSet(list) \ {t}
          BY <2>5, <3>2
        <4>2. QED
          BY <2>3, <3>2, <4>1
      <3>3. QED
        BY <3>1, <3>2
    <2>7. Promise!Expire(t)
      BY <2>1, <2>2, <2>4, <2>6 DEF Promise!Expire, Shows, Listed
    <2>8. QED
      BY <2>1, <2>7 DEF Promise!Next
  <1>3. CASE CheckEnd
    <2>1. /\ checking /\ checking' = FALSE /\ list' = list /\ left' = left
      BY <1>3 DEF CheckEnd
    <2>2. \A t \in ToSet(list) : Shows[t] > 0
      BY <1>0, <1>3, NoneDue DEF Shows
    <2>3. Promise!Settle
      BY <2>1, <2>2 DEF Promise!Settle, Shows, Listed
    <2>4. QED
      BY <2>3 DEF Promise!Next
  <1>4. ASSUME NEW t \in Timers, Thread(t) PROVE [Promise!Next]_Promise!vars
    <2>1. ~checking /\ checking' = checking
      BY <1>4 DEF Thread
    <2>2. CASE StartRemove(t) \/ StopRemove(t) \/ Detach(t)
      <3>1. Others(Here, Here', t) /\ t \notin ToSet(list')
        BY <2>2, Leaving
      <3>2. ToSet(list') \ {t} = ToSet(list) \ {t}
        BY <3>1 DEF Others, Here
      <3>3. ToSet(list') = ToSet(list) \ {t}
        BY <3>1, <3>2
      <3>4. Shows' = [Shows EXCEPT ![t] = 0]
        BY <3>1, ShowsOne
      <3>5. CASE t \in ToSet(list)
        <4>1. Promise!Stop(t)
          BY <2>1, <3>3, <3>4, <3>5 DEF Promise!Stop, Shows, Listed
        <4>2. QED
          BY <4>1 DEF Promise!Next
      <3>6. CASE t \notin ToSet(list)
        <4>1. ToSet(list') = ToSet(list)
          BY <3>3, <3>6
        <4>2. \A u \in ToSet(list) : left'[u] = left[u]
          BY <1>0, <3>1, <3>6 DEF Others, Here
        <4>3. QED
          BY <2>1, <4>1, <4>2, ShowsStay
      <3>7. QED
        BY <3>5, <3>6
    <2>3. CASE StartInsert(t)
      <3>1. /\ Others(Here, Here', t) /\ left' = left /\ t \notin ToSet(list)
            /\ ToSet(list') = ToSet(list) \union {t} /\ Stamp(t)
        BY <2>3, Entering
      <3>2. timer[t].init_tick \in Delays /\ timer[t].init_tick \in Nat /\ left[t] \in Int
        BY HereFacts
      <3>3. Shows' = [Shows EXCEPT ![t] = left[t]]
        BY <3>1, ShowsOne
      <3>4. \E d \in Delays, late \in 0..MaxPreempt : Shows' = [Shows EXCEPT ![t] = d - late]
        <4> DEFINE d == timer[t].init_tick
                   late == d - left[t]
        <4>1. d \in Delays /\ late \in 0..MaxPreempt /\ d - late = left[t]
          BY <3>1, <3>2, Numbers DEF Stamp
        <4> HIDE DEF d, late
        <4>2. Shows' = [Shows EXCEPT ![t] = d - late]
          BY <3>3, <4>1
        <4>3. QED
          BY <4>1, <4>2
      <3>5. Promise!Start(t)
        BY <2>1, <3>1, <3>4 DEF Promise!Start, Shows, Listed
      <3>6. QED
        BY <3>5 DEF Promise!Next
    <2>4. CASE StartStamp(t) \/ StopBegin(t) \/ StopFlag(t) \/ Control(t) \/ InitTimer(t)
      <3>1. /\ Others(Here, Here', t) /\ list' = list
            /\ t \in ToSet(list) => left'[t] = left[t]
        BY <2>4, Staying
      <3>2. \A u \in ToSet(list) : left'[u] = left[u]
        BY <1>0, <3>1 DEF Others, Here
      <3>3. QED
        BY <2>1, <3>1, <3>2, ShowsStay
    <2>5. QED
      BY <1>4, <2>2, <2>3, <2>4 DEF Thread
  <1>5. CASE UNCHANGED vars
    BY <1>5, ShowsStay DEF vars
  <1>6. QED
    BY <1>1, <1>2, <1>3, <1>4, <1>5 DEF Next, Isr

\* The kernel's timers are the countdowns they promise to be.
THEOREM Refinement == Spec => ImplementsCountdowns
  <1>1. Init => Promise!Init
    <2>1. ASSUME Init PROVE Promise!Init
      <3>1. list = <<>> /\ checking = FALSE /\ ToSet(list) = {}
        BY <2>1 DEF Init, ToSet
      <3>2. QED
        BY <3>1 DEF Promise!Init, Listed
    <2>2. QED
      BY <2>1
  <1>2. IInv /\ [Next]_vars => [Promise!Next]_Promise!vars
    BY StepsOfCountdowns
  <1>3. QED
    BY <1>1, <1>2, Invariance, PTL DEF Spec, Promise!Spec, ImplementsCountdowns
=============================================================================
