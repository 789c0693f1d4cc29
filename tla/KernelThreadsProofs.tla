------------------------- MODULE KernelThreadsProofs -------------------------
(***************************************************************************)
(* Theorems about KernelThreads for every set of threads and priorities,     *)
(* every number of tokens, wait and nesting.  The argument: each operation   *)
(* of the kernel leaves it tidy, every thread in exactly the lists its state *)
(* says; and where a thread is in its call tells what it may wait for and    *)
(* what it has been given.  First lists of threads, then what each operation *)
(* leaves of the kernel, then the invariant, then each step.                 *)
(***************************************************************************)
EXTENDS KernelThreads, WellFoundedInduction, FiniteSetTheorems, SequenceTheorems, TLAPS

\* A set of numbers that has a member has a least one.
LEMMA Smallest ==
  ASSUME NEW S \in SUBSET Nat, S # {}
  PROVE  \E x \in S : \A y \in S : x <= y
  <1>1. PICK x \in S : \A y \in S : <<y, x>> \notin OpToRel(<, Nat)
    BY NatLessThanWellFounded, WFMin
  <1>2. ASSUME NEW y \in S PROVE x <= y
    <2>1. y < x => <<y, x>> \in OpToRel(<, Nat)
      BY Zenon DEF OpToRel
    <2>2. ~(y < x)
      BY <1>1, <2>1
    <2>3. QED
      BY <2>2
  <1>3. QED
    BY <1>2
----------------------------------------------------------------------------
\* Sequences of threads, each in them once.
Lists == { s \in Seq(Threads) : IsInjective(s) }

\* f does not decrease along s.
SortedBy(s, f) == \A i, j \in 1..Len(s) : i < j => f[s[i]] <= f[s[j]]

\* What is used of a sequence of threads and of the set of its members.
LEMMA SeqFacts ==
  ASSUME NEW s \in Seq(Threads)
  PROVE  /\ Len(s) \in Nat /\ DOMAIN s = 1..Len(s)
         /\ \A i \in 1..Len(s) : s[i] \in Threads
         /\ ToSet(s) = { s[i] : i \in 1..Len(s) } /\ ToSet(s) \subseteq Threads
         /\ \A u : u \in ToSet(s) <=> \E i \in 1..Len(s) : u = s[i]
         /\ s = <<>> <=> ToSet(s) = {}
         /\ s # <<>> => Head(s) = s[1] /\ Head(s) \in ToSet(s)
         /\ IsInjective(s) <=> \A i, j \in 1..Len(s) : s[i] = s[j] => i = j
  <1>1. Len(s) \in Nat /\ DOMAIN s = 1..Len(s) /\ \A i \in 1..Len(s) : s[i] \in Threads
    OBVIOUS
  <1>2. ToSet(s) = { s[i] : i \in 1..Len(s) } /\ ToSet(s) \subseteq Threads
    BY <1>1 DEF ToSet
  <1>3. s = <<>> <=> ToSet(s) = {}
    <2>1. s = <<>> <=> Len(s) = 0
      BY EmptySeq
    <2>2. Len(s) # 0 => 1 \in 1..Len(s)
      BY <1>1
    <2>3. QED
      BY <1>1, <1>2, <2>1, <2>2
  <1>4. s # <<>> => Head(s) = s[1] /\ Head(s) \in ToSet(s)
    <2>1. s # <<>> => 1 \in 1..Len(s)
      BY <1>1, EmptySeq
    <2>2. QED
      BY <1>2, <2>1
  <1>5. IsInjective(s) <=> \A i, j \in 1..Len(s) : s[i] = s[j] => i = j
    BY <1>1 DEF IsInjective
  <1>6. QED
    BY <1>1, <1>2, <1>3, <1>4, <1>5

\* The elements of e are those of s at increasing places.
LEMMA Thinned ==
  ASSUME NEW s \in Lists, NEW e \in Seq(Threads), NEW m,
         \A i \in 1..Len(e) : m[i] \in 1..Len(s) /\ e[i] = s[m[i]],
         \A i, j \in 1..Len(e) : i < j => m[i] < m[j]
  PROVE  /\ e \in Lists
         /\ \A f \in [Threads -> Nat] : SortedBy(s, f) => SortedBy(e, f)
  <1> s \in Seq(Threads)
    BY DEF Lists
  <1>1. \A i, j \in 1..Len(s) : s[i] = s[j] => i = j
    BY SeqFacts DEF Lists
  <1>2. Len(e) \in Nat
    OBVIOUS
  <1>3. ASSUME NEW i \in 1..Len(e), NEW j \in 1..Len(e), e[i] = e[j] PROVE i = j
    <2>1. m[i] = m[j]
      BY <1>1, <1>3
    <2>2. ~(i < j) /\ ~(j < i)
      BY <2>1, SeqFacts
    <2>3. QED
      BY <1>2, <2>2
  <1>4. ASSUME NEW f \in [Threads -> Nat], SortedBy(s, f),
               NEW i \in 1..Len(e), NEW j \in 1..Len(e), i < j
        PROVE  f[e[i]] <= f[e[j]]
    <2>1. m[i] \in 1..Len(s) /\ m[j] \in 1..Len(s) /\ m[i] < m[j]
      BY <1>4
    <2>2. f[s[m[i]]] <= f[s[m[j]]]
      BY <1>4, <2>1 DEF SortedBy
    <2>3. QED
      BY <2>2
  <1>5. e \in Lists
    BY <1>3, SeqFacts DEF Lists
  <1>6. QED
    BY <1>4, <1>5 DEF SortedBy

\* RemoveFirst takes t out of a list, and keeps the order of the others.
LEMMA Removed ==
  ASSUME NEW s \in Lists, NEW t
  PROVE  /\ RemoveFirst(s, t) \in Lists
         /\ ToSet(RemoveFirst(s, t)) = ToSet(s) \ {t}
         /\ \A f \in [Threads -> Nat] : SortedBy(s, f) => SortedBy(RemoveFirst(s, t), f)
  <1> DEFINE I == { i \in 1..Len(s) : s[i] = t }
             at == Min(I)
             e == RemoveFirst(s, t)
  <1> s \in Seq(Threads)
    BY DEF Lists
  <1>1. CASE I = {}
    <2>1. RemoveFirst(s, t) = s
      BY <1>1 DEF RemoveFirst
    <2>2. t \notin ToSet(s)
      BY <1>1, SeqFacts
    <2>3. QED
      BY <2>1, <2>2
  <1>2. CASE I # {}
    <2>1. at \in I
      <3>1. \E x \in I : \A y \in I : x <= y
        <4>1. I \in SUBSET Nat
          BY SeqFacts
        <4>2. QED
          BY <1>2, <4>1, Smallest
      <3>2. QED
        BY <3>1 DEF Min
    <2>2. e = SubSeq(s, 1, at - 1) \o SubSeq(s, at + 1, Len(s))
      <3>1. e = RemoveAt(s, at)
        BY <1>2 DEF RemoveFirst, SelectInSeq
      <3>2. QED
        BY <3>1 DEF RemoveAt
    <2> HIDE DEF at, e
    <2>3. at \in 1..Len(s) /\ s[at] = t /\ Len(s) \in Nat
      BY <2>1, SeqFacts
    <2>4. /\ e \in Seq(Threads) /\ Len(e) = Len(s) - 1
          /\ \A i \in 1..Len(e) : e[i] = s[IF i < at THEN i ELSE i + 1]
      <3> DEFINE l == SubSeq(s, 1, at - 1)
                 r == SubSeq(s, at + 1, Len(s))
      <3>1. l \in Seq(Threads) /\ Len(l) = at - 1 /\ \A i \in 1..(at - 1) : l[i] = s[i]
        BY <2>3
      <3>2. /\ r \in Seq(Threads) /\ Len(r) = Len(s) - at
            /\ \A i \in 1..(Len(s) - at) : r[i] = s[at + i]
        BY <2>3
      <3>3. e = l \o r
        BY <2>2
      <3> HIDE DEF l, r
      <3>4. /\ e \in Seq(Threads) /\ Len(e) = Len(l) + Len(r)
            /\ \A i \in 1..Len(e) : e[i] = IF i <= Len(l) THEN l[i] ELSE r[i - Len(l)]
        BY <3>1, <3>2, <3>3, ConcatProperties
      <3>5. ASSUME NEW i \in 1..Len(e) PROVE e[i] = s[IF i < at THEN i ELSE i + 1]
        <4>1. CASE i < at
          BY <4>1, <2>3, <3>1, <3>2, <3>4
        <4>2. CASE i >= at
          <5>1. i - Len(l) \in 1..(Len(s) - at) /\ at + (i - Len(l)) = i + 1
            BY <4>2, <2>3, <3>1, <3>2, <3>4
          <5>2. ~(i <= Len(l))
            BY <4>2, <2>3, <3>1
          <5>3. e[i] = r[i - Len(l)]
            BY <5>2, <3>4
          <5>4. r[i - Len(l)] = s[at + (i - Len(l))]
            BY <5>1, <3>2
          <5>5. ~(i < at)
            BY <4>2, <2>3
          <5>6. QED
            BY <5>1, <5>3, <5>4, <5>5
        <4>3. QED
          BY <2>3, <4>1, <4>2
      <3>6. QED
        BY <2>3, <3>1, <3>2, <3>4, <3>5
    <2> DEFINE m == [i \in 1..Len(e) |-> IF i < at THEN i ELSE i + 1]
    <2>5. /\ \A i \in 1..Len(e) : m[i] \in 1..Len(s) /\ e[i] = s[m[i]]
          /\ \A i, j \in 1..Len(e) : i < j => m[i] < m[j]
      BY <2>3, <2>4
    <2>6. e \in Lists /\ \A f \in [Threads -> Nat] : SortedBy(s, f) => SortedBy(e, f)
      BY <2>4, <2>5, Thinned
    <2>7. ToSet(e) = ToSet(s) \ {t}
      <3>1. ASSUME NEW u \in ToSet(e) PROVE u \in ToSet(s) \ {t}
        <4>1. PICK i \in 1..Len(e) : u = e[i]
          BY <2>4, SeqFacts
        <4>2. m[i] # at /\ m[i] \in 1..Len(s) /\ u = s[m[i]]
          BY <2>3, <2>4, <2>5, <4>1
        <4>3. QED
          BY <2>3, <4>2, SeqFacts DEF Lists
      <3>2. ASSUME NEW u \in ToSet(s) \ {t} PROVE u \in ToSet(e)
        <4>1. PICK i \in 1..Len(s) : u = s[i]
          BY SeqFacts
        <4>2. i # at
          BY <2>3, <4>1
        <4>3. \E j \in 1..Len(e) : e[j] = s[i]
          <5>1. CASE i < at
            BY <5>1, <2>3, <2>4
          <5>2. CASE i > at
            <6>1. i - 1 \in 1..Len(e) /\ e[i - 1] = s[i]
              BY <5>2, <2>3, <2>4
            <6>2. QED
              BY <6>1
          <5>3. QED
            BY <4>2, <5>1, <5>2, <2>3
        <4>4. QED
          BY <4>1, <4>3, <2>4, SeqFacts
      <3>3. QED
        BY <3>1, <3>2
    <2>8. QED
      BY <2>6, <2>7 DEF e
  <1>3. QED
    BY <1>1, <1>2

\* A list grows by a thread that is not in it.
LEMMA Appended ==
  ASSUME NEW s \in Lists, NEW t \in Threads, t \notin ToSet(s)
  PROVE  Append(s, t) \in Lists /\ ToSet(Append(s, t)) = ToSet(s) \union {t}
  <1> DEFINE e == Append(s, t)
  <1> s \in Seq(Threads)
    BY DEF Lists
  <1>1. /\ e \in Seq(Threads) /\ Len(e) = Len(s) + 1 /\ Len(s) \in Nat
        /\ \A i \in 1..Len(e) : e[i] = IF i <= Len(s) THEN s[i] ELSE t
    OBVIOUS
  <1> HIDE DEF e
  <1>2. \A i \in 1..Len(s) : s[i] # t
    BY SeqFacts
  <1>3. \A i, j \in 1..Len(e) : e[i] = e[j] => i = j
    BY <1>1, <1>2, SeqFacts DEF Lists
  <1>4. ToSet(e) = ToSet(s) \union {t}
    <2>1. e[Len(s) + 1] = t /\ Len(s) + 1 \in 1..Len(e)
      BY <1>1
    <2>2. ToSet(s) \subseteq ToSet(e)
      BY <1>1, SeqFacts
    <2>3. ToSet(e) \subseteq ToSet(s) \union {t}
      BY <1>1, SeqFacts
    <2>4. t \in ToSet(e)
      BY <1>1, <2>1, SeqFacts
    <2>5. QED
      BY <2>2, <2>3, <2>4
  <1>5. QED
    BY <1>1, <1>3, <1>4, SeqFacts DEF e, Lists

\* So does it where the thread is put in at a place.
LEMMA Inserted ==
  ASSUME NEW s \in Lists, NEW t \in Threads, t \notin ToSet(s), NEW at \in 1..(Len(s) + 1)
  PROVE  /\ InsertAt(s, at, t) \in Lists /\ ToSet(InsertAt(s, at, t)) = ToSet(s) \union {t}
         /\ Len(InsertAt(s, at, t)) = Len(s) + 1
         /\ \A i \in 1..(Len(s) + 1) : InsertAt(s, at, t)[i] =
              IF i < at THEN s[i] ELSE IF i = at THEN t ELSE s[i - 1]
  <1> DEFINE e == InsertAt(s, at, t)
             l == SubSeq(s, 1, at - 1)
             r == SubSeq(s, at, Len(s))
             x == <<t>>
             y == l \o x
  <1> s \in Seq(Threads)
    BY DEF Lists
  <1>1. l \in Seq(Threads) /\ Len(l) = at - 1 /\ \A i \in 1..(at - 1) : l[i] = s[i]
    OBVIOUS
  <1>2. /\ r \in Seq(Threads) /\ Len(r) = Len(s) + 1 - at
        /\ \A i \in 1..(Len(s) + 1 - at) : r[i] = s[at + i - 1]
    OBVIOUS
  <1>3. x \in Seq(Threads) /\ Len(x) = 1 /\ x[1] = t
    OBVIOUS
  <1>4. e = y \o r
    BY DEF InsertAt
  <1>5. Len(s) \in Nat /\ at \in Nat
    OBVIOUS
  <1> HIDE DEF e, l, r, x
  <1>6. y \in Seq(Threads) /\ Len(y) = at /\ \A i \in 1..at : y[i] = IF i < at THEN s[i] ELSE t
    <2>1. /\ y \in Seq(Threads) /\ Len(y) = Len(l) + Len(x)
          /\ \A i \in 1..(Len(l) + Len(x)) : y[i] = IF i <= Len(l) THEN l[i] ELSE x[i - Len(l)]
      BY <1>1, <1>3, ConcatProperties
    <2>2. QED
      BY <2>1, <1>1, <1>3, <1>5
  <1> HIDE DEF y
  <1>7. /\ e \in Seq(Threads) /\ Len(e) = Len(s) + 1
        /\ \A i \in 1..(Len(s) + 1) : e[i] = IF i <= at THEN y[i] ELSE r[i - at]
    <2>1. /\ e \in Seq(Threads) /\ Len(e) = Len(y) + Len(r)
          /\ \A i \in 1..(Len(y) + Len(r)) : e[i] = IF i <= Len(y) THEN y[i] ELSE r[i - Len(y)]
      BY <1>2, <1>4, <1>6, ConcatProperties
    <2>2. QED
      BY <2>1, <1>2, <1>5, <1>6
  <1>8. ASSUME NEW i \in 1..(Len(s) + 1)
        PROVE  e[i] = IF i < at THEN s[i] ELSE IF i = at THEN t ELSE s[i - 1]
    <2>1. CASE i <= at
      BY <2>1, <1>5, <1>6, <1>7
    <2>2. CASE i > at
      <3>1. i - at \in 1..(Len(s) + 1 - at) /\ at + (i - at) - 1 = i - 1
        BY <2>2, <1>5
      <3>2. QED
        BY <2>2, <3>1, <1>2, <1>5, <1>7
    <2>3. QED
      BY <2>1, <2>2, <1>5
  <1>9. \A i \in 1..Len(s) : s[i] # t
    BY SeqFacts
  <1>10. e \in Lists
    <2>1. \A i, j \in 1..Len(s) : s[i] = s[j] => i = j
      BY SeqFacts DEF Lists
    <2>2. ASSUME NEW i \in 1..(Len(s) + 1), NEW j \in 1..(Len(s) + 1), e[i] = e[j] PROVE i = j
      <3> DEFINE o(n) == IF n < at THEN n ELSE n - 1
      <3>1. \A n \in 1..(Len(s) + 1) : n # at => o(n) \in 1..Len(s) /\ e[n] = s[o(n)]
        BY <1>5, <1>8
      <3>2. e[at] = t
        BY <1>5, <1>8
      <3>3. CASE i = at \/ j = at
        BY <3>1, <3>2, <3>3, <2>2, <1>9
      <3>4. CASE i # at /\ j # at
        <4>1. o(i) = o(j)
          BY <3>1, <3>4, <2>1, <2>2
        <4>2. QED
          BY <3>4, <4>1, <1>5
      <3>5. QED
        BY <3>3, <3>4
    <2>3. QED
      BY <2>2, <1>7, SeqFacts DEF Lists
  <1>11. ToSet(e) = ToSet(s) \union {t}
    <2>1. t \in ToSet(e)
      BY <1>5, <1>7, <1>8, SeqFacts
    <2>2. ToSet(e) \subseteq ToSet(s) \union {t}
      <3>1. \A i \in 1..(Len(s) + 1) : i = at \/ (i < at /\ i \in 1..Len(s))
                                     \/ (i > at /\ i - 1 \in 1..Len(s))
        BY <1>5
      <3>2. QED
        BY <3>1, <1>5, <1>7, <1>8, SeqFacts
    <2>3. ASSUME NEW i \in 1..Len(s) PROVE s[i] \in ToSet(e)
      <3>1. CASE i < at
        BY <3>1, <1>5, <1>7, <1>8, SeqFacts
      <3>2. CASE i >= at
        <4>1. i + 1 \in 1..(Len(s) + 1) /\ e[i + 1] = s[i]
          BY <3>2, <1>5, <1>8
        <4>2. QED
          BY <4>1, <1>7, SeqFacts
      <3>3. QED
        BY <3>1, <3>2, <1>5
    <2>4. QED
      BY <2>1, <2>2, <2>3, SeqFacts
  <1>12. QED
    BY <1>7, <1>8, <1>10, <1>11 DEF e
----------------------------------------------------------------------------
SemType == [value : Nat, suspend_thread : Lists]

MutexType ==
  [ value : 0..1, owner : Threads \union {Nobody}, hold : Nat,
    original_priority : Priorities \union {NoPriority}, suspend_thread : Lists ]

Errors == {"ok", "timeout", "error"}

KernelType ==
  [ current : Threads, lock_nest : Nat, lowered : BOOLEAN, ready : [Priorities -> Lists],
    stat : [Threads -> {"ready", "suspended"}], prio : [Threads -> Priorities],
    error : [Threads -> Errors], timer : [Threads -> Nat \union {Off}],
    sem : SemType, mutex : MutexType ]

SemQ(k)   == ToSet(k.sem.suspend_thread)
MutexQ(k) == ToSet(k.mutex.suspend_thread)

\* Every thread is in its list, or every thread but t, which is in none.
Tidy(k) == k \in KernelType /\ \A u \in Threads : InOneList(k, u)

TidyBut(k, t) ==
  /\ k \in KernelType /\ \A u \in Threads \ {t} : InOneList(k, u)
  /\ \A p \in Priorities : t \notin ToSet(k.ready[p])
  /\ t \notin SemQ(k) /\ t \notin MutexQ(k)

\* The fields e shares with k: who runs, what the semaphore counts, who owns the mutex.
SameRun(k, e) == e.current = k.current /\ e.lock_nest = k.lock_nest /\ e.lowered = k.lowered

SameMutex(k, e) ==
  /\ e.mutex.value = k.mutex.value /\ e.mutex.owner = k.mutex.owner /\ e.mutex.hold = k.mutex.hold
  /\ e.mutex.original_priority = k.mutex.original_priority

SameObjects(k, e) == e.sem.value = k.sem.value /\ SameMutex(k, e)

\* The queues of e are those of k without t.
QueuesWithout(k, e, t) ==
  /\ SemQ(e) = SemQ(k) \ {t} /\ MutexQ(e) = MutexQ(k) \ {t}
  /\ \A f \in [Threads -> Nat] :
       SortedBy(k.mutex.suspend_thread, f) => SortedBy(e.mutex.suspend_thread, f)

\* What ThreadAssumption says, in the form the steps use.
LEMMA Numbers ==
  /\ Idle \in Threads /\ InitPriority \in [Threads -> Priorities] /\ Priorities \subseteq Nat
  /\ Nobody \notin Threads /\ IsFiniteSet(Threads) /\ Off \notin Nat /\ Off # 0
  /\ SemInit \in Nat /\ MaxTokens \in Nat /\ SemInit <= MaxTokens
  /\ Times \subseteq Nat \ {0}
  <1>1. /\ Idle \in Threads /\ InitPriority \in [Threads -> Nat]
        /\ \A t \in Threads \ {Idle} : InitPriority[t] < InitPriority[Idle]
    BY ThreadAssumption
  <1>2. InitPriority \in [Threads -> Priorities]
    <2>1. \A t \in Threads : InitPriority[t] \in Priorities
      BY <1>1 DEF Priorities
    <2>2. QED
      BY <1>1, <2>1
  <1>3. QED
    BY <1>1, <1>2, ThreadAssumption DEF Priorities, Nobody, Off

\* What taking a thread out of its list leaves of the kernel, field by field.
LEMMA UnlistedFields ==
  ASSUME NEW k \in KernelType, NEW t \in Threads, NEW e, e = Unlisted(k, t)
  PROVE  /\ e \in KernelType /\ SameRun(k, e) /\ SameObjects(k, e)
         /\ e.stat = k.stat /\ e.prio = k.prio /\ e.error = k.error /\ e.timer = k.timer
         /\ e.ready = [k.ready EXCEPT ![k.prio[t]] = RemoveFirst(@, t)]
         /\ e.sem.suspend_thread = RemoveFirst(k.sem.suspend_thread, t)
         /\ e.mutex.suspend_thread = RemoveFirst(k.mutex.suspend_thread, t)
  <1> DEFINE r == [k.ready EXCEPT ![k.prio[t]] = RemoveFirst(@, t)]
             s == [k.sem EXCEPT !.suspend_thread = RemoveFirst(@, t)]
             m == [k.mutex EXCEPT !.suspend_thread = RemoveFirst(@, t)]
  <1>1. e = [k EXCEPT !.ready = r, !.sem = s, !.mutex = m]
    BY DEF Unlisted, KernelType
  <1>2. r \in [Priorities -> Lists]
    BY Removed DEF KernelType
  <1>3. s \in SemType /\ s.value = k.sem.value /\ s.suspend_thread = RemoveFirst(k.sem.suspend_thread, t)
    BY Removed DEF KernelType, SemType
  <1>4. /\ m \in MutexType /\ m.suspend_thread = RemoveFirst(k.mutex.suspend_thread, t)
        /\ m.value = k.mutex.value /\ m.owner = k.mutex.owner /\ m.hold = k.mutex.hold
        /\ m.original_priority = k.mutex.original_priority
    BY Removed DEF KernelType, MutexType
  <1> HIDE DEF r, s, m
  <1>5. /\ e \in KernelType /\ e.ready = r /\ e.sem = s /\ e.mutex = m
        /\ e.stat = k.stat /\ e.prio = k.prio /\ e.error = k.error /\ e.timer = k.timer
        /\ e.current = k.current /\ e.lock_nest = k.lock_nest /\ e.lowered = k.lowered
    BY <1>1, <1>2, <1>3, <1>4 DEF KernelType
  <1>6. QED
    BY <1>3, <1>4, <1>5 DEF SameRun, SameObjects, SameMutex, r

\* Taken out of its list, t is in none, and every other thread where it was.
LEMMA UnlistedTidy ==
  ASSUME NEW k, NEW t \in Threads, Tidy(k), NEW e, e = Unlisted(k, t)
  PROVE  /\ TidyBut(e, t) /\ SameRun(k, e) /\ SameObjects(k, e) /\ QueuesWithout(k, e, t)
         /\ e.stat = k.stat /\ e.prio = k.prio /\ e.error = k.error /\ e.timer = k.timer
  <1>1. k \in KernelType /\ \A u \in Threads : InOneList(k, u)
    BY DEF Tidy
  <1>2. /\ e \in KernelType /\ SameRun(k, e) /\ SameObjects(k, e)
        /\ e.stat = k.stat /\ e.prio = k.prio /\ e.error = k.error /\ e.timer = k.timer
        /\ e.ready = [k.ready EXCEPT ![k.prio[t]] = RemoveFirst(@, t)]
        /\ e.sem.suspend_thread = RemoveFirst(k.sem.suspend_thread, t)
        /\ e.mutex.suspend_thread = RemoveFirst(k.mutex.suspend_thread, t)
    BY <1>1, UnlistedFields
  <1>3. QueuesWithout(k, e, t)
    <2>1. k.sem.suspend_thread \in Lists /\ k.mutex.suspend_thread \in Lists
      BY <1>1 DEF KernelType, SemType, MutexType
    <2>2. QED
      BY <1>2, <2>1, Removed DEF QueuesWithout, SemQ, MutexQ
  <1>4. \A p \in Priorities : ToSet(e.ready[p]) = ToSet(k.ready[p]) \ {t}
    <2>1. TAKE p \in Priorities
    <2>2. k.ready \in [Priorities -> Lists] /\ k.prio[t] \in Priorities
      BY <1>1 DEF KernelType
    <2>3. CASE p = k.prio[t]
      <3>1. e.ready[p] = RemoveFirst(k.ready[p], t)
        BY <1>2, <2>2, <2>3
      <3>2. QED
        BY <2>2, <3>1, Removed
    <2>4. CASE p # k.prio[t]
      <3>1. e.ready[p] = k.ready[p]
        BY <1>2, <2>2, <2>4
      <3>2. t \notin ToSet(k.ready[p])
        BY <1>1, <2>4 DEF InOneList
      <3>3. QED
        BY <3>1, <3>2
    <2>5. QED
      BY <2>3, <2>4
  <1>5. \A u \in Threads \ {t} : InOneList(e, u)
    BY <1>1, <1>2, <1>3, <1>4 DEF InOneList, QueuesWithout, Waiting, SemQ, MutexQ
  <1>6. QED
    BY <1>2, <1>3, <1>4, <1>5 DEF TidyBut, QueuesWithout

SameQueues(k, e) ==
  /\ SemQ(e) = SemQ(k) /\ MutexQ(e) = MutexQ(k)
  /\ \A f \in [Threads -> Nat] :
       SortedBy(k.mutex.suspend_thread, f) => SortedBy(e.mutex.suspend_thread, f)

\* A thread in no list whose timer is off becomes ready.
LEMMA InsertedTidy ==
  ASSUME NEW k, NEW t \in Threads, TidyBut(k, t), k.timer[t] = Off,
         NEW e, e = ScheduleInsert(k, t)
  PROVE  /\ Tidy(e) /\ SameRun(k, e) /\ e.sem = k.sem /\ e.mutex = k.mutex
         /\ e.stat = [k.stat EXCEPT ![t] = "ready"]
         /\ e.prio = k.prio /\ e.error = k.error /\ e.timer = k.timer
  <1> DEFINE st == [k.stat EXCEPT ![t] = "ready"]
             r == [k.ready EXCEPT ![k.prio[t]] = Append(@, t)]
  <1>1. k \in KernelType /\ k.prio[t] \in Priorities /\ k.ready \in [Priorities -> Lists]
    BY DEF TidyBut, KernelType
  <1>2. e = [k EXCEPT !.stat = st, !.ready = r]
    BY <1>1 DEF ScheduleInsert, KernelType
  <1>3. st \in [Threads -> {"ready", "suspended"}]
    BY <1>1 DEF KernelType
  <1>4. \A p \in Priorities :
          r[p] \in Lists /\ ToSet(r[p]) = ToSet(k.ready[p]) \union (IF p = k.prio[t] THEN {t} ELSE {})
    BY <1>1, Appended DEF TidyBut
  <1>5. r \in [Priorities -> Lists]
    BY <1>1, <1>4
  <1> HIDE DEF r
  <1>6. /\ e \in KernelType /\ e.ready = r /\ e.stat = st /\ e.sem = k.sem /\ e.mutex = k.mutex
        /\ e.prio = k.prio /\ e.error = k.error /\ e.timer = k.timer /\ SameRun(k, e)
    BY <1>1, <1>2, <1>3, <1>5 DEF KernelType, SameRun
  <1>7. ASSUME NEW u \in Threads \ {t} PROVE InOneList(e, u)
    <2>1. InOneList(k, u)
      BY DEF TidyBut
    <2>2. \A p \in Priorities : u \in ToSet(e.ready[p]) <=> u \in ToSet(k.ready[p])
      BY <1>4, <1>6
    <2>3. e.stat[u] = k.stat[u]
      BY <1>1, <1>6 DEF KernelType
    <2>4. QED
      BY <2>1, <2>2, <2>3, <1>6 DEF InOneList, Waiting
  <1>8. InOneList(e, t)
    BY <1>1, <1>4, <1>6 DEF TidyBut, InOneList, Waiting, SemQ, MutexQ, KernelType
  <1>9. QED
    BY <1>6, <1>7, <1>8 DEF Tidy

\* rt_thread_resume of a suspended thread.
LEMMA ResumedTidy ==
  ASSUME NEW k, NEW t \in Threads, Tidy(k), k.stat[t] = "suspended",
         NEW e, e = ThreadResume(k, t)
  PROVE  /\ Tidy(e) /\ SameRun(k, e) /\ SameObjects(k, e) /\ QueuesWithout(k, e, t)
         /\ e.stat = [k.stat EXCEPT ![t] = "ready"]
         /\ e.prio = k.prio /\ e.error = k.error /\ e.timer = [k.timer EXCEPT ![t] = Off]
  <1> DEFINE l == Unlisted(k, t)
             m == TimerStopped(l, t)
  <1>1. e = ScheduleInsert(m, t)
    BY DEF ThreadResume
  <1>2. /\ TidyBut(l, t) /\ SameRun(k, l) /\ SameObjects(k, l) /\ QueuesWithout(k, l, t)
        /\ l.stat = k.stat /\ l.prio = k.prio /\ l.error = k.error /\ l.timer = k.timer
    BY UnlistedTidy
  <1> HIDE DEF l
  <1>3. /\ m \in KernelType /\ SameRun(l, m) /\ m.sem = l.sem /\ m.mutex = l.mutex
        /\ m.ready = l.ready /\ m.stat = l.stat /\ m.prio = l.prio /\ m.error = l.error
        /\ m.timer = [l.timer EXCEPT ![t] = Off] /\ m.timer[t] = Off
    BY <1>2 DEF TimerStopped, TidyBut, KernelType, SameRun
  <1>4. TidyBut(m, t)
    BY <1>2, <1>3 DEF TidyBut, InOneList, Waiting, SemQ, MutexQ, KernelType
  <1> HIDE DEF m
  <1>5. m.timer[t] = Off
    BY <1>3
  <1>6. /\ Tidy(e) /\ SameRun(m, e) /\ e.sem = m.sem /\ e.mutex = m.mutex
        /\ e.stat = [m.stat EXCEPT ![t] = "ready"]
        /\ e.prio = m.prio /\ e.error = m.error /\ e.timer = m.timer
    BY <1>1, <1>4, <1>5, InsertedTidy
  <1>7. QED
    BY <1>2, <1>3, <1>6
    DEF SameRun, SameObjects, SameMutex, QueuesWithout, SemQ, MutexQ

\* rt_thread_timeout up to its rt_schedule.
LEMMA TimedOutTidy ==
  ASSUME NEW k, NEW t \in Threads, Tidy(k), k.stat[t] = "suspended",
         NEW e, e = TimedOut(k, t)
  PROVE  /\ Tidy(e) /\ SameRun(k, e) /\ SameObjects(k, e) /\ QueuesWithout(k, e, t)
         /\ e.stat = [k.stat EXCEPT ![t] = "ready"]
         /\ e.prio = k.prio /\ e.error = [k.error EXCEPT ![t] = "timeout"]
         /\ e.timer = [k.timer EXCEPT ![t] = Off]
  <1> DEFINE l == Unlisted(k, t)
             m == [l EXCEPT !.error[t] = "timeout", !.timer[t] = Off]
  <1>1. e = ScheduleInsert(m, t)
    BY DEF TimedOut, TimeoutUnlisted
  <1>2. /\ TidyBut(l, t) /\ SameRun(k, l) /\ SameObjects(k, l) /\ QueuesWithout(k, l, t)
        /\ l.stat = k.stat /\ l.prio = k.prio /\ l.error = k.error /\ l.timer = k.timer
    BY UnlistedTidy
  <1> HIDE DEF l
  <1>3. /\ m \in KernelType /\ SameRun(l, m) /\ m.sem = l.sem /\ m.mutex = l.mutex
        /\ m.ready = l.ready /\ m.stat = l.stat /\ m.prio = l.prio
        /\ m.error = [l.error EXCEPT ![t] = "timeout"]
        /\ m.timer = [l.timer EXCEPT ![t] = Off] /\ m.timer[t] = Off
    BY <1>2 DEF TidyBut, KernelType, SameRun, Errors
  <1>4. TidyBut(m, t)
    BY <1>2, <1>3 DEF TidyBut, InOneList, Waiting, SemQ, MutexQ, KernelType
  <1> HIDE DEF m
  <1>5. m.timer[t] = Off
    BY <1>3
  <1>6. /\ Tidy(e) /\ SameRun(m, e) /\ e.sem = m.sem /\ e.mutex = m.mutex
        /\ e.stat = [m.stat EXCEPT ![t] = "ready"]
        /\ e.prio = m.prio /\ e.error = m.error /\ e.timer = m.timer
    BY <1>1, <1>4, <1>5, InsertedTidy
  <1>7. QED
    BY <1>2, <1>3, <1>6
    DEF SameRun, SameObjects, SameMutex, QueuesWithout, SemQ, MutexQ

\* rt_thread_suspend of a ready thread, which is then in no list.
LEMMA SuspendedTidy ==
  ASSUME NEW k, NEW t \in Threads, Tidy(k), k.stat[t] = "ready",
         NEW e, e = ThreadSuspend(k, t)
  PROVE  /\ TidyBut(e, t) /\ SameRun(k, e) /\ SameObjects(k, e) /\ SameQueues(k, e)
         /\ e.stat = [k.stat EXCEPT ![t] = "suspended"]
         /\ e.prio = k.prio /\ e.error = k.error /\ e.timer = [k.timer EXCEPT ![t] = Off]
  <1> DEFINE l == Unlisted(k, t)
             m == TimerStopped(l, t)
  <1>1. e = [m EXCEPT !.stat[t] = "suspended"]
    BY DEF ThreadSuspend
  <1>2. /\ TidyBut(l, t) /\ SameRun(k, l) /\ SameObjects(k, l) /\ QueuesWithout(k, l, t)
        /\ l.stat = k.stat /\ l.prio = k.prio /\ l.error = k.error /\ l.timer = k.timer
    BY UnlistedTidy
  <1> HIDE DEF l
  <1>3. /\ m \in KernelType /\ SameRun(l, m) /\ m.sem = l.sem /\ m.mutex = l.mutex
        /\ m.ready = l.ready /\ m.stat = l.stat /\ m.prio = l.prio /\ m.error = l.error
        /\ m.timer = [l.timer EXCEPT ![t] = Off]
    BY <1>2 DEF TimerStopped, TidyBut, KernelType, SameRun
  <1> HIDE DEF m
  <1>4. /\ e \in KernelType /\ SameRun(m, e) /\ e.sem = m.sem /\ e.mutex = m.mutex
        /\ e.ready = m.ready /\ e.prio = m.prio /\ e.error = m.error /\ e.timer = m.timer
        /\ e.stat = [m.stat EXCEPT ![t] = "suspended"]
    BY <1>1, <1>3 DEF KernelType, SameRun
  <1>5. TidyBut(e, t)
    BY <1>2, <1>3, <1>4 DEF TidyBut, InOneList, Waiting, SemQ, MutexQ, KernelType
  <1>6. t \notin SemQ(k) /\ t \notin MutexQ(k)
    BY DEF Tidy, InOneList, Waiting, SemQ, MutexQ
  <1>7. SameQueues(k, e)
    BY <1>2, <1>3, <1>4, <1>6 DEF SameQueues, QueuesWithout, SemQ, MutexQ
  <1>8. QED
    BY <1>2, <1>3, <1>4, <1>5, <1>7 DEF SameRun, SameObjects, SameMutex

\* A change of priority moves a ready thread and leaves every queue as it is.
LEMMA PriorityTidy ==
  ASSUME NEW k, NEW t \in Threads, Tidy(k), NEW p \in Priorities,
         NEW e, e = ChangePriority(k, t, p)
  PROVE  /\ Tidy(e) /\ SameRun(k, e) /\ SameObjects(k, e) /\ SameQueues(k, e)
         /\ e.stat = k.stat /\ e.error = k.error /\ e.timer = k.timer
         /\ e.prio = [k.prio EXCEPT ![t] = p]
  <1>1. CASE k.stat[t] = "ready"
    <2> DEFINE l == Unlisted(k, t)
               m == [l EXCEPT !.prio[t] = p]
    <2>1. e = ScheduleInsert(m, t)
      BY <1>1 DEF ChangePriority
    <2>2. /\ TidyBut(l, t) /\ SameRun(k, l) /\ SameObjects(k, l) /\ QueuesWithout(k, l, t)
          /\ l.stat = k.stat /\ l.prio = k.prio /\ l.error = k.error /\ l.timer = k.timer
      BY UnlistedTidy
    <2> HIDE DEF l
    <2>3. /\ m \in KernelType /\ SameRun(l, m) /\ m.sem = l.sem /\ m.mutex = l.mutex
          /\ m.ready = l.ready /\ m.stat = l.stat /\ m.error = l.error /\ m.timer = l.timer
          /\ m.prio = [l.prio EXCEPT ![t] = p]
      BY <2>2 DEF TidyBut, KernelType, SameRun
    <2> HIDE DEF m
    <2>4. TidyBut(m, t)
      BY <2>2, <2>3 DEF TidyBut, InOneList, Waiting, SemQ, MutexQ, KernelType
    <2>5. t \notin SemQ(k) /\ t \notin MutexQ(k) /\ k.timer[t] = Off
      BY <1>1 DEF Tidy, InOneList, Waiting, SemQ, MutexQ
    <2>6. /\ Tidy(e) /\ SameRun(m, e) /\ e.sem = m.sem /\ e.mutex = m.mutex
          /\ e.stat = [m.stat EXCEPT ![t] = "ready"]
          /\ e.prio = m.prio /\ e.error = m.error /\ e.timer = m.timer
      BY <2>1, <2>2, <2>3, <2>4, <2>5, InsertedTidy
    <2>7. SameQueues(k, e)
      BY <2>2, <2>3, <2>5, <2>6 DEF SameQueues, QueuesWithout, SemQ, MutexQ
    <2>8. [k.stat EXCEPT ![t] = "ready"] = k.stat
      BY <1>1 DEF Tidy, KernelType
    <2>9. QED
      BY <2>2, <2>3, <2>6, <2>7, <2>8 DEF SameRun, SameObjects, SameMutex
  <1>2. CASE k.stat[t] # "ready"
    <2>1. e = [k EXCEPT !.prio[t] = p]
      BY <1>2 DEF ChangePriority
    <2>2. /\ e \in KernelType /\ SameRun(k, e) /\ e.sem = k.sem /\ e.mutex = k.mutex
          /\ e.ready = k.ready /\ e.stat = k.stat /\ e.error = k.error /\ e.timer = k.timer
          /\ e.prio = [k.prio EXCEPT ![t] = p]
      BY <2>1 DEF Tidy, KernelType, SameRun
    <2>3. Tidy(e)
      BY <1>2, <2>2 DEF Tidy, InOneList, Waiting, KernelType
    <2>4. QED
      BY <2>2, <2>3 DEF SameObjects, SameMutex, SameQueues, SemQ, MutexQ
  <1>3. QED
    BY <1>1, <1>2

\* Where the running thread is put behind the others of its priority.
LEMMA YieldedTidy ==
  ASSUME NEW k, Tidy(k), k.stat[k.current] = "ready", NEW e, e = Yielded(k)
  PROVE  /\ Tidy(e) /\ SameRun(k, e) /\ SameObjects(k, e) /\ SameQueues(k, e)
         /\ e.stat = k.stat /\ e.prio = k.prio /\ e.error = k.error /\ e.timer = k.timer
  <1> DEFINE t == k.current
             l == Unlisted(k, t)
  <1>1. t \in Threads /\ k.stat \in [Threads -> {"ready", "suspended"}]
    BY DEF Tidy, KernelType
  <1>2. /\ TidyBut(l, t) /\ SameRun(k, l) /\ SameObjects(k, l) /\ QueuesWithout(k, l, t)
        /\ l.stat = k.stat /\ l.prio = k.prio /\ l.error = k.error /\ l.timer = k.timer
    BY <1>1, UnlistedTidy
  <1>3. t \notin SemQ(k) /\ t \notin MutexQ(k) /\ k.timer[t] = Off
    BY <1>1 DEF Tidy, InOneList, Waiting, SemQ, MutexQ
  <1>4. e = ScheduleInsert(l, t)
    BY DEF Yielded
  <1> HIDE DEF l
  <1>5. /\ Tidy(e) /\ SameRun(l, e) /\ e.sem = l.sem /\ e.mutex = l.mutex
        /\ e.stat = [l.stat EXCEPT ![t] = "ready"]
        /\ e.prio = l.prio /\ e.error = l.error /\ e.timer = l.timer
    BY <1>1, <1>2, <1>3, <1>4, InsertedTidy
  <1>6. [k.stat EXCEPT ![t] = "ready"] = k.stat
    BY <1>1
  <1>7. QED
    BY <1>2, <1>3, <1>5, <1>6
    DEF SameRun, SameObjects, SameMutex, SameQueues, QueuesWithout, SemQ, MutexQ

\* No ready thread has a higher priority than the running one, which is ready.
HighestReady(k) ==
  /\ k.stat[k.current] = "ready"
  /\ \A u \in Threads : k.stat[u] = "ready" => k.prio[k.current] <= k.prio[u]

\* rt_schedule: unless it is locked, one of the highest priority runs.
LEMMA ScheduledTidy ==
  ASSUME NEW k, Tidy(k), k.stat[Idle] = "ready", NEW e, e = Schedule(k)
  PROVE  /\ Tidy(e) /\ e.lock_nest = k.lock_nest /\ e.sem = k.sem /\ e.mutex = k.mutex
         /\ e.stat = k.stat /\ e.prio = k.prio /\ e.error = k.error /\ e.timer = k.timer
         /\ k.lock_nest > 0 => e.current = k.current
         /\ k.lock_nest = 0 => HighestReady(e) /\ ~e.lowered
         /\ k.lock_nest > 0 => e = k
  <1>1. k \in KernelType /\ k.lock_nest \in Nat
    BY DEF Tidy, KernelType
  <1>2. CASE k.lock_nest > 0
    BY <1>1, <1>2 DEF Schedule
  <1>3. CASE k.lock_nest = 0
    <2> DEFINE R == ReadyPriorities(k)
               h == Highest(k)
               c == Head(k.ready[h])
    <2>1. \A u \in Threads : k.stat[u] = "ready" => k.prio[u] \in R
      <3>1. TAKE u \in Threads
      <3>2. HAVE k.stat[u] = "ready"
      <3>3. k.prio[u] \in Priorities /\ u \in ToSet(k.ready[k.prio[u]])
        BY <1>1, <3>2 DEF Tidy, InOneList, KernelType
      <3>4. k.ready[k.prio[u]] \in Seq(Threads)
        BY <1>1, <3>3 DEF KernelType, Lists
      <3>5. k.ready[k.prio[u]] # <<>>
        BY <3>3, <3>4, SeqFacts
      <3>6. QED
        BY <3>3, <3>5 DEF ReadyPriorities
    <2>2. h \in R /\ \A q \in R : h <= q
      <3>1. R \in SUBSET Nat /\ R # {}
        BY <2>1, Numbers DEF ReadyPriorities
      <3>2. \E x \in R : \A y \in R : x <= y
        BY <3>1, Smallest
      <3>3. QED
        BY <3>2 DEF Highest
    <2> HIDE DEF h
    <2>3. c \in Threads /\ k.stat[c] = "ready" /\ k.prio[c] = h
      <3>1. h \in Priorities /\ k.ready[h] # <<>>
        BY <2>2 DEF ReadyPriorities
      <3>2. k.ready[h] \in Seq(Threads)
        BY <1>1, <3>1 DEF KernelType, Lists
      <3>3. c \in ToSet(k.ready[h]) /\ c \in Threads
        BY <3>1, <3>2, SeqFacts
      <3>4. QED
        BY <3>1, <3>3 DEF Tidy, InOneList
    <2>4. e = [k EXCEPT !.current = c, !.lowered = FALSE]
      BY <1>3, <1>1 DEF Schedule, h
    <2> HIDE DEF c
    <2>5. /\ e \in KernelType /\ e.lock_nest = k.lock_nest /\ e.sem = k.sem /\ e.mutex = k.mutex
          /\ e.ready = k.ready /\ e.stat = k.stat /\ e.prio = k.prio /\ e.error = k.error
          /\ e.timer = k.timer /\ e.current = c /\ ~e.lowered
      BY <1>1, <2>3, <2>4 DEF KernelType
    <2>6. Tidy(e)
      BY <2>5 DEF Tidy, InOneList, Waiting
    <2>7. HighestReady(e)
      BY <2>1, <2>2, <2>3, <2>5 DEF HighestReady
    <2>8. QED
      BY <1>3, <2>5, <2>6, <2>7
  <1>4. QED
    BY <1>1, <1>2, <1>3
----------------------------------------------------------------------------
\* A queue takes t in; by priority, if the queue is one by priority.
LEMMA QueuedIn ==
  ASSUME NEW k \in KernelType, NEW s \in Lists, NEW t \in Threads, t \notin ToSet(s),
         NEW e, e = Queued(k, s, t)
  PROVE  /\ e \in Lists /\ ToSet(e) = ToSet(s) \union {t}
         /\ Flag = "PRIO" /\ SortedBy(s, k.prio) => SortedBy(e, k.prio)
  <1> DEFINE lower == { i \in 1..Len(s) : k.prio[t] < k.prio[s[i]] }
             first == CHOOSE i \in lower : \A j \in lower : i <= j
             at == IF Flag = "FIFO" \/ lower = {} THEN Len(s) + 1 ELSE first
  <1>1. e = InsertAt(s, at, t)
    BY DEF Queued
  <1>2. Len(s) \in Nat /\ \A i \in 1..Len(s) : s[i] \in Threads
    BY SeqFacts DEF Lists
  <1>3. lower # {} => first \in lower /\ \A j \in lower : first <= j
    <2>1. lower \in SUBSET Nat
      BY <1>2
    <2>2. lower # {} => \E x \in lower : \A y \in lower : x <= y
      BY <2>1, Smallest
    <2>3. QED
      BY <2>2
  <1> HIDE DEF first
  <1>4. /\ at \in 1..(Len(s) + 1)
        /\ Flag = "PRIO" => \A i \in lower : at <= i
        /\ Flag = "PRIO" => at \in lower \/ at = Len(s) + 1
    <2>1. CASE Flag = "FIFO" \/ lower = {}
      BY <1>2, <2>1
    <2>2. CASE ~(Flag = "FIFO" \/ lower = {})
      BY <1>2, <1>3, <2>2
    <2>3. QED
      BY <2>1, <2>2
  <1> HIDE DEF at
  <1>5. /\ e \in Lists /\ ToSet(e) = ToSet(s) \union {t} /\ Len(e) = Len(s) + 1
        /\ \A i \in 1..(Len(s) + 1) : e[i] = IF i < at THEN s[i] ELSE IF i = at THEN t ELSE s[i - 1]
    BY <1>1, <1>4, Inserted
  <1>6. ASSUME Flag = "PRIO", SortedBy(s, k.prio),
               NEW i \in 1..(Len(s) + 1), NEW j \in 1..(Len(s) + 1), i < j
        PROVE  k.prio[e[i]] <= k.prio[e[j]]
    <2>1. \A u \in Threads : k.prio[u] \in Nat
      BY Numbers DEF KernelType
    <2>2. \A n \in 1..Len(s) : n < at => k.prio[s[n]] <= k.prio[t]
      BY <1>2, <1>4, <1>6, <2>1
    <2>3. \A n \in 1..Len(s) : n >= at => k.prio[t] <= k.prio[s[n]]
      <3>1. TAKE n \in 1..Len(s)
      <3>2. HAVE n >= at
      <3>3. at \in lower
        BY <1>2, <1>4, <1>6, <3>2
      <3>4. k.prio[s[at]] <= k.prio[s[n]]
        <4>1. CASE n = at
          BY <4>1, <1>2, <2>1
        <4>2. CASE n # at
          <5>1. at < n /\ at \in 1..Len(s)
            BY <3>2, <3>3, <4>2
          <5>2. QED
            BY <5>1, <1>6 DEF SortedBy
        <4>3. QED
          BY <4>1, <4>2
      <3>5. QED
        BY <3>3, <3>4, <1>2, <2>1
    <2>4. CASE j < at
      <3>1. e[i] = s[i] /\ e[j] = s[j] /\ i \in 1..Len(s) /\ j \in 1..Len(s)
        BY <2>4, <1>2, <1>4, <1>5, <1>6
      <3>2. QED
        BY <3>1, <1>6 DEF SortedBy
    <2>5. CASE j = at
      <3>1. e[i] = s[i] /\ e[j] = t /\ i \in 1..Len(s) /\ i < at
        BY <2>5, <1>2, <1>4, <1>5, <1>6
      <3>2. QED
        BY <3>1, <2>2
    <2>6. CASE j > at
      <3>1. e[j] = s[j - 1] /\ j - 1 \in 1..Len(s) /\ j - 1 >= at
        BY <2>6, <1>2, <1>4, <1>5, <1>6
      <3>2. CASE i < at
        <4>1. e[i] = s[i] /\ i \in 1..Len(s) /\ i < j - 1
          BY <3>1, <3>2, <1>2, <1>4, <1>5, <1>6
        <4>2. QED
          BY <3>1, <4>1, <1>6 DEF SortedBy
      <3>3. CASE i = at
        <4>1. e[i] = t
          BY <3>3, <1>5
        <4>2. QED
          BY <3>1, <4>1, <2>3
      <3>4. CASE i > at
        <4>1. e[i] = s[i - 1] /\ i - 1 \in 1..Len(s) /\ i - 1 < j - 1
          BY <3>4, <1>2, <1>4, <1>5, <1>6
        <4>2. QED
          BY <3>1, <4>1, <1>6 DEF SortedBy
      <3>5. QED
        BY <3>2, <3>3, <3>4, <1>4
    <2>7. QED
      BY <2>4, <2>5, <2>6, <1>4
  <1>7. QED
    BY <1>5, <1>6 DEF SortedBy

\* A thread that is in no list because it was just suspended enters the
\* semaphore's queue, or the mutex's, or sleeps.
LEMMA WaitsTidy ==
  ASSUME NEW k, NEW t \in Threads, TidyBut(k, t), k.stat[t] = "suspended", k.timer[t] = Off,
         NEW e \in KernelType,
         e.ready = k.ready, e.stat = k.stat, e.prio = k.prio,
         \A u \in Threads \ {t} : e.timer[u] = k.timer[u],
         SemQ(e) = SemQ(k) \/ SemQ(e) = SemQ(k) \union {t},
         MutexQ(e) = MutexQ(k) \/ MutexQ(e) = MutexQ(k) \union {t},
         SemQ(e) = SemQ(k) \/ MutexQ(e) = MutexQ(k),
         SemQ(e) # SemQ(k) \/ MutexQ(e) # MutexQ(k) \/ e.timer[t] # Off
  PROVE  Tidy(e)
  <1>1. ASSUME NEW u \in Threads \ {t} PROVE InOneList(e, u)
    <2>1. InOneList(k, u)
      BY DEF TidyBut
    <2>2. (u \in ToSet(e.sem.suspend_thread) <=> u \in ToSet(k.sem.suspend_thread))
          /\ (u \in ToSet(e.mutex.suspend_thread) <=> u \in ToSet(k.mutex.suspend_thread))
      BY DEF SemQ, MutexQ
    <2>3. QED
      BY <2>1, <2>2 DEF InOneList, Waiting
  <1>2. InOneList(e, t)
    BY DEF TidyBut, InOneList, Waiting, SemQ, MutexQ
  <1>3. QED
    BY <1>1, <1>2 DEF Tidy

\* Starting a timer touches no other thread's and no list.
LEMMA TimerStartedFields ==
  ASSUME NEW k \in KernelType, NEW t \in Threads, NEW time \in Times \union {Forever},
         NEW e, e = TimerStarted(k, t, time)
  PROVE  /\ e \in KernelType /\ SameRun(k, e) /\ e.sem = k.sem /\ e.mutex = k.mutex
         /\ e.ready = k.ready /\ e.stat = k.stat /\ e.prio = k.prio /\ e.error = k.error
         /\ \A u \in Threads \ {t} : e.timer[u] = k.timer[u]
         /\ time \in Times => e.timer[t] # Off
  <1>1. time \in Times => time \in Nat /\ time > 0 /\ time # Off
    BY Numbers
  <1>2. time \notin Times => ~(time > 0)
    BY DEF Forever
  <1>3. CASE time \in Times
    <2>1. e = [k EXCEPT !.timer[t] = time]
      BY <1>1, <1>3 DEF TimerStarted
    <2>2. QED
      BY <1>1, <1>3, <2>1 DEF KernelType, SameRun
  <1>4. CASE time \notin Times
    <2>1. e = k
      BY <1>2, <1>4 DEF TimerStarted
    <2>2. QED
      BY <1>4, <2>1 DEF SameRun
  <1>5. QED
    BY <1>3, <1>4

ErrorSet(k, t, x) == [k EXCEPT !.error[t] = x]

\* Setting an error number moves no thread.
LEMMA ClearedTidy ==
  ASSUME NEW k, Tidy(k), NEW t \in Threads, NEW x \in Errors,
         NEW e, e = ErrorSet(k, t, x)
  PROVE  /\ Tidy(e) /\ SameRun(k, e) /\ e.sem = k.sem /\ e.mutex = k.mutex
         /\ e.stat = k.stat /\ e.prio = k.prio /\ e.timer = k.timer
         /\ e.error = [k.error EXCEPT ![t] = x]
  <1>1. /\ e \in KernelType /\ SameRun(k, e) /\ e.sem = k.sem /\ e.mutex = k.mutex
        /\ e.ready = k.ready /\ e.stat = k.stat /\ e.prio = k.prio /\ e.timer = k.timer
        /\ e.error = [k.error EXCEPT ![t] = x]
    BY DEF Tidy, KernelType, SameRun, ErrorSet
  <1>2. QED
    BY <1>1 DEF Tidy, InOneList, Waiting

\* rt_thread_sleep up to its rt_schedule.
LEMMA SleepTidy ==
  ASSUME NEW k, NEW t \in Threads, Tidy(k), k.stat[t] = "ready", NEW time \in Times,
         NEW e, e = TimerStarted(ThreadSuspend(k, t), t, time)
  PROVE  /\ Tidy(e) /\ SameRun(k, e) /\ SameObjects(k, e) /\ SameQueues(k, e)
         /\ e.stat = [k.stat EXCEPT ![t] = "suspended"] /\ e.prio = k.prio /\ e.error = k.error
  <1> DEFINE s == ThreadSuspend(k, t)
  <1>1. /\ TidyBut(s, t) /\ SameRun(k, s) /\ SameObjects(k, s) /\ SameQueues(k, s)
        /\ s.stat = [k.stat EXCEPT ![t] = "suspended"]
        /\ s.prio = k.prio /\ s.error = k.error /\ s.timer = [k.timer EXCEPT ![t] = Off]
    BY SuspendedTidy
  <1>2. s.stat[t] = "suspended" /\ s.timer[t] = Off
    BY <1>1 DEF Tidy, KernelType
  <1> HIDE DEF s
  <1>3. s \in KernelType
    BY <1>1 DEF TidyBut
  <1>4. /\ e \in KernelType /\ SameRun(s, e) /\ e.sem = s.sem /\ e.mutex = s.mutex
        /\ e.ready = s.ready /\ e.stat = s.stat /\ e.prio = s.prio /\ e.error = s.error
        /\ (\A u \in Threads \ {t} : e.timer[u] = s.timer[u]) /\ e.timer[t] # Off
    BY <1>3, TimerStartedFields DEF s
  <1>5. Tidy(e)
    <2>2. SemQ(e) = SemQ(s) /\ MutexQ(e) = MutexQ(s)
      BY <1>4 DEF SemQ, MutexQ
    <2>3. TidyBut(s, t) /\ e.ready = s.ready /\ e.stat = s.stat /\ e.prio = s.prio
      BY <1>1, <1>4
    <2>4. (\A u \in Threads \ {t} : e.timer[u] = s.timer[u]) /\ e.timer[t] # Off
      BY <1>4
    <2>5. QED
      BY <1>2, <1>4, <2>2, <2>3, <2>4, WaitsTidy
  <1>6. QED
    BY <1>1, <1>4, <1>5 DEF SameRun, SameObjects, SameMutex, SameQueues, SemQ, MutexQ

\* A change of the objects' counters moves no thread.
LEMMA ObjectsTidy ==
  ASSUME NEW k, Tidy(k), NEW e \in KernelType,
         e.ready = k.ready, e.stat = k.stat, e.prio = k.prio, e.timer = k.timer,
         e.sem.suspend_thread = k.sem.suspend_thread, e.mutex.suspend_thread = k.mutex.suspend_thread
  PROVE  Tidy(e)
  BY DEF Tidy, InOneList, Waiting

\* A change of the semaphore's value moves no thread.
LEMMA SemCountTidy ==
  ASSUME NEW k, Tidy(k), NEW v \in Nat, NEW e, e = [k EXCEPT !.sem.value = v]
  PROVE  /\ Tidy(e) /\ SameRun(k, e) /\ e.mutex = k.mutex /\ SemQ(e) = SemQ(k) /\ e.sem.value = v
         /\ e.sem.suspend_thread = k.sem.suspend_thread
         /\ e.stat = k.stat /\ e.prio = k.prio /\ e.error = k.error
  <1> DEFINE s == [k.sem EXCEPT !.value = v]
  <1>1. k \in KernelType
    BY DEF Tidy
  <1>2. s \in SemType /\ s.value = v /\ s.suspend_thread = k.sem.suspend_thread
    BY <1>1 DEF KernelType, SemType
  <1>3. e = [k EXCEPT !.sem = s]
    BY <1>1 DEF KernelType
  <1> HIDE DEF s
  <1>4. /\ e \in KernelType /\ e.ready = k.ready /\ e.stat = k.stat /\ e.prio = k.prio
        /\ e.timer = k.timer /\ e.error = k.error /\ e.sem = s /\ e.mutex = k.mutex /\ SameRun(k, e)
    BY <1>1, <1>2, <1>3 DEF KernelType, SameRun
  <1>5. Tidy(e)
    BY <1>2, <1>4, ObjectsTidy
  <1>6. QED
    BY <1>2, <1>4, <1>5 DEF SemQ

\* rt_sem_take by a thread that has to wait.
LEMMA SemWaitTidy ==
  ASSUME NEW k, NEW t \in Threads, Tidy(k), k.stat[t] = "ready", NEW time \in Times \union {Forever},
         NEW e, e = SemWait(k, t, time)
  PROVE  /\ Tidy(e) /\ SameRun(k, e) /\ SameObjects(k, e)
         /\ SemQ(e) = SemQ(k) \union {t} /\ MutexQ(e) = MutexQ(k)
         /\ \A f \in [Threads -> Nat] :
              SortedBy(k.mutex.suspend_thread, f) => SortedBy(e.mutex.suspend_thread, f)
         /\ e.stat = [k.stat EXCEPT ![t] = "suspended"] /\ e.prio = k.prio
         /\ e.error = [k.error EXCEPT ![t] = "ok"]
  <1> DEFINE c == ErrorSet(k, t, "ok")
             s == ThreadSuspend(c, t)
             l == Queued(s, s.sem.suspend_thread, t)
             q == [s.sem EXCEPT !.suspend_thread = l]
             w == [s EXCEPT !.sem.suspend_thread = Queued(s, @, t)]
  <1>1. /\ Tidy(c) /\ SameRun(k, c) /\ c.sem = k.sem /\ c.mutex = k.mutex
        /\ c.stat = k.stat /\ c.prio = k.prio /\ c.error = [k.error EXCEPT ![t] = "ok"]
    <2>1. PICK x \in Errors : x = "ok"
      BY DEF Errors
    <2>2. c = ErrorSet(k, t, x)
      BY <2>1
    <2> HIDE DEF c
    <2>3. /\ Tidy(c) /\ SameRun(k, c) /\ c.sem = k.sem /\ c.mutex = k.mutex
          /\ c.stat = k.stat /\ c.prio = k.prio /\ c.error = [k.error EXCEPT ![t] = x]
      BY <2>2, ClearedTidy
    <2>4. QED
      BY <2>1, <2>3
  <1>2. e = TimerStarted(w, t, time)
    BY DEF SemWait, ErrorSet
  <1> HIDE DEF c
  <1>3. /\ TidyBut(s, t) /\ SameRun(c, s) /\ SameObjects(c, s) /\ SameQueues(c, s)
        /\ s.stat = [c.stat EXCEPT ![t] = "suspended"]
        /\ s.prio = c.prio /\ s.error = c.error /\ s.timer = [c.timer EXCEPT ![t] = Off]
    BY <1>1, SuspendedTidy
  <1>4. s.stat[t] = "suspended" /\ s.timer[t] = Off
    BY <1>1, <1>3 DEF Tidy, KernelType
  <1> HIDE DEF s
  <1>5. s \in KernelType /\ t \notin SemQ(s) /\ s.sem.suspend_thread \in Lists
    BY <1>3 DEF TidyBut, KernelType, SemType
  <1>6. l \in Lists /\ ToSet(l) = SemQ(s) \union {t}
    BY <1>5, QueuedIn DEF SemQ
  <1>7. w = [s EXCEPT !.sem = q]
    BY <1>5 DEF KernelType
  <1> HIDE DEF l
  <1>8. q \in SemType /\ q.value = s.sem.value /\ q.suspend_thread = l
    BY <1>5, <1>6 DEF KernelType, SemType
  <1> HIDE DEF q
  <1>9. /\ w \in KernelType /\ w.ready = s.ready /\ w.stat = s.stat /\ w.prio = s.prio
        /\ w.timer = s.timer /\ w.error = s.error /\ w.sem = q /\ w.mutex = s.mutex /\ SameRun(s, w)
    BY <1>5, <1>7, <1>8 DEF KernelType, SameRun
  <1> HIDE DEF w
  <1>10. /\ e \in KernelType /\ SameRun(w, e) /\ e.sem = w.sem /\ e.mutex = w.mutex
         /\ e.ready = w.ready /\ e.stat = w.stat /\ e.prio = w.prio /\ e.error = w.error
         /\ \A u \in Threads \ {t} : e.timer[u] = w.timer[u]
    BY <1>2, <1>9, TimerStartedFields
  <1>11. Tidy(e)
    <2>1. /\ e.ready = s.ready /\ e.stat = s.stat /\ e.prio = s.prio
          /\ \A u \in Threads \ {t} : e.timer[u] = s.timer[u]
      BY <1>9, <1>10
    <2>2. SemQ(e) = SemQ(s) \union {t} /\ MutexQ(e) = MutexQ(s) /\ SemQ(e) # SemQ(s)
      BY <1>5, <1>6, <1>8, <1>9, <1>10 DEF SemQ, MutexQ
    <2>3. TidyBut(s, t)
      BY <1>3
    <2>4. QED
      BY <1>4, <1>10, <2>1, <2>2, <2>3, WaitsTidy
  <1>12. SemQ(e) = SemQ(k) \union {t}
    BY <1>1, <1>3, <1>6, <1>8, <1>9, <1>10 DEF SameQueues, SemQ
  <1>13. /\ MutexQ(e) = MutexQ(k)
         /\ \A f \in [Threads -> Nat] :
              SortedBy(k.mutex.suspend_thread, f) => SortedBy(e.mutex.suspend_thread, f)
    BY <1>1, <1>3, <1>9, <1>10 DEF SameQueues, MutexQ
  <1>14. SameRun(k, e) /\ SameObjects(k, e)
    BY <1>1, <1>3, <1>8, <1>9, <1>10 DEF SameRun, SameObjects, SameMutex
  <1>15. QED
    BY <1>1, <1>3, <1>9, <1>10, <1>11, <1>12, <1>13, <1>14

\* The owner's priority where t comes to wait at its own.
Lent(k, t) ==
  IF k.prio[t] < k.prio[k.mutex.owner] THEN [k.prio EXCEPT ![k.mutex.owner] = k.prio[t]] ELSE k.prio

\* rt_mutex_take by a thread that has to wait.
LEMMA MutexWaitTidy ==
  ASSUME NEW k, NEW t \in Threads, Tidy(k), k.stat[t] = "ready", NEW time \in Times \union {Forever},
         k.mutex.owner \in Threads, k.mutex.owner # t, k.mutex.owner \notin MutexQ(k),
         NEW e, e = MutexWait(k, t, time)
  PROVE  /\ Tidy(e) /\ SameRun(k, e) /\ SameObjects(k, e)
         /\ SemQ(e) = SemQ(k) /\ MutexQ(e) = MutexQ(k) \union {t}
         /\ Flag = "PRIO" /\ SortedBy(k.mutex.suspend_thread, k.prio)
              => SortedBy(e.mutex.suspend_thread, e.prio)
         /\ e.stat = [k.stat EXCEPT ![t] = "suspended"] /\ e.prio = Lent(k, t)
         /\ e.error = [k.error EXCEPT ![t] = "ok"]
  <1> DEFINE c == ErrorSet(k, t, "ok")
             n == Inherited(c, t)
             s == ThreadSuspend(n, t)
             l == Queued(s, s.mutex.suspend_thread, t)
             q == [s.mutex EXCEPT !.suspend_thread = l]
             w == [s EXCEPT !.mutex.suspend_thread = Queued(s, @, t)]
             o == k.mutex.owner
  <1>1. /\ Tidy(c) /\ SameRun(k, c) /\ c.sem = k.sem /\ c.mutex = k.mutex
        /\ c.stat = k.stat /\ c.prio = k.prio /\ c.error = [k.error EXCEPT ![t] = "ok"]
    <2>1. PICK x \in Errors : x = "ok"
      BY DEF Errors
    <2>2. c = ErrorSet(k, t, x)
      BY <2>1
    <2> HIDE DEF c
    <2>3. /\ Tidy(c) /\ SameRun(k, c) /\ c.sem = k.sem /\ c.mutex = k.mutex
          /\ c.stat = k.stat /\ c.prio = k.prio /\ c.error = [k.error EXCEPT ![t] = x]
      BY <2>2, ClearedTidy
    <2>4. QED
      BY <2>1, <2>3
  <1>2. e = TimerStarted(w, t, time)
    BY DEF MutexWait, ErrorSet
  <1> HIDE DEF c
  <1>3. /\ Tidy(n) /\ SameRun(c, n) /\ SameObjects(c, n) /\ SameQueues(c, n)
        /\ n.stat = c.stat /\ n.error = c.error /\ n.prio = Lent(k, t)
    <2>1. c.prio[t] \in Priorities
      BY <1>1 DEF Tidy, KernelType
    <2>2. CASE c.prio[t] < c.prio[c.mutex.owner]
      <3>1. n = ChangePriority(c, c.mutex.owner, c.prio[t])
        BY <2>2 DEF Inherited
      <3>2. c.mutex.owner \in Threads
        BY <1>1
      <3> HIDE DEF n
      <3>3. /\ Tidy(n) /\ SameRun(c, n) /\ SameObjects(c, n) /\ SameQueues(c, n)
            /\ n.stat = c.stat /\ n.error = c.error /\ n.timer = c.timer
            /\ n.prio = [c.prio EXCEPT ![c.mutex.owner] = c.prio[t]]
        BY <1>1, <2>1, <3>1, <3>2, PriorityTidy
      <3>4. QED
        BY <1>1, <2>2, <3>3 DEF Lent
    <2>3. CASE ~(c.prio[t] < c.prio[c.mutex.owner])
      <3>1. n = c
        BY <2>3 DEF Inherited
      <3>2. QED
        BY <1>1, <2>3, <3>1 DEF Lent, SameRun, SameObjects, SameMutex, SameQueues
    <2>4. QED
      BY <2>2, <2>3
  <1> HIDE DEF n
  <1>4. /\ TidyBut(s, t) /\ SameRun(n, s) /\ SameObjects(n, s) /\ SameQueues(n, s)
        /\ s.stat = [n.stat EXCEPT ![t] = "suspended"]
        /\ s.prio = n.prio /\ s.error = n.error /\ s.timer = [n.timer EXCEPT ![t] = Off]
    BY <1>1, <1>3, SuspendedTidy
  <1>5. s.stat[t] = "suspended" /\ s.timer[t] = Off
    BY <1>3, <1>4 DEF Tidy, KernelType
  <1> HIDE DEF s
  <1>6. s \in KernelType /\ t \notin MutexQ(s) /\ s.mutex.suspend_thread \in Lists
    BY <1>4 DEF TidyBut, KernelType, MutexType
  <1>7. /\ l \in Lists /\ ToSet(l) = MutexQ(s) \union {t}
        /\ Flag = "PRIO" /\ SortedBy(s.mutex.suspend_thread, s.prio) => SortedBy(l, s.prio)
    BY <1>6, QueuedIn DEF MutexQ
  <1>8. w = [s EXCEPT !.mutex = q]
    BY <1>6 DEF KernelType
  <1> HIDE DEF l
  <1>9. /\ q \in MutexType /\ q.suspend_thread = l
        /\ q.value = s.mutex.value /\ q.owner = s.mutex.owner /\ q.hold = s.mutex.hold
        /\ q.original_priority = s.mutex.original_priority
    BY <1>6, <1>7 DEF KernelType, MutexType
  <1> HIDE DEF q
  <1>10. /\ w \in KernelType /\ w.ready = s.ready /\ w.stat = s.stat /\ w.prio = s.prio
         /\ w.timer = s.timer /\ w.error = s.error /\ w.mutex = q /\ w.sem = s.sem /\ SameRun(s, w)
    BY <1>6, <1>8, <1>9 DEF KernelType, SameRun
  <1> HIDE DEF w
  <1>11. /\ e \in KernelType /\ SameRun(w, e) /\ e.sem = w.sem /\ e.mutex = w.mutex
         /\ e.ready = w.ready /\ e.stat = w.stat /\ e.prio = w.prio /\ e.error = w.error
         /\ \A u \in Threads \ {t} : e.timer[u] = w.timer[u]
    BY <1>2, <1>10, TimerStartedFields
  <1>12. Tidy(e)
    <2>1. /\ e.ready = s.ready /\ e.stat = s.stat /\ e.prio = s.prio
          /\ \A u \in Threads \ {t} : e.timer[u] = s.timer[u]
      BY <1>10, <1>11
    <2>2. MutexQ(e) = MutexQ(s) \union {t} /\ SemQ(e) = SemQ(s) /\ MutexQ(e) # MutexQ(s)
      BY <1>6, <1>7, <1>9, <1>10, <1>11 DEF SemQ, MutexQ
    <2>3. TidyBut(s, t) /\ e \in KernelType
      BY <1>4, <1>11
    <2>4. QED
      BY <1>5, <2>1, <2>2, <2>3, WaitsTidy
  <1>13. SemQ(e) = SemQ(k) /\ MutexQ(e) = MutexQ(k) \union {t}
    <2>1. SemQ(s) = SemQ(k) /\ MutexQ(s) = MutexQ(k)
      BY <1>1, <1>3, <1>4 DEF SameQueues, SemQ, MutexQ
    <2>2. SemQ(e) = SemQ(s) /\ MutexQ(e) = ToSet(l)
      BY <1>9, <1>10, <1>11 DEF SemQ, MutexQ
    <2>3. QED
      BY <1>7, <2>1, <2>2
  <1>14. ASSUME Flag = "PRIO", SortedBy(k.mutex.suspend_thread, k.prio)
         PROVE  SortedBy(e.mutex.suspend_thread, e.prio)
    <2>1. k.mutex.suspend_thread \in Seq(Threads) /\ k.prio \in [Threads -> Priorities]
      BY DEF Tidy, KernelType, MutexType, Lists
    <2>2. \A i \in 1..Len(k.mutex.suspend_thread) :
            /\ k.mutex.suspend_thread[i] # o
            /\ Lent(k, t)[k.mutex.suspend_thread[i]] = k.prio[k.mutex.suspend_thread[i]]
      BY <2>1, SeqFacts DEF MutexQ, Lent
    <2>3. SortedBy(k.mutex.suspend_thread, Lent(k, t))
      BY <1>14, <2>2 DEF SortedBy
    <2>4. s.prio = Lent(k, t) /\ s.prio \in [Threads -> Nat]
      BY <1>3, <1>4, <1>6, Numbers DEF KernelType
    <2>5. SortedBy(s.mutex.suspend_thread, s.prio)
      BY <2>3, <2>4, <1>1, <1>3, <1>4 DEF SameQueues
    <2>6. QED
      BY <2>5, <1>7, <1>14, <1>9, <1>10, <1>11
  <1>15. SameRun(k, e) /\ SameObjects(k, e)
    BY <1>1, <1>3, <1>4, <1>9, <1>10, <1>11 DEF SameRun, SameObjects, SameMutex
  <1>16. QED
    BY <1>1, <1>3, <1>4, <1>10, <1>11, <1>12, <1>13, <1>14, <1>15

\* A change of the mutex's own fields.
LEMMA OwnerTidy ==
  ASSUME NEW k, Tidy(k), NEW m \in MutexType, m.suspend_thread = k.mutex.suspend_thread,
         NEW e, e = [k EXCEPT !.mutex = m]
  PROVE  /\ Tidy(e) /\ SameRun(k, e) /\ e.sem = k.sem /\ e.mutex = m
         /\ e.stat = k.stat /\ e.prio = k.prio /\ e.error = k.error
  <1>1. /\ e \in KernelType /\ e.ready = k.ready /\ e.stat = k.stat /\ e.prio = k.prio
        /\ e.timer = k.timer /\ e.error = k.error /\ e.sem = k.sem /\ e.mutex = m /\ SameRun(k, e)
    BY DEF Tidy, KernelType, SameRun
  <1>2. QED
    BY <1>1, ObjectsTidy

\* The fields of a mutex whose owner becomes t.
LEMMA OwnedTidy ==
  ASSUME NEW k, Tidy(k), NEW t \in Threads, NEW e, e = Owned(k, t)
  PROVE  /\ Tidy(e) /\ SameRun(k, e) /\ e.sem = k.sem
         /\ e.mutex.suspend_thread = k.mutex.suspend_thread
         /\ e.mutex.value = 0 /\ e.mutex.owner = t /\ e.mutex.hold = 1
         /\ e.mutex.original_priority = k.prio[t]
         /\ e.stat = k.stat /\ e.prio = k.prio /\ e.error = k.error
  <1> DEFINE m1 == [k.mutex EXCEPT !.value = 0]
             m2 == [m1 EXCEPT !.owner = t]
             m3 == [m2 EXCEPT !.original_priority = k.prio[t]]
             m == [m3 EXCEPT !.hold = 1]
  <1>1. e = [k EXCEPT !.mutex = m]
    BY DEF Owned, Tidy, KernelType
  <1>2. /\ m \in MutexType /\ m.suspend_thread = k.mutex.suspend_thread
        /\ m.value = 0 /\ m.owner = t /\ m.hold = 1 /\ m.original_priority = k.prio[t]
    <2>1. k.mutex \in MutexType /\ k.prio[t] \in Priorities
      BY DEF Tidy, KernelType
    <2>2. m1 \in MutexType /\ m1.suspend_thread = k.mutex.suspend_thread /\ m1.value = 0
      BY <2>1 DEF MutexType
    <2> HIDE DEF m1
    <2>3. /\ m2 \in MutexType /\ m2.suspend_thread = k.mutex.suspend_thread /\ m2.value = 0
          /\ m2.owner = t
      BY <2>2 DEF MutexType
    <2> HIDE DEF m2
    <2>4. /\ m3 \in MutexType /\ m3.suspend_thread = k.mutex.suspend_thread /\ m3.value = 0
          /\ m3.owner = t /\ m3.original_priority = k.prio[t]
      BY <2>1, <2>3 DEF MutexType
    <2> HIDE DEF m3
    <2>5. QED
      BY <2>4 DEF MutexType
  <1> HIDE DEF m
  <1>3. QED
    BY <1>1, <1>2, OwnerTidy

\* The owner has its own priority back.
LEMMA RestoredTidy ==
  ASSUME NEW k, Tidy(k), k.mutex.owner \in Threads, k.mutex.original_priority \in Priorities,
         NEW e, e = Restored(k)
  PROVE  /\ Tidy(e) /\ e.current = k.current /\ e.lock_nest = k.lock_nest
         /\ SameObjects(k, e) /\ SameQueues(k, e) /\ e.stat = k.stat /\ e.error = k.error
         /\ e.prio = [k.prio EXCEPT ![k.mutex.owner] = k.mutex.original_priority]
         /\ ~e.lowered => ~k.lowered /\ e.prio = k.prio
  <1> DEFINE o == k.mutex.owner
             p == k.mutex.original_priority
             l == [k EXCEPT !.lowered = TRUE]
  <1>1. CASE p # k.prio[o]
    <2>1. e = ChangePriority(l, o, p)
      BY <1>1 DEF Restored
    <2>2. /\ l \in KernelType /\ l.current = k.current /\ l.lock_nest = k.lock_nest /\ l.lowered
          /\ l.ready = k.ready /\ l.stat = k.stat /\ l.prio = k.prio /\ l.timer = k.timer
          /\ l.error = k.error /\ l.sem = k.sem /\ l.mutex = k.mutex
      BY DEF Tidy, KernelType
    <2> HIDE DEF l
    <2>3. Tidy(l)
      BY <2>2, ObjectsTidy
    <2>4. /\ Tidy(e) /\ SameRun(l, e) /\ SameObjects(l, e) /\ SameQueues(l, e)
          /\ e.stat = l.stat /\ e.error = l.error /\ e.timer = l.timer
          /\ e.prio = [l.prio EXCEPT ![o] = p]
      BY <2>1, <2>3, PriorityTidy
    <2>5. QED
      BY <2>2, <2>4 DEF SameRun, SameObjects, SameMutex, SameQueues, SemQ, MutexQ
  <1>2. CASE p = k.prio[o]
    <2>1. e = k
      BY <1>2 DEF Restored
    <2>2. [k.prio EXCEPT ![o] = p] = k.prio
      BY <1>2 DEF Tidy, KernelType
    <2>3. QED
      BY <2>1, <2>2 DEF SameObjects, SameMutex, SameQueues
  <1>3. QED
    BY <1>1, <1>2

\* Nobody waits: the mutex is free.
LEMMA FreedTidy ==
  ASSUME NEW k, Tidy(k), k.mutex.owner \in Threads, k.mutex.original_priority \in Priorities,
         MutexQ(k) = {}, NEW e, e = MutexPassOn(k)
  PROVE  /\ Tidy(e) /\ e.current = k.current /\ e.lock_nest = k.lock_nest
         /\ e.sem.value = k.sem.value /\ SemQ(e) = SemQ(k) /\ MutexQ(e) = {}
         /\ e.mutex.value = 1 /\ e.mutex.owner = Nobody
         /\ e.stat = k.stat /\ e.error = k.error
         /\ e.prio = [k.prio EXCEPT ![k.mutex.owner] = k.mutex.original_priority]
         /\ ~e.lowered => ~k.lowered /\ e.prio = k.prio
  <1> DEFINE r == Restored(k)
             m1 == [r.mutex EXCEPT !.value = 1]
             m2 == [m1 EXCEPT !.owner = Nobody]
             m3 == [m2 EXCEPT !.hold = 0]
             m == [m3 EXCEPT !.original_priority = NoPriority]
  <1>1. /\ Tidy(r) /\ r.current = k.current /\ r.lock_nest = k.lock_nest
        /\ SameObjects(k, r) /\ SameQueues(k, r) /\ r.stat = k.stat /\ r.error = k.error
        /\ r.prio = [k.prio EXCEPT ![k.mutex.owner] = k.mutex.original_priority]
        /\ ~r.lowered => ~k.lowered /\ r.prio = k.prio
    BY RestoredTidy
  <1>2. e = [r EXCEPT !.mutex = m]
    <2>1. r.mutex.suspend_thread \in Seq(Threads) /\ MutexQ(r) = {}
      BY <1>1 DEF Tidy, KernelType, MutexType, Lists, SameQueues
    <2>2. r.mutex.suspend_thread = <<>>
      BY <2>1, SeqFacts DEF MutexQ
    <2> HIDE DEF r
    <2>3. e = [r EXCEPT !.mutex.value = 1, !.mutex.owner = Nobody, !.mutex.hold = 0,
                        !.mutex.original_priority = NoPriority]
      BY <2>2 DEF MutexPassOn, r
    <2>4. QED
      BY <2>3, <1>1 DEF Tidy, KernelType
  <1> HIDE DEF r
  <1>3. /\ m \in MutexType /\ m.suspend_thread = r.mutex.suspend_thread
        /\ m.value = 1 /\ m.owner = Nobody
    <2>1. r.mutex \in MutexType
      BY <1>1 DEF Tidy, KernelType
    <2>2. m1 \in MutexType /\ m1.suspend_thread = r.mutex.suspend_thread /\ m1.value = 1
      BY <2>1 DEF MutexType
    <2> HIDE DEF m1
    <2>3. /\ m2 \in MutexType /\ m2.suspend_thread = r.mutex.suspend_thread /\ m2.value = 1
          /\ m2.owner = Nobody
      BY <2>2 DEF MutexType
    <2> HIDE DEF m2
    <2>4. /\ m3 \in MutexType /\ m3.suspend_thread = r.mutex.suspend_thread /\ m3.value = 1
          /\ m3.owner = Nobody
      BY <2>3 DEF MutexType
    <2> HIDE DEF m3
    <2>5. QED
      BY <2>4 DEF MutexType
  <1> HIDE DEF m
  <1>4. /\ Tidy(e) /\ SameRun(r, e) /\ e.sem = r.sem /\ e.mutex = m
        /\ e.stat = r.stat /\ e.prio = r.prio /\ e.error = r.error
    BY <1>1, <1>2, <1>3, OwnerTidy
  <1>5. QED
    BY <1>1, <1>3, <1>4 DEF SameRun, SameObjects, SameQueues, SemQ, MutexQ

\* The first waiter has the mutex.
LEMMA HandedTo ==
  ASSUME NEW r, Tidy(r), NEW w \in Threads, w \in MutexQ(r),
         NEW e, e = ThreadResume(Owned(r, w), w)
  PROVE  /\ Tidy(e) /\ SameRun(r, e) /\ e.sem.value = r.sem.value /\ QueuesWithout(r, e, w)
         /\ e.mutex.value = 0 /\ e.mutex.owner = w /\ e.mutex.hold = 1
         /\ e.mutex.original_priority = r.prio[w]
         /\ e.stat = [r.stat EXCEPT ![w] = "ready"] /\ e.prio = r.prio /\ e.error = r.error
  <1>1. PICK n : n = Owned(r, w)
    OBVIOUS
  <1>2. /\ Tidy(n) /\ SameRun(r, n) /\ n.sem = r.sem
        /\ n.mutex.suspend_thread = r.mutex.suspend_thread
        /\ n.mutex.value = 0 /\ n.mutex.owner = w /\ n.mutex.hold = 1
        /\ n.mutex.original_priority = r.prio[w]
        /\ n.stat = r.stat /\ n.prio = r.prio /\ n.error = r.error
    BY <1>1, OwnedTidy
  <1>3. n.stat[w] = "suspended"
    <2>1. w \in MutexQ(n)
      BY <1>2 DEF MutexQ
    <2>2. QED
      BY <1>2, <2>1 DEF Tidy, InOneList, Waiting, MutexQ
  <1>4. e = ThreadResume(n, w)
    BY <1>1
  <1>5. /\ Tidy(e) /\ SameRun(n, e) /\ SameObjects(n, e) /\ QueuesWithout(n, e, w)
        /\ e.stat = [n.stat EXCEPT ![w] = "ready"]
        /\ e.prio = n.prio /\ e.error = n.error /\ e.timer = [n.timer EXCEPT ![w] = Off]
    BY <1>2, <1>3, <1>4, ResumedTidy
  <1>6. QED
    BY <1>2, <1>5 DEF SameRun, SameObjects, SameMutex, QueuesWithout, SemQ, MutexQ

\* The mutex of k is the waiter w's in e.
Handed(k, e, w) ==
  /\ Tidy(e) /\ e.current = k.current /\ e.lock_nest = k.lock_nest
  /\ e.sem.value = k.sem.value /\ SemQ(e) = SemQ(k) \ {w} /\ MutexQ(e) = MutexQ(k) \ {w}
  /\ e.mutex.value = 0 /\ e.mutex.owner = w /\ e.mutex.hold = 1
  /\ e.mutex.original_priority = e.prio[w]
  /\ e.stat = [k.stat EXCEPT ![w] = "ready"] /\ e.error = k.error
  /\ e.prio = [k.prio EXCEPT ![k.mutex.owner] = k.mutex.original_priority]
  /\ \A f \in [Threads -> Nat] : SortedBy(k.mutex.suspend_thread, f) =>
       SortedBy(e.mutex.suspend_thread, f) /\ \A u \in MutexQ(k) : f[w] <= f[u]

\* rt_mutex_release with a waiter: the first one has it.
LEMMA HandedTidy ==
  ASSUME NEW k, Tidy(k), k.mutex.owner \in Threads, k.mutex.original_priority \in Priorities,
         MutexQ(k) # {}, NEW e, e = MutexPassOn(k)
  PROVE  \E w \in MutexQ(k) : Handed(k, e, w)
  <1>1. PICK r : r = Restored(k)
    OBVIOUS
  <1>2. /\ Tidy(r) /\ r.current = k.current /\ r.lock_nest = k.lock_nest
        /\ SameObjects(k, r) /\ SameQueues(k, r) /\ r.stat = k.stat /\ r.error = k.error
        /\ r.prio = [k.prio EXCEPT ![k.mutex.owner] = k.mutex.original_priority]
        /\ ~r.lowered => ~k.lowered /\ r.prio = k.prio
    BY <1>1, RestoredTidy
  <1>3. PICK q \in Seq(Threads) : q = r.mutex.suspend_thread
    BY <1>2 DEF Tidy, KernelType, MutexType, Lists
  <1>4. ToSet(q) = MutexQ(k) /\ MutexQ(r) = MutexQ(k)
    BY <1>2, <1>3 DEF SameQueues, MutexQ
  <1>5. PICK w \in Threads : w = Head(q) /\ w = q[1] /\ w \in MutexQ(k) /\ q # <<>>
    BY <1>4, SeqFacts
  <1>6. ASSUME NEW f \in [Threads -> Nat], SortedBy(q, f), NEW u \in MutexQ(k)
        PROVE  f[w] <= f[u]
    <2>1. PICK i \in 1..Len(q) : u = q[i]
      BY <1>4, SeqFacts
    <2>2. f[w] \in Nat /\ 1 \in 1..Len(q)
      BY <2>1
    <2>3. CASE i = 1
      BY <1>5, <2>1, <2>2, <2>3
    <2>4. CASE i # 1
      BY <1>5, <1>6, <2>1, <2>2, <2>4 DEF SortedBy
    <2>5. QED
      BY <2>3, <2>4
  <1>7. e = ThreadResume(Owned(r, w), w)
    BY <1>1, <1>3, <1>5 DEF MutexPassOn
  <1>8. Tidy(r) /\ w \in Threads /\ w \in MutexQ(r)
    BY <1>2, <1>4, <1>5
  <1>9. /\ Tidy(e) /\ SameRun(r, e) /\ e.sem.value = r.sem.value /\ QueuesWithout(r, e, w)
        /\ e.mutex.value = 0 /\ e.mutex.owner = w /\ e.mutex.hold = 1
        /\ e.mutex.original_priority = r.prio[w]
        /\ e.stat = [r.stat EXCEPT ![w] = "ready"] /\ e.prio = r.prio /\ e.error = r.error
    BY <1>7, <1>8, HandedTo
  <1>10. SemQ(e) = SemQ(k) \ {w} /\ MutexQ(e) = MutexQ(k) \ {w}
    BY <1>2, <1>9 DEF QueuesWithout, SameQueues
  <1>11. \A f \in [Threads -> Nat] : SortedBy(k.mutex.suspend_thread, f) =>
           SortedBy(e.mutex.suspend_thread, f) /\ \A u \in MutexQ(k) : f[w] <= f[u]
    BY <1>2, <1>3, <1>6, <1>9 DEF SameQueues, QueuesWithout
  <1>12. /\ e.current = k.current /\ e.lock_nest = k.lock_nest /\ e.sem.value = k.sem.value
         /\ e.mutex.original_priority = e.prio[w]
    BY <1>2, <1>9 DEF SameRun, SameObjects
  <1>13. /\ e.stat = [k.stat EXCEPT ![w] = "ready"] /\ e.error = k.error
         /\ e.prio = [k.prio EXCEPT ![k.mutex.owner] = k.mutex.original_priority]
    BY <1>2, <1>9
  <1>14. QED
    <2>1. Handed(k, e, w)
      BY <1>9, <1>10, <1>11, <1>12, <1>13 DEF Handed
    <2>2. QED
      BY <1>5, <2>1

\* rt_sem_release up to its rt_schedule.
LEMMA ReleasedTidy ==
  ASSUME NEW k, Tidy(k), NEW e, e = SemRelease(k)
  PROVE  /\ SemQ(k) = {} =>
              /\ Tidy(e) /\ SameRun(k, e) /\ e.mutex = k.mutex /\ SemQ(e) = {}
              /\ e.sem.value = k.sem.value + 1 /\ e.stat = k.stat /\ e.prio = k.prio /\ e.error = k.error
         /\ SemQ(k) # {} =>
              LET w == Head(k.sem.suspend_thread)
              IN /\ w \in SemQ(k) /\ w \in Threads
                 /\ Tidy(e) /\ SameRun(k, e) /\ SameObjects(k, e) /\ QueuesWithout(k, e, w)
                 /\ e.stat = [k.stat EXCEPT ![w] = "ready"] /\ e.prio = k.prio /\ e.error = k.error
  <1>1. k.sem.suspend_thread \in Seq(Threads) /\ k.sem.value \in Nat
    BY DEF Tidy, KernelType, SemType, Lists
  <1>2. CASE SemQ(k) = {}
    <2>1. k.sem.suspend_thread = <<>>
      BY <1>1, <1>2, SeqFacts DEF SemQ
    <2>2. e = [k EXCEPT !.sem.value = @ + 1]
      BY <2>1 DEF SemRelease
    <2>3. PICK v \in Nat : v = k.sem.value + 1
      BY <1>1
    <2>4. e = [k EXCEPT !.sem.value = v]
      BY <2>2, <2>3
    <2>5. QED
      BY <1>2, <2>3, <2>4, SemCountTidy
  <1>3. CASE SemQ(k) # {}
    <2>1. /\ k.sem.suspend_thread # <<>> /\ Head(k.sem.suspend_thread) \in SemQ(k)
          /\ Head(k.sem.suspend_thread) \in Threads
      BY <1>1, <1>3, SeqFacts DEF SemQ
    <2> PICK w \in Threads : w = Head(k.sem.suspend_thread)
      BY <2>1
    <2>2. e = ThreadResume(k, w)
      BY <2>1 DEF SemRelease
    <2>3. Tidy(k) /\ w \in Threads /\ k.stat[w] = "suspended"
      BY <2>1 DEF Tidy, InOneList, Waiting, SemQ
    <2>4. /\ Tidy(e) /\ SameRun(k, e) /\ SameObjects(k, e) /\ QueuesWithout(k, e, w)
          /\ e.stat = [k.stat EXCEPT ![w] = "ready"] /\ e.prio = k.prio /\ e.error = k.error
          /\ e.timer = [k.timer EXCEPT ![w] = Off]
      BY <2>2, <2>3, ResumedTidy
    <2>5. QED
      BY <1>3, <2>1, <2>4
  <1>4. QED
    BY <1>2, <1>3
----------------------------------------------------------------------------
SemPcs    == {"sem_schedule", "sem_woken"}
MutexPcs  == {"mutex_schedule", "mutex_woken"}
Blocking  == {"sem_schedule", "mutex_schedule", "sleep_schedule"}
WaitPcs   == SemPcs \union MutexPcs \union {"sleep_schedule", "sleep_woken"}
Schedules == Blocking \union {"schedule"}
Places    == WaitPcs \union {"run", "schedule"}

\* A thread is suspended only inside a call that waits; the running thread only
\* before that call's rt_schedule, which will switch.
PcInv ==
  /\ pc \in [Threads -> Places] /\ isr \in BOOLEAN /\ pc[Idle] = "run"
  /\ \A t \in Threads : kernel.stat[t] = "suspended" => pc[t] \in WaitPcs
  /\ kernel.stat[kernel.current] = "suspended" =>
       pc[kernel.current] \in Blocking /\ kernel.lock_nest = 0
  /\ \A t \in SemQ(kernel) : pc[t] \in SemPcs
  /\ \A t \in MutexQ(kernel) : pc[t] \in MutexPcs
  /\ \A t \in Threads : kernel.stat[t] = "suspended" /\ pc[t] \in SemPcs \union MutexPcs
       => kernel.error[t] = "ok"

HasType ==
  /\ has = [ tokens |-> has.tokens, told |-> has.told, depth |-> has.depth ]
  /\ has.tokens \subseteq Threads /\ has.told \subseteq Threads /\ has.depth \in [Threads -> Nat]

\* A thread in rt_sem_take has a token exactly if it is ready and without an error.
SemInv ==
  /\ has.told \subseteq has.tokens
  /\ \A t \in Threads : pc[t] \in SemPcs =>
       t \notin has.told /\ (t \in has.tokens <=> kernel.stat[t] = "ready" /\ kernel.error[t] = "ok")
  /\ \A t \in Threads : pc[t] \notin SemPcs => (t \in has.tokens => t \in has.told)
  /\ SemQ(kernel) # {} => kernel.sem.value = 0
  /\ SemInit <= kernel.sem.value + Cardinality(has.tokens)
  /\ kernel.sem.value + Cardinality(has.tokens) <= MaxTokens

\* A thread in rt_mutex_take is the owner exactly if it is ready and without an error,
\* any other exactly if it was told.
MutexInv ==
  /\ kernel.mutex.value = 1 <=> kernel.mutex.owner = Nobody
  /\ MutexQ(kernel) # {} => kernel.mutex.owner # Nobody
  /\ \A t \in Threads : pc[t] \in MutexPcs =>
       /\ has.depth[t] = 0
       /\ kernel.mutex.owner = t <=> kernel.stat[t] = "ready" /\ kernel.error[t] = "ok"
       /\ kernel.mutex.owner = t => kernel.mutex.hold = 1
  /\ \A t \in Threads : pc[t] \notin MutexPcs =>
       /\ kernel.mutex.owner = t <=> has.depth[t] > 0
       /\ has.depth[t] > 0 => kernel.mutex.hold = has.depth[t]

\* The owner's own priority is kept, every other thread runs at its own, and a queue
\* by priority is one, so that its first is the right next owner.
PrioInv ==
  /\ kernel.mutex.owner \in Threads =>
       kernel.mutex.original_priority = InitPriority[kernel.mutex.owner]
  /\ \A t \in Threads : t # kernel.mutex.owner => kernel.prio[t] = InitPriority[t]
  /\ Flag = "PRIO" =>
       /\ SortedBy(kernel.mutex.suspend_thread, kernel.prio)
       /\ \A t \in MutexQ(kernel) : kernel.prio[kernel.mutex.owner] <= kernel.prio[t]

\* Unless it is about to call rt_schedule, the running thread is the one to run.
RunInv ==
  pc[kernel.current] \notin Schedules /\ kernel.lock_nest = 0 /\ ~kernel.lowered
    => HighestReady(kernel)

IInv ==
  Tidy(kernel) /\ PcInv /\ HasType /\ SemInv /\ MutexInv /\ PrioInv /\ RunInv
----------------------------------------------------------------------------
\* The types a step needs, from the kernel being tidy.
LEMMA Sorts ==
  ASSUME Tidy(kernel)
  PROVE  /\ kernel.stat \in [Threads -> {"ready", "suspended"}] /\ kernel.current \in Threads
         /\ kernel.prio \in [Threads -> Priorities] /\ kernel.prio \in [Threads -> Nat]
         /\ kernel.error \in [Threads -> Errors] /\ kernel.lock_nest \in Nat
         /\ kernel.sem.value \in Nat /\ kernel.mutex.value \in 0..1 /\ kernel.mutex.hold \in Nat
         /\ kernel.mutex.owner \in Threads \union {Nobody}
         /\ SemQ(kernel) \subseteq Threads /\ MutexQ(kernel) \subseteq Threads
         /\ \A t \in SemQ(kernel) \union MutexQ(kernel) : kernel.stat[t] = "suspended"
         /\ SemQ(kernel) \intersect MutexQ(kernel) = {}
         /\ (kernel.sem.suspend_thread = <<>> <=> SemQ(kernel) = {})
         /\ (kernel.mutex.suspend_thread = <<>> <=> MutexQ(kernel) = {})
  <1>1. kernel \in KernelType
    BY DEF Tidy
  <1>2. /\ kernel.stat \in [Threads -> {"ready", "suspended"}] /\ kernel.current \in Threads
        /\ kernel.prio \in [Threads -> Priorities]
        /\ kernel.error \in [Threads -> Errors] /\ kernel.lock_nest \in Nat
        /\ kernel.sem \in SemType /\ kernel.mutex \in MutexType
    BY <1>1 DEF KernelType
  <1>3. kernel.prio \in [Threads -> Nat]
    BY <1>2, Numbers
  <1>4. kernel.sem.suspend_thread \in Seq(Threads) /\ kernel.mutex.suspend_thread \in Seq(Threads)
    BY <1>2 DEF SemType, MutexType, Lists
  <1>5. /\ SemQ(kernel) \subseteq Threads /\ MutexQ(kernel) \subseteq Threads
        /\ (kernel.sem.suspend_thread = <<>> <=> SemQ(kernel) = {})
        /\ (kernel.mutex.suspend_thread = <<>> <=> MutexQ(kernel) = {})
    BY <1>4, SeqFacts DEF SemQ, MutexQ
  <1>6. /\ \A t \in SemQ(kernel) \union MutexQ(kernel) : kernel.stat[t] = "suspended"
        /\ SemQ(kernel) \intersect MutexQ(kernel) = {}
    BY <1>5 DEF Tidy, InOneList, Waiting, SemQ, MutexQ
  <1>7. /\ kernel.sem.value \in Nat /\ kernel.mutex.value \in 0..1 /\ kernel.mutex.hold \in Nat
        /\ kernel.mutex.owner \in Threads \union {Nobody}
    BY <1>2 DEF SemType, MutexType
  <1>8. QED
    BY <1>2, <1>3, <1>5, <1>6, <1>7

\* The idle thread makes no call, so it is never suspended.
LEMMA IdleReady ==
  ASSUME IInv
  PROVE  kernel.stat[Idle] = "ready"
  BY Sorts, Numbers DEF IInv, PcInv, WaitPcs, SemPcs, MutexPcs

\* A thread that makes a call runs and is ready, and in no queue.
LEMMA CallFacts ==
  ASSUME IInv, NEW t \in Threads, Calls(t)
  PROVE  /\ kernel.current = t /\ pc[t] = "run" /\ t # Idle /\ ~isr
         /\ kernel.stat[t] = "ready" /\ t \notin SemQ(kernel) /\ t \notin MutexQ(kernel)
         /\ kernel.lock_nest = 0 /\ ~kernel.lowered => HighestReady(kernel)
  <1>1. kernel.current = t /\ pc[t] = "run" /\ t # Idle /\ ~isr
    BY DEF Calls
  <1>2. kernel.stat[t] = "ready"
    BY <1>1, Sorts DEF IInv, PcInv, WaitPcs, SemPcs, MutexPcs
  <1>3. t \notin SemQ(kernel) /\ t \notin MutexQ(kernel)
    BY <1>2, Sorts DEF IInv
  <1>4. pc[kernel.current] \notin Schedules
    BY <1>1 DEF Schedules, Blocking
  <1>5. QED
    BY <1>1, <1>2, <1>3, <1>4 DEF IInv, RunInv

\* What a section of a call does to every thread's place.
LEMMA PcMoved ==
  ASSUME IInv, NEW t \in Threads, NEW k, NEW next, Section(t, k, next)
  PROVE  /\ kernel' = k /\ isr' = isr /\ pc'[t] = next
         /\ \A u \in Threads : u # t => pc'[u] = pc[u]
         /\ next \in Places => pc' \in [Threads -> Places]
  BY DEF IInv, PcInv, Section

\* Counting a set of threads.
LEMMA TokenCounts ==
  ASSUME NEW S \in SUBSET Threads, NEW t \in Threads
  PROVE  /\ Cardinality(S) \in Nat
         /\ t \notin S => Cardinality(S \union {t}) = Cardinality(S) + 1
         /\ t \in S => Cardinality(S \ {t}) = Cardinality(S) - 1
  <1>1. IsFiniteSet(S)
    BY Numbers, FS_Subset
  <1>2. QED
    BY <1>1, FS_CardinalityType, FS_AddElement, FS_RemoveElement

\* A call that leaves the mutex, its waiters and every thread's priority alone.
LEMMA MutexUntouched ==
  ASSUME IInv, Tidy(kernel)', SameMutex(kernel, kernel'), MutexQ(kernel') = MutexQ(kernel),
         kernel'.prio = kernel.prio, SortedBy(kernel.mutex.suspend_thread, kernel.prio)
                                       => SortedBy(kernel'.mutex.suspend_thread, kernel.prio),
         HasType', has'.depth = has.depth,
         \A u \in Threads : (pc'[u] \in MutexPcs) = (pc[u] \in MutexPcs),
         \A u \in Threads : pc[u] \in MutexPcs =>
           kernel'.stat[u] = kernel.stat[u] /\ kernel'.error[u] = kernel.error[u]
  PROVE  MutexInv' /\ PrioInv'
  <1>1. MutexInv'
    BY DEF IInv, MutexInv, SameMutex
  <1>2. PrioInv'
    BY DEF IInv, PrioInv, SameMutex
  <1>3. QED
    BY <1>1, <1>2

\* rt_sem_take finds a token, or waits.
LEMMA SemTakeStep ==
  ASSUME IInv, NEW t \in Threads, SemTake(t)
  PROVE  IInv'
  <1>1. Calls(t) /\ t \notin has.told
    BY DEF SemTake
  <1>2. /\ kernel.current = t /\ pc[t] = "run" /\ t # Idle /\ ~isr
        /\ kernel.stat[t] = "ready" /\ t \notin SemQ(kernel) /\ t \notin MutexQ(kernel)
        /\ kernel.lock_nest = 0 /\ ~kernel.lowered => HighestReady(kernel)
    BY <1>1, CallFacts
  <1>3. t \notin has.tokens
    BY <1>1, <1>2 DEF IInv, SemInv, SemPcs
  <1>4. CASE /\ kernel.sem.value > 0
             /\ Section(t, [kernel EXCEPT !.sem.value = @ - 1], "run")
             /\ has' = [has EXCEPT !.tokens = @ \union {t}, !.told = @ \union {t}]
    <2>1. PICK v \in Nat : v = kernel.sem.value - 1
      BY <1>4, Sorts DEF IInv
    <2>2. PICK e : e = [kernel EXCEPT !.sem.value = v]
      OBVIOUS
    <2>3. /\ Tidy(e) /\ SameRun(kernel, e) /\ e.mutex = kernel.mutex /\ SemQ(e) = SemQ(kernel)
          /\ e.sem.value = v /\ e.sem.suspend_thread = kernel.sem.suspend_thread
          /\ e.stat = kernel.stat /\ e.prio = kernel.prio /\ e.error = kernel.error
      BY <2>2, SemCountTidy DEF IInv
    <2>4. /\ kernel' = e /\ isr' = isr /\ pc'[t] = "run" /\ pc' \in [Threads -> Places]
          /\ \A u \in Threads : u # t => pc'[u] = pc[u]
      BY <1>4, <2>1, <2>2, PcMoved DEF Places
    <2>5. \A u \in Threads : pc'[u] = pc[u]
      BY <1>2, <2>4
    <2>6. PcInv'
      BY <2>3, <2>4, <2>5, Sorts, Numbers DEF IInv, PcInv, SameRun, MutexQ
    <2>7. /\ HasType' /\ has'.tokens = has.tokens \union {t} /\ has'.told = has.told \union {t}
          /\ has'.depth = has.depth
      BY <1>4 DEF IInv, HasType
    <2>8. SemInv'
      <3>1. SemQ(kernel) = {}
        BY <1>4, Sorts DEF IInv, SemInv
      <3>2. Cardinality(has'.tokens) = Cardinality(has.tokens) + 1 /\ Cardinality(has.tokens) \in Nat
        BY <1>3, <2>7, TokenCounts DEF IInv, HasType
      <3>3. kernel.sem.value \in Nat
        BY Sorts DEF IInv
      <3>4. QED
        BY <1>2, <2>1, <2>3, <2>4, <2>5, <2>7, <3>1, <3>2, <3>3, Numbers DEF IInv, SemInv, SemPcs
    <2>9. MutexInv' /\ PrioInv'
      BY <2>3, <2>4, <2>5, <2>7, MutexUntouched DEF SameMutex, MutexQ
    <2>10. RunInv'
      BY <1>2, <2>3, <2>4 DEF RunInv, HighestReady, SameRun
    <2>11. QED
      BY <2>3, <2>4, <2>6, <2>7, <2>8, <2>9, <2>10 DEF IInv
  <1>5. CASE /\ kernel.sem.value = 0 /\ kernel.lock_nest = 0
             /\ \E time \in Times \union {Forever} :
                  Section(t, SemWait(kernel, t, time), "sem_schedule")
             /\ UNCHANGED has
    <2>1. PICK time \in Times \union {Forever} : Section(t, SemWait(kernel, t, time), "sem_schedule")
      BY <1>5
    <2>2. PICK e : e = SemWait(kernel, t, time)
      OBVIOUS
    <2>3. /\ Tidy(e) /\ SameRun(kernel, e) /\ SameObjects(kernel, e)
          /\ SemQ(e) = SemQ(kernel) \union {t} /\ MutexQ(e) = MutexQ(kernel)
          /\ \A f \in [Threads -> Nat] :
               SortedBy(kernel.mutex.suspend_thread, f) => SortedBy(e.mutex.suspend_thread, f)
          /\ e.stat = [kernel.stat EXCEPT ![t] = "suspended"] /\ e.prio = kernel.prio
          /\ e.error = [kernel.error EXCEPT ![t] = "ok"]
      BY <1>2, <2>2, SemWaitTidy DEF IInv
    <2>4. /\ kernel' = e /\ isr' = isr /\ pc'[t] = "sem_schedule" /\ pc' \in [Threads -> Places]
          /\ \A u \in Threads : u # t => pc'[u] = pc[u]
      BY <2>1, <2>2, PcMoved DEF Places, WaitPcs, SemPcs
    <2>5. /\ kernel'.stat[t] = "suspended" /\ kernel'.error[t] = "ok"
          /\ \A u \in Threads : u # t => kernel'.stat[u] = kernel.stat[u]
                                         /\ kernel'.error[u] = kernel.error[u]
      BY <2>3, <2>4, Sorts DEF IInv
    <2>6. PcInv'
      <3>1. /\ "sem_schedule" \in SemPcs /\ "sem_schedule" \in WaitPcs
            /\ "sem_schedule" \in Blocking
        BY DEF SemPcs, WaitPcs, Blocking
      <3>2. pc' \in [Threads -> Places] /\ isr' \in BOOLEAN /\ pc'[Idle] = "run"
        BY <1>2, <2>4, Numbers DEF IInv, PcInv
      <3>3. \A u \in Threads : kernel'.stat[u] = "suspended" => pc'[u] \in WaitPcs
        BY <2>4, <2>5, <3>1 DEF IInv, PcInv
      <3>4. kernel'.current = t /\ kernel'.lock_nest = 0
        BY <1>2, <1>5, <2>3, <2>4 DEF SameRun
      <3>5. /\ \A u \in SemQ(kernel') : pc'[u] \in SemPcs
            /\ \A u \in MutexQ(kernel') : pc'[u] \in MutexPcs
        BY <1>2, <2>3, <2>4, <3>1, Sorts DEF IInv, PcInv
      <3>6. \A u \in Threads : kernel'.stat[u] = "suspended" /\ pc'[u] \in SemPcs \union MutexPcs
              => kernel'.error[u] = "ok"
        BY <2>4, <2>5 DEF IInv, PcInv
      <3>7. QED
        BY <2>4, <3>1, <3>2, <3>3, <3>4, <3>5, <3>6 DEF PcInv
    <2>7. HasType' /\ has' = has
      BY <1>5 DEF IInv, HasType
    <2>8. SemInv'
      BY <1>1, <1>3, <1>5, <2>3, <2>4, <2>5, <2>7 DEF IInv, SemInv, SameObjects, SemPcs
    <2>9. MutexInv' /\ PrioInv'
      <3>1. pc[t] \notin MutexPcs /\ pc'[t] \notin MutexPcs
        BY <1>2, <2>4 DEF MutexPcs
      <3>2. \A u \in Threads : (pc'[u] \in MutexPcs) = (pc[u] \in MutexPcs)
        BY <2>4, <3>1
      <3>3. \A u \in Threads : pc[u] \in MutexPcs =>
              kernel'.stat[u] = kernel.stat[u] /\ kernel'.error[u] = kernel.error[u]
        BY <2>5, <3>1
      <3>4. SortedBy(kernel.mutex.suspend_thread, kernel.prio)
              => SortedBy(kernel'.mutex.suspend_thread, kernel.prio)
        BY <2>3, <2>4, Sorts DEF IInv
      <3>5. QED
        BY <2>3, <2>4, <2>7, <3>2, <3>3, <3>4, MutexUntouched DEF SameObjects
    <2>10. RunInv'
      BY <1>2, <2>3, <2>4 DEF RunInv, SameRun, Schedules, Blocking
    <2>11. QED
      BY <2>3, <2>4, <2>6, <2>7, <2>8, <2>9, <2>10 DEF IInv
  <1>6. QED
    BY <1>4, <1>5 DEF SemTake

\* The same for the semaphore.
LEMMA SemUntouched ==
  ASSUME IInv, kernel'.sem.value = kernel.sem.value, SemQ(kernel') = SemQ(kernel),
         has'.tokens = has.tokens, has'.told = has.told,
         \A u \in Threads : (pc'[u] \in SemPcs) = (pc[u] \in SemPcs),
         \A u \in Threads : pc[u] \in SemPcs =>
           kernel'.stat[u] = kernel.stat[u] /\ kernel'.error[u] = kernel.error[u]
  PROVE  SemInv'
  BY DEF IInv, SemInv

\* The running thread goes from one place to another.
LEMMA PcNext ==
  ASSUME IInv, NEW t \in Threads, t # Idle, NEW next, pc'[t] = next,
         pc' \in [Threads -> Places], isr' \in BOOLEAN,
         \A u \in Threads : u # t => pc'[u] = pc[u],
         kernel'.current = t,
         \A u \in Threads : u # t /\ kernel'.stat[u] = "suspended" =>
           kernel.stat[u] = "suspended" /\ kernel'.error[u] = kernel.error[u],
         kernel'.stat[t] = "suspended" =>
           next \in Blocking /\ kernel'.lock_nest = 0 /\ kernel'.error[t] = "ok",
         t \notin SemQ(kernel), t \notin MutexQ(kernel),
         SemQ(kernel') \subseteq SemQ(kernel) \/ (SemQ(kernel') \subseteq SemQ(kernel) \union {t}
                                                  /\ next \in SemPcs),
         MutexQ(kernel') \subseteq MutexQ(kernel) \/ (MutexQ(kernel') \subseteq MutexQ(kernel) \union {t}
                                                      /\ next \in MutexPcs)
  PROVE  PcInv'
  <1>1. pc' \in [Threads -> Places] /\ isr' \in BOOLEAN /\ pc'[Idle] = "run"
    BY Numbers DEF IInv, PcInv
  <1>2. \A u \in Threads : kernel'.stat[u] = "suspended" => pc'[u] \in WaitPcs
    BY DEF IInv, PcInv, Blocking, WaitPcs, SemPcs, MutexPcs
  <1>3. kernel'.stat[kernel'.current] = "suspended" =>
          pc'[kernel'.current] \in Blocking /\ kernel'.lock_nest = 0
    OBVIOUS
  <1>4. /\ \A u \in SemQ(kernel') : pc'[u] \in SemPcs
        /\ \A u \in MutexQ(kernel') : pc'[u] \in MutexPcs
    BY Sorts DEF IInv, PcInv
  <1>5. \A u \in Threads : kernel'.stat[u] = "suspended" /\ pc'[u] \in SemPcs \union MutexPcs
          => kernel'.error[u] = "ok"
    BY DEF IInv, PcInv
  <1>6. QED
    BY <1>1, <1>2, <1>3, <1>4, <1>5 DEF PcInv

\* Back in the call after rt_schedule, a thread is ready.
LEMMA WokenFacts ==
  ASSUME IInv, NEW t \in Threads, kernel.current = t, pc[t] \notin Schedules, pc[t] # "run"
  PROVE  /\ kernel.stat[t] = "ready" /\ t \notin SemQ(kernel) /\ t \notin MutexQ(kernel)
         /\ t # Idle
         /\ kernel.lock_nest = 0 /\ ~kernel.lowered => HighestReady(kernel)
  <1>1. kernel.stat[t] = "ready"
    BY Sorts DEF IInv, PcInv, Schedules
  <1>2. t \notin SemQ(kernel) /\ t \notin MutexQ(kernel)
    BY <1>1, Sorts DEF IInv
  <1>3. t # Idle
    BY DEF IInv, PcInv
  <1>4. QED
    BY <1>1, <1>2, <1>3 DEF IInv, RunInv

\* rt_sem_take returns after waiting.
LEMMA SemTakenStep ==
  ASSUME IInv, NEW t \in Threads, SemTaken(t)
  PROVE  IInv'
  <1>1. /\ kernel.current = t /\ pc[t] = "sem_woken" /\ ~isr /\ Section(t, kernel, "run")
        /\ has' = [has EXCEPT !.told = IF kernel.error[t] = "ok" THEN @ \union {t} ELSE @]
    BY DEF SemTaken
  <1>2. /\ kernel.stat[t] = "ready" /\ t \notin SemQ(kernel) /\ t \notin MutexQ(kernel)
        /\ t # Idle
        /\ kernel.lock_nest = 0 /\ ~kernel.lowered => HighestReady(kernel)
    BY <1>1, WokenFacts DEF Schedules, Blocking
  <1>3. /\ kernel' = kernel /\ isr' = isr /\ pc'[t] = "run" /\ pc' \in [Threads -> Places]
        /\ \A u \in Threads : u # t => pc'[u] = pc[u]
    BY <1>1, PcMoved DEF Places
  <1>4. PcInv'
    BY <1>1, <1>2, <1>3, PcNext DEF IInv, PcInv
  <1>5. /\ HasType' /\ has'.tokens = has.tokens /\ has'.depth = has.depth
        /\ has'.told = IF kernel.error[t] = "ok" THEN has.told \union {t} ELSE has.told
    BY <1>1 DEF IInv, HasType
  <1>6. SemInv'
    BY <1>1, <1>2, <1>3, <1>5 DEF IInv, SemInv, SemPcs
  <1>7. MutexInv' /\ PrioInv'
    <2>1. \A u \in Threads : (pc'[u] \in MutexPcs) = (pc[u] \in MutexPcs)
      BY <1>1, <1>3 DEF MutexPcs
    <2>2. QED
      BY <1>3, <1>5, <2>1, MutexUntouched DEF SameMutex, IInv
  <1>8. RunInv'
    BY <1>2, <1>3 DEF RunInv
  <1>9. QED
    BY <1>3, <1>4, <1>5, <1>6, <1>7, <1>8 DEF IInv

\* rt_sem_release by a thread, with or without a waiter.
LEMMA SemGiveStep ==
  ASSUME IInv, NEW t \in Threads, SemGive(t)
  PROVE  IInv'
  <1>1. /\ Calls(t) /\ t \in has.told
        /\ has' = [has EXCEPT !.tokens = Passed(@ \ {t}), !.told = @ \ {t}]
        /\ Section(t, SemRelease(kernel),
                   IF kernel.sem.suspend_thread = <<>> THEN "run" ELSE "schedule")
    BY DEF SemGive
  <1>2. /\ kernel.current = t /\ pc[t] = "run" /\ t # Idle /\ ~isr
        /\ kernel.stat[t] = "ready" /\ t \notin SemQ(kernel) /\ t \notin MutexQ(kernel)
        /\ kernel.lock_nest = 0 /\ ~kernel.lowered => HighestReady(kernel)
    BY <1>1, CallFacts
  <1>3. /\ HasType' /\ has'.depth = has.depth /\ has'.told = has.told \ {t}
        /\ has'.tokens = Passed(has.tokens \ {t})
    <2>1. /\ has' = [tokens |-> Passed(has.tokens \ {t}), told |-> has.told \ {t}, depth |-> has.depth]
      BY <1>1 DEF IInv, HasType
    <2>2. Passed(has.tokens \ {t}) \subseteq Threads
      <3>1. kernel.sem.suspend_thread \in Seq(Threads)
        BY DEF IInv, Tidy, KernelType, SemType, Lists
      <3>2. QED
        BY <3>1, SeqFacts DEF Passed, IInv, HasType
    <2>3. QED
      BY <2>1, <2>2 DEF IInv, HasType
  <1>4. PICK e : e = SemRelease(kernel)
    OBVIOUS
  <1>5. t \in has.tokens /\ Cardinality(has.tokens) \in Nat
        /\ Cardinality(has.tokens \ {t}) = Cardinality(has.tokens) - 1
    BY <1>1, TokenCounts DEF IInv, SemInv, HasType
  <1>6. Tidy(kernel) /\ kernel.sem.value \in Nat
    BY Sorts DEF IInv
  <1>7. CASE SemQ(kernel) = {}
    <2>1. kernel.sem.suspend_thread = <<>>
      BY <1>6, <1>7, Sorts
    <2>2. /\ Tidy(e) /\ SameRun(kernel, e) /\ e.mutex = kernel.mutex /\ SemQ(e) = {}
          /\ e.sem.value = kernel.sem.value + 1 /\ e.stat = kernel.stat /\ e.prio = kernel.prio
          /\ e.error = kernel.error
      BY <1>4, <1>6, <1>7, ReleasedTidy
    <2>3. /\ kernel' = e /\ isr' = isr /\ pc'[t] = "run" /\ pc' \in [Threads -> Places]
          /\ \A u \in Threads : u # t => pc'[u] = pc[u]
      BY <1>1, <1>4, <2>1, PcMoved DEF Places
    <2>4. PcInv'
      BY <1>2, <1>7, <2>2, <2>3, PcNext DEF IInv, PcInv, SameRun, MutexQ
    <2>5. has'.tokens = has.tokens \ {t}
      BY <1>3, <2>1 DEF Passed
    <2>6. SemInv'
      <3>1. pc[t] \notin SemPcs /\ \A u \in Threads : pc'[u] = pc[u]
        BY <1>2, <2>3 DEF SemPcs
      <3>2. has'.told \subseteq has'.tokens
        BY <1>3, <2>5 DEF IInv, SemInv
      <3>3. \A u \in Threads : pc'[u] \in SemPcs =>
              u \notin has'.told
              /\ (u \in has'.tokens <=> kernel'.stat[u] = "ready" /\ kernel'.error[u] = "ok")
        BY <1>3, <2>2, <2>3, <2>5, <3>1 DEF IInv, SemInv
      <3>4. \A u \in Threads : pc'[u] \notin SemPcs => (u \in has'.tokens => u \in has'.told)
        BY <1>3, <2>5, <3>1 DEF IInv, SemInv
      <3>5. kernel'.sem.value + Cardinality(has'.tokens) = kernel.sem.value + Cardinality(has.tokens)
        BY <1>5, <1>6, <2>2, <2>3, <2>5
      <3>6. SemQ(kernel') = {}
        BY <2>2, <2>3
      <3>7. QED
        BY <3>2, <3>3, <3>4, <3>5, <3>6 DEF IInv, SemInv
    <2>7. MutexInv' /\ PrioInv'
      <3>1. \A u \in Threads : pc'[u] = pc[u]
        BY <1>2, <2>3
      <3>2. QED
        BY <1>3, <2>2, <2>3, <3>1, MutexUntouched DEF SameMutex, MutexQ
    <2>8. RunInv'
      BY <1>2, <2>2, <2>3 DEF RunInv, HighestReady, SameRun
    <2>9. QED
      BY <1>3, <2>2, <2>3, <2>4, <2>6, <2>7, <2>8 DEF IInv
  <1>8. CASE SemQ(kernel) # {}
    <2>1. kernel.sem.suspend_thread # <<>>
      BY <1>6, <1>8, Sorts
    <2>2. /\ Head(kernel.sem.suspend_thread) \in SemQ(kernel) /\ Head(kernel.sem.suspend_thread) \in Threads
          /\ Tidy(e) /\ SameRun(kernel, e) /\ SameObjects(kernel, e)
          /\ QueuesWithout(kernel, e, Head(kernel.sem.suspend_thread))
          /\ e.stat = [kernel.stat EXCEPT ![Head(kernel.sem.suspend_thread)] = "ready"]
          /\ e.prio = kernel.prio /\ e.error = kernel.error
      BY <1>4, <1>6, <1>8, ReleasedTidy
    <2> PICK w \in Threads : w = Head(kernel.sem.suspend_thread)
      BY <2>2
    <2>3. /\ kernel' = e /\ isr' = isr /\ pc'[t] = "schedule" /\ pc' \in [Threads -> Places]
          /\ \A u \in Threads : u # t => pc'[u] = pc[u]
      BY <1>1, <1>4, <2>1, PcMoved DEF Places
    <2>4. /\ kernel'.stat[w] = "ready" /\ kernel'.error = kernel.error
          /\ \A u \in Threads : u # w => kernel'.stat[u] = kernel.stat[u]
      BY <1>6, <2>2, <2>3, Sorts
    <2>5. SemQ(kernel') = SemQ(kernel) \ {w} /\ MutexQ(kernel') = MutexQ(kernel)
      <3>1. w \notin MutexQ(kernel)
        BY <1>6, <2>2, Sorts
      <3>2. SemQ(e) = SemQ(kernel) \ {w} /\ MutexQ(e) = MutexQ(kernel) \ {w}
        BY <2>2 DEF QueuesWithout
      <3>3. QED
        BY <2>3, <3>1, <3>2
    <2>6. PcInv'
      <3>1. kernel'.current = t
        BY <1>2, <2>2, <2>3 DEF SameRun
      <3>2. isr' \in BOOLEAN
        BY <2>3 DEF IInv, PcInv
      <3>3. \A u \in Threads : u # t /\ kernel'.stat[u] = "suspended" =>
              kernel.stat[u] = "suspended" /\ kernel'.error[u] = kernel.error[u]
        BY <2>4
      <3>4. kernel'.stat[t] # "suspended"
        BY <1>2, <2>4
      <3>5. QED
        BY <1>2, <2>3, <2>5, <3>1, <3>2, <3>3, <3>4, PcNext
    <2>7. w # t /\ pc[w] \in SemPcs /\ kernel.stat[w] = "suspended" /\ kernel.error[w] = "ok"
          /\ w \notin has.tokens
      BY <1>2, <1>6, <2>2, Sorts DEF IInv, PcInv, SemInv
    <2>8. /\ has'.tokens = (has.tokens \ {t}) \union {w}
          /\ Cardinality(has'.tokens) = Cardinality(has.tokens)
      <3>1. has'.tokens = (has.tokens \ {t}) \union {w}
        BY <1>3, <2>1 DEF Passed
      <3>2. has.tokens \ {t} \in SUBSET Threads /\ w \notin has.tokens \ {t}
        BY <2>7 DEF IInv, HasType
      <3>3. Cardinality((has.tokens \ {t}) \union {w}) = Cardinality(has.tokens \ {t}) + 1
        BY <3>2, TokenCounts
      <3>4. QED
        BY <1>5, <3>1, <3>3
    <2>9. SemInv'
      <3>1. kernel'.sem.value = kernel.sem.value
        BY <2>2, <2>3 DEF SameObjects
      <3>2. has'.told \subseteq has'.tokens
        BY <1>3, <2>8 DEF IInv, SemInv
      <3>3. pc[t] \notin SemPcs /\ pc'[t] \notin SemPcs
        BY <1>2, <2>3 DEF SemPcs
      <3>4. ASSUME NEW u \in Threads, pc'[u] \in SemPcs
            PROVE  u \notin has'.told
                   /\ (u \in has'.tokens <=> kernel'.stat[u] = "ready" /\ kernel'.error[u] = "ok")
        BY <1>3, <2>3, <2>4, <2>7, <2>8, <3>3, <3>4 DEF IInv, SemInv
      <3>5. \A u \in Threads : pc'[u] \notin SemPcs => (u \in has'.tokens => u \in has'.told)
        BY <1>3, <2>3, <2>7, <2>8, <3>3 DEF IInv, SemInv
      <3>6. QED
        BY <1>8, <2>8, <3>1, <3>2, <3>4, <3>5 DEF IInv, SemInv
    <2>10. MutexInv' /\ PrioInv'
      <3>1. /\ pc[t] \notin MutexPcs /\ pc'[t] \notin MutexPcs /\ pc[w] \notin MutexPcs
        BY <1>2, <2>3, <2>7 DEF SemPcs, MutexPcs
      <3>2. \A u \in Threads : (pc'[u] \in MutexPcs) = (pc[u] \in MutexPcs)
        BY <2>3, <3>1
      <3>3. SortedBy(kernel.mutex.suspend_thread, kernel.prio)
              => SortedBy(kernel'.mutex.suspend_thread, kernel.prio)
        BY <1>6, <2>2, <2>3, Sorts DEF QueuesWithout
      <3>4. \A u \in Threads : pc[u] \in MutexPcs =>
              kernel'.stat[u] = kernel.stat[u] /\ kernel'.error[u] = kernel.error[u]
        BY <2>4, <3>1
      <3>5. QED
        BY <1>3, <2>2, <2>3, <2>5, <3>2, <3>3, <3>4, MutexUntouched DEF SameObjects
    <2>11. RunInv'
      BY <1>2, <2>2, <2>3 DEF RunInv, SameRun, Schedules
    <2>12. QED
      BY <1>3, <2>2, <2>3, <2>6, <2>9, <2>10, <2>11 DEF IInv
  <1>9. QED
    BY <1>7, <1>8

Nested(k, t) == [k EXCEPT !.error[t] = "ok", !.mutex.hold = @ + 1]

\* rt_mutex_take by the owner.
LEMMA NestedTidy ==
  ASSUME NEW k, Tidy(k), NEW t \in Threads, NEW e, e = Nested(k, t)
  PROVE  /\ Tidy(e) /\ SameRun(k, e) /\ e.sem = k.sem
         /\ e.mutex.suspend_thread = k.mutex.suspend_thread
         /\ e.mutex.value = k.mutex.value /\ e.mutex.owner = k.mutex.owner
         /\ e.mutex.hold = k.mutex.hold + 1
         /\ e.mutex.original_priority = k.mutex.original_priority
         /\ e.stat = k.stat /\ e.prio = k.prio
         /\ \A u \in Threads : u # t => e.error[u] = k.error[u]
  <1>1. PICK m : m = [k.mutex EXCEPT !.hold = @ + 1]
    OBVIOUS
  <1>2. PICK r : r = [k.error EXCEPT ![t] = "ok"]
    OBVIOUS
  <1>3. k \in KernelType /\ k.mutex \in MutexType
    BY DEF Tidy, KernelType
  <1>4. e = [k EXCEPT !.error = r, !.mutex = m]
    BY <1>1, <1>2, <1>3 DEF KernelType, Nested
  <1>5. /\ m \in MutexType /\ m.suspend_thread = k.mutex.suspend_thread
        /\ m.value = k.mutex.value /\ m.owner = k.mutex.owner /\ m.hold = k.mutex.hold + 1
        /\ m.original_priority = k.mutex.original_priority
    BY <1>1, <1>3 DEF MutexType
  <1>6. r \in [Threads -> Errors] /\ \A u \in Threads : u # t => r[u] = k.error[u]
    BY <1>2, <1>3 DEF KernelType, Errors
  <1>7. /\ e \in KernelType /\ e.ready = k.ready /\ e.stat = k.stat /\ e.prio = k.prio
        /\ e.timer = k.timer /\ e.error = r /\ e.sem = k.sem /\ e.mutex = m /\ SameRun(k, e)
    BY <1>3, <1>4, <1>5, <1>6 DEF KernelType, SameRun
  <1>8. Tidy(e)
    BY <1>5, <1>7, ObjectsTidy
  <1>9. QED
    BY <1>5, <1>6, <1>7, <1>8

\* rt_mutex_take of a mutex nobody has.
LEMMA TakenTidy ==
  ASSUME NEW k, Tidy(k), NEW t \in Threads,
         NEW e, e = Owned([k EXCEPT !.error[t] = "ok"], t)
  PROVE  /\ Tidy(e) /\ SameRun(k, e) /\ e.sem = k.sem
         /\ e.mutex.suspend_thread = k.mutex.suspend_thread
         /\ e.mutex.value = 0 /\ e.mutex.owner = t /\ e.mutex.hold = 1
         /\ e.mutex.original_priority = k.prio[t]
         /\ e.stat = k.stat /\ e.prio = k.prio
         /\ \A u \in Threads : u # t => e.error[u] = k.error[u]
  <1>1. PICK x \in Errors : x = "ok"
    BY DEF Errors
  <1>2. PICK c : c = ErrorSet(k, t, x)
    OBVIOUS
  <1>3. /\ Tidy(c) /\ SameRun(k, c) /\ c.sem = k.sem /\ c.mutex = k.mutex
        /\ c.stat = k.stat /\ c.prio = k.prio /\ c.timer = k.timer
        /\ c.error = [k.error EXCEPT ![t] = x]
    BY <1>2, ClearedTidy
  <1>4. e = Owned(c, t)
    BY <1>1, <1>2 DEF ErrorSet
  <1>5. /\ Tidy(e) /\ SameRun(c, e) /\ e.sem = c.sem
        /\ e.mutex.suspend_thread = c.mutex.suspend_thread
        /\ e.mutex.value = 0 /\ e.mutex.owner = t /\ e.mutex.hold = 1
        /\ e.mutex.original_priority = c.prio[t]
        /\ e.stat = c.stat /\ e.prio = c.prio /\ e.error = c.error
    BY <1>3, <1>4, OwnedTidy
  <1>6. \A u \in Threads : u # t => c.error[u] = k.error[u]
    BY <1>3 DEF Tidy, KernelType
  <1>7. QED
    BY <1>3, <1>5, <1>6 DEF SameRun

\* What a call within which the running thread stays ready leaves alone.
LEMMA ReadyNext ==
  ASSUME IInv, NEW t \in Threads, NEW e, Section(t, e, "run") \/ Section(t, e, "schedule"),
         kernel.current = t, t # Idle, kernel.stat[t] = "ready",
         Tidy(e), e.current = t, e.stat = kernel.stat,
         \A u \in Threads : u # t => e.error[u] = kernel.error[u],
         SemQ(e) = SemQ(kernel), MutexQ(e) = MutexQ(kernel)
  PROVE  PcInv'
  <1>1. /\ kernel' = e /\ isr' = isr /\ pc' \in [Threads -> Places]
        /\ \A u \in Threads : u # t => pc'[u] = pc[u]
    BY PcMoved DEF Places
  <1>2. PICK next : pc'[t] = next
    OBVIOUS
  <1>3. t \notin SemQ(kernel) /\ t \notin MutexQ(kernel)
    BY Sorts DEF IInv
  <1>4. isr' \in BOOLEAN
    BY <1>1 DEF IInv, PcInv
  <1>5. kernel'.stat[t] # "suspended"
    BY <1>1
  <1>6. QED
    BY <1>1, <1>2, <1>3, <1>4, <1>5, PcNext

\* rt_mutex_take nests, finds the mutex free, waits, or returns at once.
LEMMA MutexTakeStep ==
  ASSUME IInv, NEW t \in Threads, MutexTake(t)
  PROVE  IInv'
  <1>1. Calls(t)
    BY DEF MutexTake
  <1>2. /\ kernel.current = t /\ pc[t] = "run" /\ t # Idle /\ ~isr
        /\ kernel.stat[t] = "ready" /\ t \notin SemQ(kernel) /\ t \notin MutexQ(kernel)
        /\ kernel.lock_nest = 0 /\ ~kernel.lowered => HighestReady(kernel)
    BY <1>1, CallFacts
  <1>3. Tidy(kernel) /\ pc[t] \notin SemPcs /\ pc[t] \notin MutexPcs
    BY <1>2 DEF IInv, SemPcs, MutexPcs
  <1>4. CASE /\ kernel.mutex.owner = t /\ kernel.mutex.hold < MaxHold
             /\ Section(t, [kernel EXCEPT !.error[t] = "ok", !.mutex.hold = @ + 1], "run")
             /\ has' = [has EXCEPT !.depth[t] = @ + 1]
    <2>1. PICK e : e = Nested(kernel, t)
      OBVIOUS
    <2>2. /\ Tidy(e) /\ SameRun(kernel, e) /\ e.sem = kernel.sem
          /\ e.mutex.suspend_thread = kernel.mutex.suspend_thread
          /\ e.mutex.value = kernel.mutex.value /\ e.mutex.owner = kernel.mutex.owner
          /\ e.mutex.hold = kernel.mutex.hold + 1
          /\ e.mutex.original_priority = kernel.mutex.original_priority
          /\ e.stat = kernel.stat /\ e.prio = kernel.prio
          /\ \A u \in Threads : u # t => e.error[u] = kernel.error[u]
      BY <1>3, <2>1, NestedTidy
    <2>3. /\ kernel' = e /\ isr' = isr /\ pc'[t] = "run" /\ Section(t, e, "run")
          /\ \A u \in Threads : u # t => pc'[u] = pc[u]
      BY <1>4, <2>1, PcMoved DEF Nested
    <2>4. \A u \in Threads : pc'[u] = pc[u]
      BY <1>2, <2>3
    <2>5. SemQ(e) = SemQ(kernel) /\ MutexQ(e) = MutexQ(kernel) /\ e.current = t
      BY <1>2, <2>2 DEF SemQ, MutexQ, SameRun
    <2>6. PcInv'
      BY <1>2, <1>3, <2>2, <2>3, <2>5, ReadyNext
    <2>7. /\ HasType' /\ has'.tokens = has.tokens /\ has'.told = has.told
          /\ has'.depth = [has.depth EXCEPT ![t] = @ + 1]
      BY <1>4 DEF IInv, HasType
    <2>8. SemInv'
      <3>1. \A u \in Threads : pc[u] \in SemPcs => u # t
        BY <1>3
      <3>2. QED
        BY <2>2, <2>3, <2>4, <2>5, <2>7, <3>1, SemUntouched
    <2>9. MutexInv'
      <3>1. t # Nobody /\ kernel.mutex.hold \in Nat
        BY <1>3, Numbers, Sorts
      <3>2. has.depth[t] > 0 /\ kernel.mutex.hold = has.depth[t] /\ has.depth[t] \in Nat
        BY <1>3, <1>4 DEF IInv, MutexInv, HasType
      <3>3. /\ has'.depth[t] = has.depth[t] + 1
            /\ \A u \in Threads : u # t => has'.depth[u] = has.depth[u]
        BY <2>7 DEF IInv, HasType
      <3>4. ASSUME NEW u \in Threads, pc'[u] \in MutexPcs
            PROVE  /\ has'.depth[u] = 0 /\ kernel'.mutex.owner # u
                   /\ ~(kernel'.stat[u] = "ready" /\ kernel'.error[u] = "ok")
        BY <1>3, <1>4, <2>2, <2>3, <2>4, <3>3, <3>4 DEF IInv, MutexInv
      <3>5. ASSUME NEW u \in Threads, pc'[u] \notin MutexPcs
            PROVE  /\ kernel'.mutex.owner = u <=> has'.depth[u] > 0
                   /\ has'.depth[u] > 0 => kernel'.mutex.hold = has'.depth[u]
        <4>1. CASE u = t
          BY <1>4, <2>2, <2>3, <3>2, <3>3, <4>1
        <4>2. CASE u # t
          <5>1. has'.depth[u] = has.depth[u] /\ pc[u] \notin MutexPcs
            BY <2>4, <3>3, <3>5, <4>2
          <5>2. ~(has.depth[u] > 0) /\ kernel'.mutex.owner # u
            BY <1>4, <2>2, <2>3, <4>2, <5>1 DEF IInv, MutexInv
          <5>3. QED
            BY <5>1, <5>2
        <4>3. QED
          BY <4>1, <4>2
      <3>6. QED
        BY <1>4, <2>2, <2>3, <2>5, <3>1, <3>4, <3>5 DEF IInv, MutexInv
    <2>10. PrioInv'
      BY <2>2, <2>3, <2>5 DEF IInv, PrioInv
    <2>11. RunInv'
      BY <1>2, <2>2, <2>3 DEF RunInv, HighestReady, SameRun
    <2>12. QED
      BY <2>2, <2>3, <2>6, <2>7, <2>8, <2>9, <2>10, <2>11 DEF IInv
  <1>5. CASE /\ kernel.mutex.owner # t /\ kernel.mutex.value > 0
             /\ Section(t, Owned([kernel EXCEPT !.error[t] = "ok"], t), "run")
             /\ has' = [has EXCEPT !.depth[t] = @ + 1]
    <2>1. PICK e : e = Owned([kernel EXCEPT !.error[t] = "ok"], t)
      OBVIOUS
    <2>2. /\ Tidy(e) /\ SameRun(kernel, e) /\ e.sem = kernel.sem
          /\ e.mutex.suspend_thread = kernel.mutex.suspend_thread
          /\ e.mutex.value = 0 /\ e.mutex.owner = t /\ e.mutex.hold = 1
          /\ e.mutex.original_priority = kernel.prio[t]
          /\ e.stat = kernel.stat /\ e.prio = kernel.prio
          /\ \A u \in Threads : u # t => e.error[u] = kernel.error[u]
      BY <1>3, <2>1, TakenTidy
    <2>3. /\ kernel' = e /\ isr' = isr /\ pc'[t] = "run" /\ Section(t, e, "run")
          /\ \A u \in Threads : u # t => pc'[u] = pc[u]
      BY <1>5, <2>1, PcMoved
    <2>4. \A u \in Threads : pc'[u] = pc[u]
      BY <1>2, <2>3
    <2>5. SemQ(e) = SemQ(kernel) /\ MutexQ(e) = MutexQ(kernel) /\ e.current = t
      BY <1>2, <2>2 DEF SemQ, MutexQ, SameRun
    <2>6. PcInv'
      BY <1>2, <1>3, <2>2, <2>3, <2>5, ReadyNext
    <2>7. /\ HasType' /\ has'.tokens = has.tokens /\ has'.told = has.told
          /\ has'.depth = [has.depth EXCEPT ![t] = @ + 1]
      BY <1>5 DEF IInv, HasType
    <2>8. SemInv'
      <3>1. \A u \in Threads : pc[u] \in SemPcs => u # t
        BY <1>3
      <3>2. QED
        BY <2>2, <2>3, <2>4, <2>5, <2>7, <3>1, SemUntouched
    <2>9. kernel.mutex.owner = Nobody /\ MutexQ(kernel) = {}
      BY <1>3, <1>5, Sorts DEF IInv, MutexInv
    <2>10. \A u \in Threads : has.depth[u] = 0 /\ kernel.mutex.owner # u
      BY <2>9, Numbers DEF IInv, MutexInv, HasType
    <2>11. MutexInv'
      <3>1. t # Nobody
        BY Numbers
      <3>2. \A u \in Threads : has'.depth[u] = IF u = t THEN 1 ELSE 0
        BY <2>7, <2>10 DEF IInv, HasType
      <3>3. \A u \in Threads : pc[u] \in MutexPcs =>
              ~(kernel.stat[u] = "ready" /\ kernel.error[u] = "ok")
        BY <2>10 DEF IInv, MutexInv
      <3>4. QED
        BY <1>3, <2>2, <2>3, <2>4, <2>5, <2>9, <3>1, <3>2, <3>3 DEF MutexInv
    <2>12. PrioInv'
      <3>1. \A u \in Threads : kernel.prio[u] = InitPriority[u]
        BY <2>10 DEF IInv, PrioInv
      <3>2. QED
        BY <2>2, <2>3, <2>5, <2>9, <3>1 DEF IInv, PrioInv
    <2>13. RunInv'
      BY <1>2, <2>2, <2>3 DEF RunInv, HighestReady, SameRun
    <2>14. QED
      BY <2>2, <2>3, <2>6, <2>7, <2>8, <2>11, <2>12, <2>13 DEF IInv
  <1>6. CASE /\ kernel.mutex.owner # t /\ kernel.mutex.value = 0 /\ kernel.lock_nest = 0
             /\ \E time \in Times \union {Forever} :
                  Section(t, MutexWait(kernel, t, time), "mutex_schedule")
             /\ UNCHANGED has
    <2>1. PICK time \in Times \union {Forever} : Section(t, MutexWait(kernel, t, time), "mutex_schedule")
      BY <1>6
    <2>2. PICK e : e = MutexWait(kernel, t, time)
      OBVIOUS
    <2>3. kernel.mutex.owner \in Threads /\ kernel.mutex.owner \notin MutexQ(kernel)
      <3>1. kernel.mutex.owner \in Threads
        BY <1>3, <1>6, Sorts DEF IInv, MutexInv
      <3>2. \A u \in MutexQ(kernel) : kernel.mutex.owner # u
        BY <1>3, Sorts DEF IInv, MutexInv, PcInv
      <3>3. QED
        BY <3>1, <3>2
    <2>4. /\ Tidy(e) /\ SameRun(kernel, e) /\ SameObjects(kernel, e)
          /\ SemQ(e) = SemQ(kernel) /\ MutexQ(e) = MutexQ(kernel) \union {t}
          /\ Flag = "PRIO" /\ SortedBy(kernel.mutex.suspend_thread, kernel.prio)
               => SortedBy(e.mutex.suspend_thread, e.prio)
          /\ e.stat = [kernel.stat EXCEPT ![t] = "suspended"] /\ e.prio = Lent(kernel, t)
          /\ e.error = [kernel.error EXCEPT ![t] = "ok"]
      BY <1>2, <1>3, <1>6, <2>2, <2>3, MutexWaitTidy
    <2>5. /\ kernel' = e /\ isr' = isr /\ pc'[t] = "mutex_schedule" /\ pc' \in [Threads -> Places]
          /\ \A u \in Threads : u # t => pc'[u] = pc[u]
      BY <2>1, <2>2, PcMoved DEF Places, WaitPcs, MutexPcs
    <2>6. /\ kernel'.stat[t] = "suspended" /\ kernel'.error[t] = "ok"
          /\ \A u \in Threads : u # t => kernel'.stat[u] = kernel.stat[u]
                                         /\ kernel'.error[u] = kernel.error[u]
      BY <1>3, <2>4, <2>5, Sorts
    <2>7. kernel'.current = t /\ kernel'.lock_nest = 0
      BY <1>2, <1>6, <2>4, <2>5 DEF SameRun
    <2>8. PcInv'
      <3>1. "mutex_schedule" \in Blocking /\ "mutex_schedule" \in MutexPcs /\ isr' \in BOOLEAN
        BY <2>5 DEF Blocking, MutexPcs, IInv, PcInv
      <3>2. QED
        BY <1>2, <2>4, <2>5, <2>6, <2>7, <3>1, PcNext
    <2>9. HasType' /\ has' = has
      BY <1>6 DEF IInv, HasType
    <2>10. SemInv'
      <3>1. pc'[t] \notin SemPcs
        BY <2>5 DEF SemPcs
      <3>2. \A u \in Threads : (pc'[u] \in SemPcs) = (pc[u] \in SemPcs)
        BY <1>3, <2>5, <3>1
      <3>3. \A u \in Threads : pc[u] \in SemPcs =>
              kernel'.stat[u] = kernel.stat[u] /\ kernel'.error[u] = kernel.error[u]
        BY <1>3, <2>6
      <3>4. QED
        BY <2>4, <2>5, <2>9, <3>2, <3>3, SemUntouched DEF SameObjects
    <2>11. MutexInv'
      <3>1. /\ kernel'.mutex.value = kernel.mutex.value /\ kernel'.mutex.owner = kernel.mutex.owner
            /\ kernel'.mutex.hold = kernel.mutex.hold
        BY <2>4, <2>5 DEF SameObjects, SameMutex
      <3>2. kernel.mutex.owner # Nobody
        BY <2>3, Numbers
      <3>3. has.depth[t] = 0
        BY <1>3, <1>6 DEF IInv, MutexInv, HasType
      <3>4. ASSUME NEW u \in Threads, pc'[u] \in MutexPcs
            PROVE  /\ has'.depth[u] = 0
                   /\ kernel'.mutex.owner = u <=> kernel'.stat[u] = "ready" /\ kernel'.error[u] = "ok"
                   /\ kernel'.mutex.owner = u => kernel'.mutex.hold = 1
        BY <1>6, <2>5, <2>6, <2>9, <3>1, <3>3, <3>4 DEF IInv, MutexInv
      <3>5. ASSUME NEW u \in Threads, pc'[u] \notin MutexPcs
            PROVE  /\ kernel'.mutex.owner = u <=> has'.depth[u] > 0
                   /\ has'.depth[u] > 0 => kernel'.mutex.hold = has'.depth[u]
        BY <2>5, <2>9, <3>1, <3>5 DEF IInv, MutexInv, MutexPcs
      <3>6. QED
        BY <3>1, <3>2, <3>4, <3>5 DEF IInv, MutexInv
    <2>12. PrioInv'
      <3> DEFINE o == kernel.mutex.owner
      <3>1. kernel'.mutex.owner = o /\ kernel'.mutex.original_priority = kernel.mutex.original_priority
        BY <2>4, <2>5 DEF SameObjects, SameMutex
      <3>2. \A u \in Threads : u # o => kernel'.prio[u] = kernel.prio[u]
        BY <1>3, <2>3, <2>4, <2>5, Sorts DEF Lent
      <3>3. kernel'.prio[o] <= kernel.prio[o] /\ kernel'.prio[o] <= kernel.prio[t]
        BY <1>3, <2>3, <2>4, <2>5, Sorts DEF Lent
      <3>4. kernel'.prio[o] \in Nat /\ kernel.prio[o] \in Nat /\ \A u \in Threads : kernel.prio[u] \in Nat
        BY <1>3, <2>3, <2>4, <2>5, Sorts DEF Lent
      <3>5. ASSUME Flag = "PRIO", NEW u \in MutexQ(kernel') PROVE kernel'.prio[o] <= kernel'.prio[u]
        <4>1. u # o /\ u \in Threads
          BY <1>3, <1>6, <2>3, <2>4, <2>5, Sorts
        <4>2. CASE u = t
          BY <3>2, <3>3, <4>1, <4>2
        <4>3. CASE u # t
          <5>1. kernel.prio[o] <= kernel.prio[u]
            BY <2>4, <2>5, <3>5, <4>3 DEF IInv, PrioInv
          <5>2. QED
            BY <3>2, <3>3, <3>4, <4>1, <5>1
        <4>4. QED
          BY <4>2, <4>3
      <3>6. Flag = "PRIO" => SortedBy(kernel'.mutex.suspend_thread, kernel'.prio)
        BY <2>4, <2>5 DEF IInv, PrioInv
      <3>7. QED
        BY <3>1, <3>2, <3>5, <3>6 DEF IInv, PrioInv
    <2>13. RunInv'
      BY <2>5, <2>7 DEF RunInv, Schedules, Blocking
    <2>14. QED
      BY <2>4, <2>5, <2>8, <2>9, <2>10, <2>11, <2>12, <2>13 DEF IInv
  <1>7. CASE /\ Section(t, [kernel EXCEPT !.error[t] = "timeout"], "run")
             /\ UNCHANGED has
    <2>1. PICK x \in Errors : x = "timeout"
      BY DEF Errors
    <2>2. PICK e : e = ErrorSet(kernel, t, x)
      OBVIOUS
    <2>3. /\ Tidy(e) /\ SameRun(kernel, e) /\ e.sem = kernel.sem /\ e.mutex = kernel.mutex
          /\ e.stat = kernel.stat /\ e.prio = kernel.prio
          /\ e.error = [kernel.error EXCEPT ![t] = x]
      BY <1>3, <2>2, ClearedTidy
    <2>4. \A u \in Threads : u # t => e.error[u] = kernel.error[u]
      BY <1>3, <2>3 DEF Tidy, KernelType
    <2>5. /\ kernel' = e /\ isr' = isr /\ pc'[t] = "run" /\ Section(t, e, "run")
          /\ \A u \in Threads : u # t => pc'[u] = pc[u]
      BY <1>7, <2>1, <2>2, PcMoved DEF ErrorSet
    <2>6. \A u \in Threads : pc'[u] = pc[u]
      BY <1>2, <2>5
    <2>7. SemQ(e) = SemQ(kernel) /\ MutexQ(e) = MutexQ(kernel) /\ e.current = t
      BY <1>2, <2>3 DEF SemQ, MutexQ, SameRun
    <2>8. PcInv'
      BY <1>2, <1>3, <2>3, <2>4, <2>5, <2>7, ReadyNext
    <2>9. HasType' /\ has' = has
      BY <1>7 DEF IInv, HasType
    <2>10. \A u \in Threads : pc[u] \in SemPcs \union MutexPcs =>
             kernel'.stat[u] = kernel.stat[u] /\ kernel'.error[u] = kernel.error[u]
      BY <1>3, <2>3, <2>4, <2>5
    <2>11. SemInv'
      BY <2>3, <2>5, <2>6, <2>7, <2>9, <2>10, SemUntouched
    <2>12. MutexInv' /\ PrioInv'
      <3>1. SameMutex(kernel, kernel') /\ MutexQ(kernel') = MutexQ(kernel)
            /\ kernel'.prio = kernel.prio /\ kernel'.mutex.suspend_thread = kernel.mutex.suspend_thread
        BY <2>3, <2>5, <2>7 DEF SameMutex
      <3>2. Tidy(kernel)'
        BY <2>3, <2>5
      <3>3. QED
        BY <2>6, <2>9, <2>10, <3>1, <3>2, MutexUntouched
    <2>13. RunInv'
      BY <1>2, <2>3, <2>5 DEF RunInv, HighestReady, SameRun
    <2>14. QED
      BY <2>3, <2>5, <2>8, <2>9, <2>11, <2>12, <2>13 DEF IInv
  <1>8. QED
    BY <1>4, <1>5, <1>6, <1>7 DEF MutexTake

\* rt_mutex_take returns after waiting.
LEMMA MutexTakenStep ==
  ASSUME IInv, NEW t \in Threads, MutexTaken(t)
  PROVE  IInv'
  <1>1. /\ kernel.current = t /\ pc[t] = "mutex_woken" /\ ~isr /\ Section(t, kernel, "run")
        /\ has' = [has EXCEPT !.depth[t] = IF kernel.error[t] = "ok" THEN @ + 1 ELSE @]
    BY DEF MutexTaken
  <1>2. /\ kernel.stat[t] = "ready" /\ t \notin SemQ(kernel) /\ t \notin MutexQ(kernel)
        /\ t # Idle
        /\ kernel.lock_nest = 0 /\ ~kernel.lowered => HighestReady(kernel)
    BY <1>1, WokenFacts DEF Schedules, Blocking
  <1>3. /\ kernel' = kernel /\ isr' = isr /\ pc'[t] = "run" /\ pc' \in [Threads -> Places]
        /\ \A u \in Threads : u # t => pc'[u] = pc[u]
    BY <1>1, PcMoved DEF Places
  <1>4. PcInv'
    BY <1>1, <1>2, <1>3, PcNext DEF IInv, PcInv
  <1>5. /\ HasType' /\ has'.tokens = has.tokens /\ has'.told = has.told
        /\ has'.depth[t] = IF kernel.error[t] = "ok" THEN has.depth[t] + 1 ELSE has.depth[t]
        /\ \A u \in Threads : u # t => has'.depth[u] = has.depth[u]
    BY <1>1 DEF IInv, HasType
  <1>6. SemInv'
    <2>1. \A u \in Threads : (pc'[u] \in SemPcs) = (pc[u] \in SemPcs)
      BY <1>1, <1>3 DEF SemPcs
    <2>2. QED
      BY <1>3, <1>5, <2>1, SemUntouched
  <1>7. MutexInv'
    <2>1. /\ has.depth[t] = 0
          /\ kernel.mutex.owner = t <=> kernel.error[t] = "ok"
          /\ kernel.mutex.owner = t => kernel.mutex.hold = 1
      BY <1>1, <1>2 DEF IInv, MutexInv, MutexPcs
    <2>2. pc'[t] \notin MutexPcs
      BY <1>3 DEF MutexPcs
    <2>3. ASSUME NEW u \in Threads, pc'[u] \in MutexPcs
          PROVE  /\ has'.depth[u] = 0
                 /\ kernel'.mutex.owner = u <=> kernel'.stat[u] = "ready" /\ kernel'.error[u] = "ok"
                 /\ kernel'.mutex.owner = u => kernel'.mutex.hold = 1
      BY <1>3, <1>5, <2>2, <2>3 DEF IInv, MutexInv
    <2>4. ASSUME NEW u \in Threads, pc'[u] \notin MutexPcs
          PROVE  /\ kernel'.mutex.owner = u <=> has'.depth[u] > 0
                 /\ has'.depth[u] > 0 => kernel'.mutex.hold = has'.depth[u]
      <3>1. CASE u = t
        BY <1>3, <1>5, <2>1, <3>1
      <3>2. CASE u # t
        BY <1>3, <1>5, <2>4, <3>2 DEF IInv, MutexInv
      <3>3. QED
        BY <3>1, <3>2
    <2>5. QED
      BY <1>3, <2>3, <2>4 DEF IInv, MutexInv
  <1>8. PrioInv'
    BY <1>3 DEF IInv, PrioInv
  <1>9. RunInv'
    BY <1>2, <1>3 DEF RunInv
  <1>10. QED
    BY <1>3, <1>4, <1>5, <1>6, <1>7, <1>8, <1>9 DEF IInv

\* rt_mutex_release by an owner that nests.
Unnested(k) == [k EXCEPT !.mutex.hold = @ - 1]

\* One hold less.
LEMMA UnnestedTidy ==
  ASSUME NEW k, Tidy(k), k.mutex.hold > 0, NEW e, e = Unnested(k)
  PROVE  /\ Tidy(e) /\ SameRun(k, e) /\ e.sem = k.sem
         /\ e.mutex.suspend_thread = k.mutex.suspend_thread
         /\ e.mutex.value = k.mutex.value /\ e.mutex.owner = k.mutex.owner
         /\ e.mutex.hold = k.mutex.hold - 1
         /\ e.mutex.original_priority = k.mutex.original_priority
         /\ e.stat = k.stat /\ e.prio = k.prio /\ e.error = k.error
  <1>1. PICK m : m = [k.mutex EXCEPT !.hold = @ - 1]
    OBVIOUS
  <1>2. k \in KernelType /\ k.mutex \in MutexType
    BY DEF Tidy, KernelType
  <1>3. e = [k EXCEPT !.mutex = m]
    BY <1>1, <1>2 DEF KernelType, Unnested
  <1>4. /\ m \in MutexType /\ m.suspend_thread = k.mutex.suspend_thread
        /\ m.value = k.mutex.value /\ m.owner = k.mutex.owner /\ m.hold = k.mutex.hold - 1
        /\ m.original_priority = k.mutex.original_priority
    BY <1>1, <1>2 DEF MutexType
  <1>5. QED
    BY <1>3, <1>4, OwnerTidy

\* The owner, that gives the mutex up.
LEMMA GiveFacts ==
  ASSUME IInv, NEW t \in Threads, Calls(t), has.depth[t] > 0
  PROVE  /\ kernel.mutex.owner = t /\ kernel.mutex.hold = has.depth[t]
         /\ kernel.mutex.original_priority = InitPriority[t]
         /\ kernel.mutex.original_priority \in Priorities
         /\ pc[t] \notin SemPcs /\ pc[t] \notin MutexPcs
         /\ \A u \in Threads : u # t => has.depth[u] = 0
         /\ \A u \in Threads : pc[u] \in MutexPcs => u # t /\ ~(kernel.stat[u] = "ready" /\ kernel.error[u] = "ok")
  <1>1. pc[t] = "run"
    BY DEF Calls
  <1>2. pc[t] \notin SemPcs /\ pc[t] \notin MutexPcs
    BY <1>1 DEF SemPcs, MutexPcs
  <1>3. kernel.mutex.owner = t /\ kernel.mutex.hold = has.depth[t]
    BY <1>2 DEF IInv, MutexInv
  <1>4. kernel.mutex.original_priority = InitPriority[t]
    BY <1>3 DEF IInv, PrioInv
  <1>5. ASSUME NEW u \in Threads, u # t PROVE has.depth[u] = 0
    <2>1. has.depth[u] \in Nat
      BY DEF IInv, HasType
    <2>2. ~(has.depth[u] > 0)
      BY <1>3, <1>5 DEF IInv, MutexInv
    <2>3. QED
      BY <2>1, <2>2
  <1>6. \A u \in Threads : pc[u] \in MutexPcs => u # t /\ ~(kernel.stat[u] = "ready" /\ kernel.error[u] = "ok")
    BY <1>2, <1>3 DEF IInv, MutexInv
  <1>7. QED
    BY <1>2, <1>3, <1>4, <1>5, <1>6, Numbers

\* rt_mutex_release: one hold less, the mutex free, or the first waiter's.
LEMMA MutexGiveStep ==
  ASSUME IInv, NEW t \in Threads, MutexGive(t)
  PROVE  IInv'
  <1>1. Calls(t) /\ has.depth[t] > 0 /\ has' = [has EXCEPT !.depth[t] = @ - 1]
    BY DEF MutexGive
  <1>2. /\ kernel.current = t /\ pc[t] = "run" /\ t # Idle /\ ~isr
        /\ kernel.stat[t] = "ready" /\ t \notin SemQ(kernel) /\ t \notin MutexQ(kernel)
        /\ kernel.lock_nest = 0 /\ ~kernel.lowered => HighestReady(kernel)
    BY <1>1, CallFacts
  <1>3. /\ kernel.mutex.owner = t /\ kernel.mutex.hold = has.depth[t]
        /\ kernel.mutex.original_priority = InitPriority[t]
        /\ kernel.mutex.original_priority \in Priorities
        /\ pc[t] \notin SemPcs /\ pc[t] \notin MutexPcs
        /\ \A u \in Threads : u # t => has.depth[u] = 0
        /\ \A u \in Threads : pc[u] \in MutexPcs => u # t /\ ~(kernel.stat[u] = "ready" /\ kernel.error[u] = "ok")
    BY <1>1, GiveFacts
  <1>4. Tidy(kernel) /\ has.depth[t] \in Nat
    BY DEF IInv, HasType
  <1>5. /\ HasType' /\ has'.tokens = has.tokens /\ has'.told = has.told
        /\ has'.depth[t] = has.depth[t] - 1
        /\ \A u \in Threads : u # t => has'.depth[u] = 0
    <2>1. PICK d : d = [has.depth EXCEPT ![t] = @ - 1]
      OBVIOUS
    <2>2. d \in [Threads -> Nat] /\ d[t] = has.depth[t] - 1 /\ \A u \in Threads : u # t => d[u] = has.depth[u]
      BY <1>1, <2>1 DEF IInv, HasType
    <2>3. has' = [tokens |-> has.tokens, told |-> has.told, depth |-> d]
      BY <1>1, <2>1 DEF IInv, HasType
    <2>4. QED
      BY <1>3, <2>2, <2>3 DEF IInv, HasType
  <1>6. \A u \in Threads : pc[u] \in SemPcs => u # t
    BY <1>3
  <1>7. CASE kernel.mutex.hold > 1 /\ Section(t, [kernel EXCEPT !.mutex.hold = @ - 1], "run")
    <2>1. PICK e : e = Unnested(kernel)
      OBVIOUS
    <2>2. kernel.mutex.hold > 0
      BY <1>1, <1>3
    <2>3. /\ Tidy(e) /\ SameRun(kernel, e) /\ e.sem = kernel.sem
          /\ e.mutex.suspend_thread = kernel.mutex.suspend_thread
          /\ e.mutex.value = kernel.mutex.value /\ e.mutex.owner = kernel.mutex.owner
          /\ e.mutex.hold = kernel.mutex.hold - 1
          /\ e.mutex.original_priority = kernel.mutex.original_priority
          /\ e.stat = kernel.stat /\ e.prio = kernel.prio /\ e.error = kernel.error
      BY <1>4, <2>1, <2>2, UnnestedTidy
    <2>4. /\ kernel' = e /\ isr' = isr /\ pc'[t] = "run" /\ Section(t, e, "run")
          /\ \A u \in Threads : u # t => pc'[u] = pc[u]
      BY <1>7, <2>1, PcMoved DEF Unnested
    <2>5. \A u \in Threads : pc'[u] = pc[u]
      BY <1>2, <2>4
    <2>6. SemQ(e) = SemQ(kernel) /\ MutexQ(e) = MutexQ(kernel) /\ e.current = t
      BY <1>2, <2>3 DEF SemQ, MutexQ, SameRun
    <2>7. PcInv'
      BY <1>2, <1>3, <2>3, <2>4, <2>6, ReadyNext
    <2>8. SemInv'
      BY <1>5, <2>3, <2>4, <2>5, <2>6, SemUntouched
    <2>9. MutexInv'
      <3>1. t # Nobody
        BY Numbers
      <3>2. ASSUME NEW u \in Threads, pc'[u] \in MutexPcs
            PROVE  /\ has'.depth[u] = 0 /\ kernel'.mutex.owner # u
                   /\ ~(kernel'.stat[u] = "ready" /\ kernel'.error[u] = "ok")
        BY <1>3, <1>5, <2>3, <2>4, <2>5, <3>2
      <3>3. ASSUME NEW u \in Threads, pc'[u] \notin MutexPcs
            PROVE  /\ kernel'.mutex.owner = u <=> has'.depth[u] > 0
                   /\ has'.depth[u] > 0 => kernel'.mutex.hold = has'.depth[u]
        BY <1>3, <1>4, <1>5, <1>7, <2>3, <2>4
      <3>4. QED
        BY <1>3, <2>3, <2>4, <2>6, <3>1, <3>2, <3>3 DEF IInv, MutexInv
    <2>10. PrioInv'
      BY <2>3, <2>4, <2>6 DEF IInv, PrioInv
    <2>11. RunInv'
      BY <1>2, <2>3, <2>4 DEF RunInv, HighestReady, SameRun
    <2>12. QED
      BY <1>5, <2>3, <2>4, <2>7, <2>8, <2>9, <2>10, <2>11 DEF IInv
  <1>8. CASE /\ kernel.mutex.hold = 1
             /\ Section(t, MutexPassOn(kernel),
                        IF kernel.mutex.suspend_thread = <<>> THEN "run" ELSE "schedule")
    <2>1. PICK e : e = MutexPassOn(kernel)
      OBVIOUS
    <2>2. kernel.mutex.owner \in Threads /\ \A u \in Threads : has'.depth[u] = 0
      BY <1>3, <1>5, <1>8
    <2>3. \A u \in Threads : [kernel.prio EXCEPT ![t] = InitPriority[t]][u] = InitPriority[u]
      BY <1>3, <1>4, Sorts DEF IInv, PrioInv
    <2>4. CASE MutexQ(kernel) = {}
      <3>1. /\ Tidy(e) /\ e.current = kernel.current /\ e.lock_nest = kernel.lock_nest
            /\ e.sem.value = kernel.sem.value /\ SemQ(e) = SemQ(kernel) /\ MutexQ(e) = {}
            /\ e.mutex.value = 1 /\ e.mutex.owner = Nobody
            /\ e.stat = kernel.stat /\ e.error = kernel.error
            /\ e.prio = [kernel.prio EXCEPT ![kernel.mutex.owner] = kernel.mutex.original_priority]
            /\ ~e.lowered => ~kernel.lowered /\ e.prio = kernel.prio
        BY <1>3, <1>4, <2>1, <2>2, <2>4, FreedTidy
      <3>2. /\ kernel' = e /\ isr' = isr /\ pc'[t] = "run" /\ Section(t, e, "run")
            /\ \A u \in Threads : u # t => pc'[u] = pc[u]
        BY <1>4, <1>8, <2>1, <2>4, Sorts, PcMoved
      <3>3. \A u \in Threads : pc'[u] = pc[u]
        BY <1>2, <3>2
      <3>4. PcInv'
        BY <1>2, <1>3, <2>4, <3>1, <3>2, ReadyNext
      <3>5. SemInv'
        BY <1>5, <3>1, <3>2, <3>3, SemUntouched
      <3>6. MutexInv'
        <4>1. \A u \in Threads : u # Nobody
          BY Numbers
        <4>2. QED
          BY <1>3, <2>2, <3>1, <3>2, <3>3, <4>1 DEF MutexInv
      <3>7. PrioInv'
        <4>1. kernel'.mutex.suspend_thread \in Seq(Threads) /\ kernel'.mutex.owner \notin Threads
          BY <3>1, <3>2, Numbers DEF Tidy, KernelType, MutexType, Lists
        <4>2. Len(kernel'.mutex.suspend_thread) = 0
          BY <3>1, <3>2, <4>1, SeqFacts, EmptySeq DEF MutexQ
        <4>3. SortedBy(kernel'.mutex.suspend_thread, kernel'.prio)
          BY <4>2 DEF SortedBy
        <4>4. \A u \in Threads : kernel'.prio[u] = InitPriority[u]
          <5>1. kernel'.prio = [kernel.prio EXCEPT ![t] = InitPriority[t]]
            BY <1>3, <3>1, <3>2
          <5>2. QED
            BY <2>3, <5>1
        <4>5. QED
          BY <3>1, <3>2, <4>1, <4>3, <4>4 DEF PrioInv
      <3>8. RunInv'
        BY <1>2, <3>1, <3>2 DEF RunInv, HighestReady
      <3>9. QED
        BY <1>5, <3>1, <3>2, <3>4, <3>5, <3>6, <3>7, <3>8 DEF IInv
    <2>5. CASE MutexQ(kernel) # {}
      <3> PICK w \in MutexQ(kernel) : Handed(kernel, e, w)
        BY <1>3, <1>4, <2>1, <2>2, <2>5, HandedTidy
      <3>1. /\ Tidy(e) /\ e.current = kernel.current /\ e.lock_nest = kernel.lock_nest
            /\ e.sem.value = kernel.sem.value
            /\ SemQ(e) = SemQ(kernel) \ {w} /\ MutexQ(e) = MutexQ(kernel) \ {w}
            /\ e.mutex.value = 0 /\ e.mutex.owner = w /\ e.mutex.hold = 1
            /\ e.mutex.original_priority = e.prio[w]
            /\ e.stat = [kernel.stat EXCEPT ![w] = "ready"] /\ e.error = kernel.error
            /\ e.prio = [kernel.prio EXCEPT ![t] = InitPriority[t]]
            /\ \A f \in [Threads -> Nat] : SortedBy(kernel.mutex.suspend_thread, f) =>
                 SortedBy(e.mutex.suspend_thread, f) /\ \A u \in MutexQ(kernel) : f[w] <= f[u]
        BY <1>3 DEF Handed
      <3>2. /\ w \in Threads /\ w # t /\ w \notin SemQ(kernel) /\ kernel.stat[w] = "suspended"
            /\ pc[w] \in MutexPcs /\ kernel.error[w] = "ok"
        BY <1>2, <1>4, Sorts DEF IInv, PcInv
      <3>3. /\ kernel' = e /\ isr' = isr /\ pc'[t] = "schedule" /\ pc' \in [Threads -> Places]
            /\ \A u \in Threads : u # t => pc'[u] = pc[u]
        BY <1>4, <1>8, <2>1, <2>5, Sorts, PcMoved DEF Places
      <3>4. /\ kernel'.stat[w] = "ready" /\ kernel'.error = kernel.error
            /\ \A u \in Threads : u # w => kernel'.stat[u] = kernel.stat[u]
        BY <1>4, <3>1, <3>2, <3>3, Sorts
      <3>5. SemQ(kernel') = SemQ(kernel) /\ MutexQ(kernel') = MutexQ(kernel) \ {w}
        BY <3>1, <3>2, <3>3
      <3>6. PcInv'
        <4>1. kernel'.current = t
          BY <1>2, <3>1, <3>3
        <4>2. isr' \in BOOLEAN
          BY <3>3 DEF IInv, PcInv
        <4>3. \A u \in Threads : u # t /\ kernel'.stat[u] = "suspended" =>
                kernel.stat[u] = "suspended" /\ kernel'.error[u] = kernel.error[u]
          BY <3>4
        <4>4. kernel'.stat[t] # "suspended"
          BY <1>2, <3>2, <3>4
        <4>5. QED
          BY <1>2, <3>3, <3>5, <4>1, <4>2, <4>3, <4>4, PcNext
      <3>7. pc'[t] \notin SemPcs /\ pc'[t] \notin MutexPcs /\ w \notin SemQ(kernel) /\ pc[w] \notin SemPcs
        BY <3>2, <3>3 DEF SemPcs, MutexPcs
      <3>8. SemInv'
        <4>1. \A u \in Threads : (pc'[u] \in SemPcs) = (pc[u] \in SemPcs)
          BY <1>3, <3>3, <3>7
        <4>2. \A u \in Threads : pc[u] \in SemPcs =>
                kernel'.stat[u] = kernel.stat[u] /\ kernel'.error[u] = kernel.error[u]
          BY <3>4, <3>7
        <4>3. kernel'.sem.value = kernel.sem.value
          BY <3>1, <3>3
        <4>4. QED
          BY <1>5, <3>5, <4>1, <4>2, <4>3, SemUntouched
      <3>9. MutexInv'
        <4>1. w # Nobody
          BY <3>2, Numbers
        <4>2. kernel'.mutex.value = 0 /\ kernel'.mutex.owner = w /\ kernel'.mutex.hold = 1
          BY <3>1, <3>3
        <4>3. ASSUME NEW u \in Threads, pc'[u] \in MutexPcs
              PROVE  kernel'.mutex.owner = u <=> kernel'.stat[u] = "ready" /\ kernel'.error[u] = "ok"
          BY <1>3, <3>2, <3>3, <3>4, <3>7, <4>2, <4>3
        <4>4. pc'[w] \in MutexPcs
          BY <3>2, <3>3
        <4>5. QED
          BY <2>2, <4>1, <4>2, <4>3, <4>4 DEF MutexInv
      <3>10. PrioInv'
        <4>1. \A u \in Threads : kernel'.prio[u] = InitPriority[u]
          BY <2>3, <3>1, <3>3
        <4>2. kernel'.mutex.owner = w /\ kernel'.mutex.original_priority = InitPriority[w]
          BY <3>1, <3>2, <3>3, <4>1
        <4>3. Flag = "PRIO" => SortedBy(kernel.mutex.suspend_thread, kernel'.prio)
          <5>1. kernel.mutex.suspend_thread \in Seq(Threads)
            BY <1>4 DEF Tidy, KernelType, MutexType, Lists
          <5>2. \A i \in 1..Len(kernel.mutex.suspend_thread) :
                  /\ kernel.mutex.suspend_thread[i] \in Threads
                  /\ kernel.mutex.suspend_thread[i] # t
            BY <1>2, <5>1, SeqFacts DEF MutexQ
          <5>3. \A u \in Threads : u # t => kernel'.prio[u] = kernel.prio[u]
            BY <1>3, <4>1 DEF IInv, PrioInv
          <5>4. QED
            BY <5>2, <5>3 DEF IInv, PrioInv, SortedBy
        <4>4. kernel'.prio \in [Threads -> Nat]
          BY <3>1, <3>3, Numbers DEF Tidy, KernelType
        <4>5. Flag = "PRIO" => /\ SortedBy(kernel'.mutex.suspend_thread, kernel'.prio)
                               /\ \A u \in MutexQ(kernel) : kernel'.prio[w] <= kernel'.prio[u]
          BY <3>1, <3>3, <4>3, <4>4
        <4>6. QED
          BY <3>5, <4>1, <4>2, <4>5 DEF PrioInv
      <3>11. RunInv'
        BY <1>2, <3>1, <3>3 DEF RunInv, Schedules
      <3>12. QED
        BY <1>5, <3>1, <3>3, <3>6, <3>8, <3>9, <3>10, <3>11 DEF IInv
    <2>6. QED
      BY <2>4, <2>5
  <1>9. QED
    BY <1>3, <1>7, <1>8 DEF MutexGive
----------------------------------------------------------------------------
\* A step that leaves the counts of the objects and every thread's priority alone,
\* takes nobody into a queue, and gives nobody anything.
LEMMA ObjectsUntouched ==
  ASSUME IInv, Tidy(kernel)', SameObjects(kernel, kernel'), kernel'.prio = kernel.prio, has' = has,
         SemQ(kernel') \subseteq SemQ(kernel), MutexQ(kernel') \subseteq MutexQ(kernel),
         SortedBy(kernel.mutex.suspend_thread, kernel.prio)
           => SortedBy(kernel'.mutex.suspend_thread, kernel.prio),
         \A u \in Threads : (pc'[u] \in SemPcs) = (pc[u] \in SemPcs),
         \A u \in Threads : (pc'[u] \in MutexPcs) = (pc[u] \in MutexPcs),
         \A u \in Threads : pc[u] \in SemPcs \/ pc[u] \in MutexPcs =>
           (kernel'.stat[u] = "ready" /\ kernel'.error[u] = "ok")
             = (kernel.stat[u] = "ready" /\ kernel.error[u] = "ok")
  PROVE  HasType' /\ SemInv' /\ MutexInv' /\ PrioInv'
  <1>1. HasType'
    BY DEF IInv, HasType
  <1>2. SemInv'
    BY DEF IInv, SemInv, SameObjects
  <1>3. MutexInv'
    BY DEF IInv, MutexInv, SameObjects, SameMutex
  <1>4. PrioInv'
    BY DEF IInv, PrioInv, SameObjects, SameMutex
  <1>5. QED
    BY <1>1, <1>2, <1>3, <1>4

\* rt_thread_sleep suspends the running thread.
LEMMA SleepStep ==
  ASSUME IInv, NEW t \in Threads, Sleep(t)
  PROVE  IInv'
  <1>1. Calls(t) /\ kernel.lock_nest = 0 /\ has' = has
    BY DEF Sleep
  <1>2. /\ kernel.current = t /\ pc[t] = "run" /\ t # Idle /\ ~isr
        /\ kernel.stat[t] = "ready" /\ t \notin SemQ(kernel) /\ t \notin MutexQ(kernel)
        /\ kernel.lock_nest = 0 /\ ~kernel.lowered => HighestReady(kernel)
    BY <1>1, CallFacts
  <1>3. Tidy(kernel)
    BY DEF IInv
  <1>4. PICK time \in Times :
          Section(t, TimerStarted(ThreadSuspend(kernel, t), t, time), "sleep_schedule")
    BY DEF Sleep
  <1>5. PICK e : e = TimerStarted(ThreadSuspend(kernel, t), t, time)
    OBVIOUS
  <1>6. /\ Tidy(e) /\ SameRun(kernel, e) /\ SameObjects(kernel, e) /\ SameQueues(kernel, e)
        /\ e.stat = [kernel.stat EXCEPT ![t] = "suspended"]
        /\ e.prio = kernel.prio /\ e.error = kernel.error
    BY <1>2, <1>3, <1>5, SleepTidy
  <1>7. /\ kernel' = e /\ isr' = isr /\ pc'[t] = "sleep_schedule" /\ pc' \in [Threads -> Places]
        /\ \A u \in Threads : u # t => pc'[u] = pc[u]
    BY <1>4, <1>5, PcMoved DEF Places, WaitPcs
  <1>8. \A u \in Threads : u # t => kernel'.stat[u] = kernel.stat[u]
    BY <1>3, <1>6, <1>7, Sorts
  <1>9. /\ pc[t] \notin SemPcs /\ pc[t] \notin MutexPcs
        /\ pc'[t] \notin SemPcs /\ pc'[t] \notin MutexPcs
    BY <1>2, <1>7 DEF SemPcs, MutexPcs
  <1>10. PcInv'
    <2>1. kernel'.current = t /\ kernel'.lock_nest = 0
      BY <1>1, <1>2, <1>6, <1>7 DEF SameRun
    <2>2. isr' \in BOOLEAN /\ "sleep_schedule" \in Blocking
      BY <1>7 DEF IInv, PcInv, Blocking
    <2>3. PcInv
      BY DEF IInv
    <2>4. pc' \in [Threads -> Places] /\ pc'[Idle] = "run"
      BY <1>2, <1>7, <2>3, Numbers DEF PcInv
    <2>5. \A u \in Threads : kernel'.stat[u] = "suspended" => pc'[u] \in WaitPcs
      BY <1>7, <1>8, <2>3 DEF PcInv, WaitPcs
    <2>6. /\ \A u \in SemQ(kernel') : pc'[u] \in SemPcs
          /\ \A u \in MutexQ(kernel') : pc'[u] \in MutexPcs
      <3>1. SemQ(kernel') = SemQ(kernel) /\ MutexQ(kernel') = MutexQ(kernel)
        BY <1>6, <1>7 DEF SameQueues
      <3>2. /\ \A u \in SemQ(kernel') : u \in Threads /\ u # t /\ pc[u] \in SemPcs
            /\ \A u \in MutexQ(kernel') : u \in Threads /\ u # t /\ pc[u] \in MutexPcs
        BY <1>2, <1>3, <2>3, <3>1, Sorts DEF PcInv
      <3>3. \A u \in Threads : u # t => pc'[u] = pc[u]
        BY <1>7
      <3>4. QED
        BY <3>2, <3>3
    <2>7. \A u \in Threads : kernel'.stat[u] = "suspended" /\ pc'[u] \in SemPcs \union MutexPcs
            => kernel'.error[u] = "ok"
      BY <1>6, <1>7, <1>8, <1>9, <2>3 DEF PcInv
    <2>8. QED
      BY <1>7, <2>1, <2>2, <2>4, <2>5, <2>6, <2>7 DEF PcInv
  <1>11. HasType' /\ SemInv' /\ MutexInv' /\ PrioInv'
    <2>1. /\ \A u \in Threads : (pc'[u] \in SemPcs) = (pc[u] \in SemPcs)
          /\ \A u \in Threads : (pc'[u] \in MutexPcs) = (pc[u] \in MutexPcs)
      BY <1>7, <1>9
    <2>2. \A u \in Threads : pc[u] \in SemPcs \/ pc[u] \in MutexPcs =>
            (kernel'.stat[u] = "ready" /\ kernel'.error[u] = "ok")
              = (kernel.stat[u] = "ready" /\ kernel.error[u] = "ok")
      BY <1>6, <1>7, <1>8, <1>9
    <2>3. /\ SemQ(kernel') \subseteq SemQ(kernel) /\ MutexQ(kernel') \subseteq MutexQ(kernel)
          /\ SortedBy(kernel.mutex.suspend_thread, kernel.prio)
               => SortedBy(kernel'.mutex.suspend_thread, kernel.prio)
      BY <1>3, <1>6, <1>7, Sorts DEF SameQueues
    <2>4. QED
      BY <1>1, <1>6, <1>7, <2>1, <2>2, <2>3, ObjectsUntouched
  <1>12. RunInv'
    BY <1>2, <1>6, <1>7 DEF RunInv, SameRun, Schedules, Blocking
  <1>13. QED
    BY <1>6, <1>7, <1>10, <1>11, <1>12 DEF IInv

\* A call in which the running thread stays ready, that touches no object.
LEMMA KeepsReady ==
  ASSUME IInv, NEW t \in Threads, NEW next, next \in {"run", "schedule"},
         kernel.current = t, t # Idle, kernel.stat[t] = "ready",
         pc[t] \notin SemPcs, pc[t] \notin MutexPcs,
         NEW e, Section(t, e, next), has' = has,
         Tidy(e), e.current = t, SameObjects(kernel, e), SameQueues(kernel, e),
         e.stat = kernel.stat, e.prio = kernel.prio,
         \A u \in Threads : u # t => e.error[u] = kernel.error[u]
  PROVE  Tidy(kernel)' /\ PcInv' /\ HasType' /\ SemInv' /\ MutexInv' /\ PrioInv'
  <1>1. /\ kernel' = e /\ isr' = isr /\ pc'[t] = next /\ pc' \in [Threads -> Places]
        /\ \A u \in Threads : u # t => pc'[u] = pc[u]
    BY PcMoved DEF Places
  <1>2. SemQ(e) = SemQ(kernel) /\ MutexQ(e) = MutexQ(kernel)
    BY DEF SameQueues
  <1>3. Section(t, e, "run") \/ Section(t, e, "schedule")
    OBVIOUS
  <1>4. PcInv'
    BY <1>2, <1>3, ReadyNext
  <1>5. pc'[t] \notin SemPcs /\ pc'[t] \notin MutexPcs
    BY <1>1 DEF SemPcs, MutexPcs
  <1>6. /\ \A u \in Threads : (pc'[u] \in SemPcs) = (pc[u] \in SemPcs)
        /\ \A u \in Threads : (pc'[u] \in MutexPcs) = (pc[u] \in MutexPcs)
    BY <1>1, <1>5
  <1>7. \A u \in Threads : pc[u] \in SemPcs \/ pc[u] \in MutexPcs =>
          (kernel'.stat[u] = "ready" /\ kernel'.error[u] = "ok")
            = (kernel.stat[u] = "ready" /\ kernel.error[u] = "ok")
    BY <1>1
  <1>8. SortedBy(kernel.mutex.suspend_thread, kernel.prio)
          => SortedBy(kernel'.mutex.suspend_thread, kernel.prio)
    BY <1>1, Sorts DEF SameQueues, IInv
  <1>9. HasType' /\ SemInv' /\ MutexInv' /\ PrioInv'
    BY <1>1, <1>2, <1>6, <1>7, <1>8, ObjectsUntouched
  <1>10. QED
    BY <1>1, <1>4, <1>9

\* rt_thread_sleep clears the timeout that woke it.
LEMMA SleepOverStep ==
  ASSUME IInv, NEW t \in Threads, SleepOver(t)
  PROVE  IInv'
  <1>1. /\ kernel.current = t /\ pc[t] = "sleep_woken" /\ has' = has
        /\ Section(t, [kernel EXCEPT !.error[t] = IF @ = "timeout" THEN "ok" ELSE @], "run")
    BY DEF SleepOver
  <1>2. /\ kernel.stat[t] = "ready" /\ t # Idle
        /\ kernel.lock_nest = 0 /\ ~kernel.lowered => HighestReady(kernel)
    BY <1>1, WokenFacts DEF Schedules, Blocking
  <1>3. Tidy(kernel) /\ pc[t] \notin SemPcs /\ pc[t] \notin MutexPcs
    BY <1>1 DEF IInv, SemPcs, MutexPcs
  <1>4. PICK x \in Errors : x = IF kernel.error[t] = "timeout" THEN "ok" ELSE kernel.error[t]
    BY <1>3, Sorts DEF Errors
  <1>5. PICK e : e = ErrorSet(kernel, t, x)
    OBVIOUS
  <1>6. /\ Tidy(e) /\ SameRun(kernel, e) /\ e.sem = kernel.sem /\ e.mutex = kernel.mutex
        /\ e.stat = kernel.stat /\ e.prio = kernel.prio /\ e.timer = kernel.timer
        /\ e.error = [kernel.error EXCEPT ![t] = x]
    BY <1>3, <1>5, ClearedTidy
  <1>7. Section(t, e, "run")
    BY <1>1, <1>3, <1>4, <1>5 DEF ErrorSet, Tidy, KernelType
  <1>8. kernel' = e /\ pc'[t] = "run"
    BY <1>7, PcMoved
  <1>9. SameObjects(kernel, e) /\ SameQueues(kernel, e) /\ e.current = t
    BY <1>1, <1>6 DEF SameObjects, SameMutex, SameQueues, SameRun, SemQ, MutexQ
  <1>10. \A u \in Threads : u # t => e.error[u] = kernel.error[u]
    BY <1>3, <1>6, Sorts
  <1>11. Tidy(kernel)' /\ PcInv' /\ HasType' /\ SemInv' /\ MutexInv' /\ PrioInv'
    BY <1>1, <1>2, <1>3, <1>6, <1>7, <1>9, <1>10, KeepsReady
  <1>12. RunInv'
    BY <1>1, <1>2, <1>6, <1>8 DEF RunInv, HighestReady, SameRun
  <1>13. QED
    BY <1>11, <1>12 DEF IInv

\* rt_thread_yield puts the running thread behind its equals.
LEMMA YieldStep ==
  ASSUME IInv, NEW t \in Threads, YieldCall(t)
  PROVE  IInv'
  <1>1. Calls(t) /\ has' = has /\ Section(t, Yielded(kernel), "schedule")
    BY DEF YieldCall
  <1>2. /\ kernel.current = t /\ pc[t] = "run" /\ t # Idle /\ ~isr
        /\ kernel.stat[t] = "ready" /\ t \notin SemQ(kernel) /\ t \notin MutexQ(kernel)
        /\ kernel.lock_nest = 0 /\ ~kernel.lowered => HighestReady(kernel)
    BY <1>1, CallFacts
  <1>3. Tidy(kernel) /\ pc[t] \notin SemPcs /\ pc[t] \notin MutexPcs
    BY <1>2 DEF IInv, SemPcs, MutexPcs
  <1>4. PICK e : e = Yielded(kernel)
    OBVIOUS
  <1>5. /\ Tidy(e) /\ SameRun(kernel, e) /\ SameObjects(kernel, e) /\ SameQueues(kernel, e)
        /\ e.stat = kernel.stat /\ e.prio = kernel.prio /\ e.error = kernel.error
        /\ e.timer = kernel.timer
    BY <1>2, <1>3, <1>4, YieldedTidy
  <1>6. Section(t, e, "schedule") /\ kernel' = e /\ pc'[t] = "schedule" /\ e.current = t
    BY <1>1, <1>2, <1>4, <1>5, PcMoved DEF SameRun
  <1>7. Tidy(kernel)' /\ PcInv' /\ HasType' /\ SemInv' /\ MutexInv' /\ PrioInv'
    BY <1>1, <1>2, <1>3, <1>5, <1>6, KeepsReady
  <1>8. RunInv'
    BY <1>6 DEF RunInv, Schedules
  <1>9. QED
    BY <1>7, <1>8 DEF IInv

LockSet(k, n) == [k EXCEPT !.lock_nest = n]

\* The scheduler's lock.
LEMMA LockTidy ==
  ASSUME NEW k, Tidy(k), NEW n \in Nat, NEW e, e = LockSet(k, n)
  PROVE  /\ Tidy(e) /\ e.lock_nest = n /\ e.current = k.current
         /\ SameObjects(k, e) /\ SameQueues(k, e)
         /\ e.stat = k.stat /\ e.prio = k.prio /\ e.error = k.error
  <1>1. /\ e \in KernelType /\ e.ready = k.ready /\ e.stat = k.stat /\ e.prio = k.prio
        /\ e.timer = k.timer /\ e.error = k.error /\ e.sem = k.sem /\ e.mutex = k.mutex
        /\ e.lock_nest = n /\ e.current = k.current
    BY DEF Tidy, KernelType, LockSet
  <1>2. QED
    BY <1>1, ObjectsTidy DEF SameObjects, SameMutex, SameQueues, SemQ, MutexQ

\* rt_enter_critical and rt_exit_critical
LEMMA CriticalStep ==
  ASSUME IInv, NEW t \in Threads, EnterCritical(t) \/ ExitCritical(t)
  PROVE  IInv'
  <1>1. Calls(t) /\ has' = has
    BY DEF EnterCritical, ExitCritical
  <1>2. /\ kernel.current = t /\ pc[t] = "run" /\ t # Idle /\ ~isr
        /\ kernel.stat[t] = "ready" /\ t \notin SemQ(kernel) /\ t \notin MutexQ(kernel)
        /\ kernel.lock_nest = 0 /\ ~kernel.lowered => HighestReady(kernel)
    BY <1>1, CallFacts
  <1>3. Tidy(kernel) /\ pc[t] \notin SemPcs /\ pc[t] \notin MutexPcs /\ kernel.lock_nest \in Nat
    BY <1>2, Sorts DEF IInv, SemPcs, MutexPcs
  <1>4. PICK n \in Nat, next \in {"run", "schedule"} :
          Section(t, LockSet(kernel, n), next) /\ (n > 0 \/ next = "schedule")
    <2>1. CASE EnterCritical(t)
      <3>1. Section(t, LockSet(kernel, kernel.lock_nest + 1), "run") /\ kernel.lock_nest + 1 \in Nat
            /\ kernel.lock_nest + 1 > 0
        BY <1>3, <2>1 DEF EnterCritical, LockSet
      <3>2. QED
        BY <3>1
    <2>2. CASE ExitCritical(t)
      <3>1. Section(t, LockSet(kernel, kernel.lock_nest - 1), "schedule") /\ kernel.lock_nest - 1 \in Nat
        BY <1>3, <2>2 DEF ExitCritical, LockSet
      <3>2. QED
        BY <3>1
    <2>3. QED
      BY <2>1, <2>2
  <1>5. PICK e : e = LockSet(kernel, n)
    OBVIOUS
  <1>6. /\ Tidy(e) /\ e.lock_nest = n /\ e.current = kernel.current
        /\ SameObjects(kernel, e) /\ SameQueues(kernel, e)
        /\ e.stat = kernel.stat /\ e.prio = kernel.prio /\ e.error = kernel.error
    BY <1>3, <1>5, LockTidy
  <1>7. Section(t, e, next) /\ kernel' = e /\ pc'[t] = next /\ e.current = t
    BY <1>2, <1>4, <1>5, <1>6, PcMoved
  <1>8. Tidy(kernel)' /\ PcInv' /\ HasType' /\ SemInv' /\ MutexInv' /\ PrioInv'
    BY <1>1, <1>2, <1>3, <1>6, <1>7, KeepsReady
  <1>9. RunInv'
    BY <1>4, <1>6, <1>7 DEF RunInv, Schedules
  <1>10. QED
    BY <1>8, <1>9 DEF IInv

\* The rt_schedule that ends a call.
LEMMA CallScheduleStep ==
  ASSUME IInv, NEW t \in Threads, CallSchedule(t)
  PROVE  IInv'
  <1>1. /\ kernel.current = t /\ Section(t, Schedule(kernel), After(pc[t])) /\ has' = has
        /\ pc[t] \in {"schedule", "sem_schedule", "mutex_schedule", "sleep_schedule"}
    BY DEF CallSchedule
  <1>2. /\ pc[t] = "schedule" => After(pc[t]) = "run"
        /\ pc[t] = "sem_schedule" => After(pc[t]) = "sem_woken"
        /\ pc[t] = "mutex_schedule" => After(pc[t]) = "mutex_woken"
        /\ pc[t] = "sleep_schedule" => After(pc[t]) = "sleep_woken"
    BY DEF After
  <1>3. PICK next : next = After(pc[t])
    OBVIOUS
  <1>4. /\ next \in Places /\ (next \in SemPcs) = (pc[t] \in SemPcs)
        /\ (next \in MutexPcs) = (pc[t] \in MutexPcs)
        /\ pc[t] \in WaitPcs => next \in WaitPcs
    BY <1>1, <1>2, <1>3 DEF Places, WaitPcs, SemPcs, MutexPcs
  <1>5. PICK e : e = Schedule(kernel)
    OBVIOUS
  <1>6. Tidy(kernel) /\ kernel.stat[Idle] = "ready"
    BY IdleReady DEF IInv
  <1>7. /\ Tidy(e) /\ e.lock_nest = kernel.lock_nest /\ e.sem = kernel.sem /\ e.mutex = kernel.mutex
        /\ e.stat = kernel.stat /\ e.prio = kernel.prio /\ e.error = kernel.error
        /\ e.timer = kernel.timer
        /\ kernel.lock_nest > 0 => e.current = kernel.current
        /\ kernel.lock_nest = 0 => HighestReady(e) /\ ~e.lowered
        /\ kernel.lock_nest > 0 => e = kernel
    BY <1>5, <1>6, ScheduledTidy
  <1>8. /\ kernel' = e /\ isr' = isr /\ pc'[t] = next /\ pc' \in [Threads -> Places]
        /\ \A u \in Threads : u # t => pc'[u] = pc[u]
    BY <1>1, <1>3, <1>4, <1>5, PcMoved
  <1>9. kernel.lock_nest \in Nat
    BY <1>6, Sorts
  <1>10. SemQ(e) = SemQ(kernel) /\ MutexQ(e) = MutexQ(kernel) /\ SameObjects(kernel, e)
    BY <1>7 DEF SemQ, MutexQ, SameObjects, SameMutex
  <1>11. /\ \A u \in Threads : (pc'[u] \in SemPcs) = (pc[u] \in SemPcs)
         /\ \A u \in Threads : (pc'[u] \in MutexPcs) = (pc[u] \in MutexPcs)
    BY <1>4, <1>8
  <1>12. PcInv'
    <2>1. PcInv
      BY DEF IInv
    <2>2. t # Idle
      BY <1>1, <2>1 DEF PcInv
    <2>3. isr' \in BOOLEAN /\ pc'[Idle] = "run"
      BY <1>8, <2>1, <2>2, Numbers DEF PcInv
    <2>4. \A u \in Threads : kernel'.stat[u] = "suspended" => pc'[u] \in WaitPcs
      BY <1>4, <1>7, <1>8, <2>1 DEF PcInv
    <2>5. kernel'.stat[kernel'.current] # "suspended"
      <3>1. CASE kernel.lock_nest = 0
        BY <1>7, <1>8, <3>1 DEF HighestReady
      <3>2. CASE kernel.lock_nest > 0
        BY <1>7, <1>8, <2>1, <3>2 DEF PcInv
      <3>3. QED
        BY <1>9, <3>1, <3>2
    <2>6. /\ \A u \in SemQ(kernel') : pc'[u] \in SemPcs
          /\ \A u \in MutexQ(kernel') : pc'[u] \in MutexPcs
      BY <1>6, <1>8, <1>10, <1>11, <2>1, Sorts DEF PcInv
    <2>7. \A u \in Threads : kernel'.stat[u] = "suspended" /\ pc'[u] \in SemPcs \union MutexPcs
            => kernel'.error[u] = "ok"
      BY <1>7, <1>8, <1>11, <2>1 DEF PcInv
    <2>8. QED
      BY <1>8, <2>3, <2>4, <2>5, <2>6, <2>7 DEF PcInv
  <1>13. HasType' /\ SemInv' /\ MutexInv' /\ PrioInv'
    BY <1>1, <1>7, <1>8, <1>10, <1>11, ObjectsUntouched
  <1>14. RunInv'
    BY <1>7, <1>8 DEF RunInv
  <1>15. QED
    BY <1>7, <1>8, <1>12, <1>13, <1>14 DEF IInv
----------------------------------------------------------------------------
\* In an interrupt no thread moves in its call; it may schedule, and no thread is
\* suspended by it.
LEMMA InterruptKeeps ==
  ASSUME IInv, Tidy(kernel)', pc' = pc, isr' \in BOOLEAN, kernel'.lock_nest = kernel.lock_nest,
         SemQ(kernel') \subseteq SemQ(kernel), MutexQ(kernel') \subseteq MutexQ(kernel),
         \A u \in Threads : kernel'.stat[u] = "suspended" =>
           kernel.stat[u] = "suspended" /\ kernel'.error[u] = kernel.error[u],
         \/ HighestReady(kernel')
         \/ /\ kernel'.current = kernel.current
            /\ \/ kernel.lock_nest > 0
               \/ /\ kernel'.stat = kernel.stat /\ kernel'.prio = kernel.prio
                  /\ ~kernel'.lowered => ~kernel.lowered
  PROVE  PcInv' /\ RunInv'
  <1>1. PcInv /\ Tidy(kernel)
    BY DEF IInv
  <1>2. kernel'.current \in Threads
    BY DEF Tidy, KernelType
  <1>3. \A u \in Threads : kernel'.stat[u] = "suspended" => pc'[u] \in WaitPcs
    BY <1>1 DEF PcInv
  <1>4. kernel'.stat[kernel'.current] = "suspended" =>
          pc'[kernel'.current] \in Blocking /\ kernel'.lock_nest = 0
    BY <1>1, <1>2 DEF PcInv, HighestReady
  <1>5. /\ \A u \in SemQ(kernel') : pc'[u] \in SemPcs
        /\ \A u \in MutexQ(kernel') : pc'[u] \in MutexPcs
    BY <1>1 DEF PcInv
  <1>6. \A u \in Threads : kernel'.stat[u] = "suspended" /\ pc'[u] \in SemPcs \union MutexPcs
          => kernel'.error[u] = "ok"
    BY <1>1 DEF PcInv
  <1>7. PcInv'
    BY <1>1, <1>3, <1>4, <1>5, <1>6 DEF PcInv
  <1>8. RunInv'
    BY <1>1, Sorts DEF IInv, RunInv, HighestReady
  <1>9. QED
    BY <1>7, <1>8

CountedDown(k) ==
  [k EXCEPT !.timer = [t \in Threads |-> IF @[t] > 0 THEN @[t] - 1 ELSE @[t]]]

\* Counting the timers down moves no thread and stops no timer.
LEMMA CountedTidy ==
  ASSUME NEW k, Tidy(k), NEW e, e = CountedDown(k)
  PROVE  /\ Tidy(e) /\ SameRun(k, e) /\ e.sem = k.sem /\ e.mutex = k.mutex
         /\ e.stat = k.stat /\ e.prio = k.prio /\ e.error = k.error
  <1>1. k \in KernelType /\ k.timer \in [Threads -> Nat \union {Off}]
    BY DEF Tidy, KernelType
  <1>2. PICK m : m = [t \in Threads |-> IF k.timer[t] > 0 THEN k.timer[t] - 1 ELSE k.timer[t]]
    OBVIOUS
  <1>3. e = [k EXCEPT !.timer = m]
    BY <1>1, <1>2 DEF CountedDown, KernelType
  <1>4. ASSUME NEW t \in Threads PROVE m[t] \in Nat \union {Off} /\ (m[t] = Off <=> k.timer[t] = Off)
    <2>1. m[t] = IF k.timer[t] > 0 THEN k.timer[t] - 1 ELSE k.timer[t]
      BY <1>2
    <2>2. k.timer[t] \in Nat \union {Off}
      BY <1>1
    <2>3. QED
      BY <2>1, <2>2 DEF Off
  <1>5. m \in [Threads -> Nat \union {Off}]
    BY <1>2, <1>4
  <1>6. /\ e \in KernelType /\ e.ready = k.ready /\ e.stat = k.stat /\ e.prio = k.prio
        /\ e.timer = m /\ e.error = k.error /\ e.sem = k.sem /\ e.mutex = k.mutex /\ SameRun(k, e)
    BY <1>1, <1>3, <1>5 DEF KernelType, SameRun
  <1>7. QED
    BY <1>4, <1>6 DEF Tidy, InOneList, Waiting

\* The tick counts the timers down, and may take the processor from the running thread.
LEMMA TickStep ==
  ASSUME IInv, Tick
  PROVE  IInv'
  <1>1. isr' \in BOOLEAN /\ pc' = pc /\ has' = has
    BY DEF Tick
  <1>2. PICK over \in BOOLEAN :
          kernel' = CountedDown(IF over /\ Yields(kernel) THEN Schedule(Yielded(kernel)) ELSE kernel)
    BY DEF Tick, CountedDown
  <1>3. PICK k : k = IF over /\ Yields(kernel) THEN Schedule(Yielded(kernel)) ELSE kernel
    OBVIOUS
  <1>4. Tidy(kernel) /\ kernel.stat[Idle] = "ready" /\ kernel.lock_nest \in Nat
    BY IdleReady, Sorts DEF IInv
  <1>5. /\ Tidy(k) /\ k.lock_nest = kernel.lock_nest /\ SameObjects(kernel, k) /\ SameQueues(kernel, k)
        /\ k.stat = kernel.stat /\ k.prio = kernel.prio /\ k.error = kernel.error
        /\ HighestReady(k) \/ (k.current = kernel.current /\ k.lowered = kernel.lowered)
    <2>1. CASE over /\ Yields(kernel)
      <3>1. PICK y : y = Yielded(kernel)
        OBVIOUS
      <3>2. /\ Tidy(y) /\ SameRun(kernel, y) /\ SameObjects(kernel, y) /\ SameQueues(kernel, y)
            /\ y.stat = kernel.stat /\ y.prio = kernel.prio /\ y.error = kernel.error
            /\ y.timer = kernel.timer
        BY <1>4, <2>1, <3>1, YieldedTidy DEF Yields
      <3>3. k = Schedule(y) /\ y.stat[Idle] = "ready" /\ Tidy(y)
        BY <1>3, <1>4, <2>1, <3>1, <3>2
      <3>4. /\ Tidy(k) /\ k.lock_nest = y.lock_nest /\ k.sem = y.sem /\ k.mutex = y.mutex
            /\ k.stat = y.stat /\ k.prio = y.prio /\ k.error = y.error /\ k.timer = y.timer
            /\ y.lock_nest > 0 => k.current = y.current
            /\ y.lock_nest = 0 => HighestReady(k) /\ ~k.lowered
            /\ y.lock_nest > 0 => k = y
        BY <3>3, ScheduledTidy
      <3>5. HighestReady(k) \/ (k.current = kernel.current /\ k.lowered = kernel.lowered)
        BY <1>4, <3>2, <3>4 DEF SameRun
      <3>6. QED
        BY <3>2, <3>4, <3>5 DEF SameRun, SameObjects, SameMutex, SameQueues, SemQ, MutexQ
    <2>2. CASE ~(over /\ Yields(kernel))
      <3>1. k = kernel
        BY <1>3, <2>2
      <3>2. QED
        BY <1>4, <3>1 DEF SameObjects, SameMutex, SameQueues
    <2>3. QED
      BY <2>1, <2>2
  <1>6. PICK e : e = CountedDown(k)
    OBVIOUS
  <1>7. /\ Tidy(e) /\ SameRun(k, e) /\ e.sem = k.sem /\ e.mutex = k.mutex
        /\ e.stat = k.stat /\ e.prio = k.prio /\ e.error = k.error
    BY <1>5, <1>6, CountedTidy
  <1>8. kernel' = e
    BY <1>2, <1>3, <1>6
  <1>9. /\ SemQ(kernel') = SemQ(kernel) /\ MutexQ(kernel') = MutexQ(kernel)
        /\ SameObjects(kernel, kernel') /\ kernel'.lock_nest = kernel.lock_nest
        /\ kernel'.stat = kernel.stat /\ kernel'.prio = kernel.prio /\ kernel'.error = kernel.error
    BY <1>5, <1>7, <1>8 DEF SameRun, SameObjects, SameMutex, SameQueues, SemQ, MutexQ
  <1>10. HighestReady(kernel') \/ (kernel'.current = kernel.current /\ kernel'.lowered = kernel.lowered)
    BY <1>5, <1>7, <1>8 DEF SameRun, HighestReady
  <1>11. PcInv' /\ RunInv'
    BY <1>1, <1>7, <1>8, <1>9, <1>10, InterruptKeeps
  <1>12. SortedBy(kernel.mutex.suspend_thread, kernel.prio)
           => SortedBy(kernel'.mutex.suspend_thread, kernel.prio)
    BY <1>4, <1>5, <1>7, <1>8, Sorts DEF SameQueues
  <1>13. HasType' /\ SemInv' /\ MutexInv' /\ PrioInv'
    BY <1>1, <1>7, <1>8, <1>9, <1>12, ObjectsUntouched
  <1>14. QED
    BY <1>7, <1>8, <1>11, <1>13 DEF IInv

\* A timer runs out.
LEMMA ExpireStep ==
  ASSUME IInv, NEW t \in Threads, Expire(t)
  PROVE  IInv'
  <1>1. kernel.timer[t] = 0 /\ kernel' = Schedule(TimedOut(kernel, t)) /\ pc' = pc /\ isr' = isr
        /\ has' = has
    BY DEF Expire, ThreadTimeout
  <1>2. Tidy(kernel) /\ kernel.stat[Idle] = "ready" /\ kernel.lock_nest \in Nat
    BY IdleReady, Sorts DEF IInv
  <1>3. kernel.stat[t] = "suspended"
    BY <1>1, <1>2, Numbers DEF Tidy, InOneList
  <1>4. PICK k : k = TimedOut(kernel, t)
    OBVIOUS
  <1>5. /\ Tidy(k) /\ SameRun(kernel, k) /\ SameObjects(kernel, k) /\ QueuesWithout(kernel, k, t)
        /\ k.stat = [kernel.stat EXCEPT ![t] = "ready"]
        /\ k.prio = kernel.prio /\ k.error = [kernel.error EXCEPT ![t] = "timeout"]
        /\ k.timer = [kernel.timer EXCEPT ![t] = Off]
    BY <1>2, <1>3, <1>4, TimedOutTidy
  <1>6. /\ k.stat[t] = "ready" /\ k.error[t] = "timeout"
        /\ \A u \in Threads : u # t => k.stat[u] = kernel.stat[u] /\ k.error[u] = kernel.error[u]
    BY <1>2, <1>5, Sorts
  <1>7. PICK e : e = Schedule(k)
    OBVIOUS
  <1>8. Tidy(k) /\ k.stat[Idle] = "ready"
    <2>1. k.stat[Idle] = "ready"
      BY <1>2, <1>6, Numbers
    <2>2. QED
      BY <1>5, <2>1
  <1>9. /\ Tidy(e) /\ e.lock_nest = k.lock_nest /\ e.sem = k.sem /\ e.mutex = k.mutex
        /\ e.stat = k.stat /\ e.prio = k.prio /\ e.error = k.error /\ e.timer = k.timer
        /\ k.lock_nest > 0 => e.current = k.current
        /\ k.lock_nest = 0 => HighestReady(e) /\ ~e.lowered
        /\ k.lock_nest > 0 => e = k
    BY <1>7, <1>8, ScheduledTidy
  <1>10. kernel' = e /\ Tidy(kernel')
    BY <1>1, <1>4, <1>7, <1>9
  <1>11. /\ kernel'.lock_nest = kernel.lock_nest /\ SameObjects(kernel, kernel')
         /\ kernel'.prio = kernel.prio
         /\ SemQ(kernel') \subseteq SemQ(kernel) /\ MutexQ(kernel') \subseteq MutexQ(kernel)
    BY <1>5, <1>9, <1>10 DEF SameRun, SameObjects, SameMutex, QueuesWithout, SemQ, MutexQ
  <1>12. HighestReady(kernel') \/ (kernel'.current = kernel.current /\ kernel.lock_nest > 0)
    BY <1>2, <1>5, <1>9, <1>10 DEF SameRun
  <1>13. \A u \in Threads : kernel'.stat[u] = "suspended" =>
           kernel.stat[u] = "suspended" /\ kernel'.error[u] = kernel.error[u]
    BY <1>6, <1>9, <1>10
  <1>14. isr' \in BOOLEAN
    BY <1>1 DEF IInv, PcInv
  <1>15. PcInv' /\ RunInv'
    BY <1>1, <1>10, <1>11, <1>12, <1>13, <1>14, InterruptKeeps
  <1>16. SortedBy(kernel.mutex.suspend_thread, kernel.prio)
           => SortedBy(kernel'.mutex.suspend_thread, kernel.prio)
    BY <1>2, <1>5, <1>9, <1>10, Sorts DEF QueuesWithout
  <1>17. \A u \in Threads : (kernel'.stat[u] = "ready" /\ kernel'.error[u] = "ok")
                              = (kernel.stat[u] = "ready" /\ kernel.error[u] = "ok")
    BY <1>3, <1>6, <1>9, <1>10
  <1>18. HasType' /\ SemInv' /\ MutexInv' /\ PrioInv'
    BY <1>1, <1>10, <1>11, <1>16, <1>17, ObjectsUntouched
  <1>19. QED
    BY <1>10, <1>15, <1>18 DEF IInv

\* The tick interrupt has checked every timer.
LEMMA TickEndStep ==
  ASSUME IInv, TickEnd
  PROVE  IInv'
  <1>1. kernel' = kernel /\ pc' = pc /\ has' = has /\ isr' \in BOOLEAN
    BY DEF TickEnd
  <1>2. QED
    BY <1>1 DEF IInv, PcInv, HasType, SemInv, MutexInv, PrioInv, RunInv

\* rt_sem_release in an interrupt, which schedules if it woke a waiter.
LEMMA IsrReleaseStep ==
  ASSUME IInv, IsrRelease
  PROVE  IInv'
  <1>1. /\ ~isr /\ kernel.sem.value + Cardinality(has.tokens) < MaxTokens
        /\ kernel' = IF kernel.sem.suspend_thread = <<>> THEN SemRelease(kernel)
                     ELSE Schedule(SemRelease(kernel))
        /\ has' = [has EXCEPT !.tokens = Passed(@)] /\ pc' = pc /\ isr' = isr
    BY DEF IsrRelease
  <1>2. /\ Tidy(kernel) /\ kernel.stat[Idle] = "ready" /\ kernel.lock_nest \in Nat
        /\ kernel.sem.value \in Nat
    BY IdleReady, Sorts DEF IInv
  <1>3. /\ HasType' /\ has'.depth = has.depth /\ has'.told = has.told
        /\ has'.tokens = Passed(has.tokens)
    <2>1. has' = [tokens |-> Passed(has.tokens), told |-> has.told, depth |-> has.depth]
      BY <1>1 DEF IInv, HasType
    <2>2. Passed(has.tokens) \subseteq Threads
      <3>1. kernel.sem.suspend_thread \in Seq(Threads)
        BY DEF IInv, Tidy, KernelType, SemType, Lists
      <3>2. QED
        BY <3>1, SeqFacts DEF Passed, IInv, HasType
    <2>3. QED
      BY <2>1, <2>2 DEF IInv, HasType
  <1>4. PICK k : k = SemRelease(kernel)
    OBVIOUS
  <1>5. isr' \in BOOLEAN /\ Cardinality(has.tokens) \in Nat /\ MaxTokens \in Nat /\ SemInit \in Nat
    BY <1>1, TokenCounts, Numbers DEF IInv, PcInv, HasType
  <1>6. CASE SemQ(kernel) = {}
    <2>1. kernel.sem.suspend_thread = <<>>
      BY <1>2, <1>6, Sorts
    <2>2. /\ Tidy(k) /\ SameRun(kernel, k) /\ k.mutex = kernel.mutex /\ SemQ(k) = {}
          /\ k.sem.value = kernel.sem.value + 1 /\ k.stat = kernel.stat /\ k.prio = kernel.prio
          /\ k.error = kernel.error
      BY <1>2, <1>4, <1>6, ReleasedTidy
    <2>3. kernel' = k /\ has'.tokens = has.tokens
      BY <1>1, <1>3, <1>4, <2>1 DEF Passed
    <2>4. PcInv' /\ RunInv'
      <3>1. /\ kernel'.lock_nest = kernel.lock_nest /\ kernel'.current = kernel.current
            /\ kernel'.lowered = kernel.lowered
            /\ SemQ(kernel') \subseteq SemQ(kernel) /\ MutexQ(kernel') \subseteq MutexQ(kernel)
        BY <2>2, <2>3 DEF SameRun, MutexQ
      <3>2. QED
        BY <1>1, <1>5, <2>2, <2>3, <3>1, InterruptKeeps
    <2>5. SemInv'
      <3>1. kernel'.sem.value + Cardinality(has'.tokens) = kernel.sem.value + Cardinality(has.tokens) + 1
        BY <1>2, <1>5, <2>2, <2>3
      <3>2. SemQ(kernel') = {} /\ kernel'.stat = kernel.stat /\ kernel'.error = kernel.error
        BY <2>2, <2>3
      <3>3. QED
        BY <1>1, <1>2, <1>3, <1>5, <2>3, <3>1, <3>2 DEF IInv, SemInv
    <2>6. MutexInv' /\ PrioInv'
      BY <1>1, <1>3, <2>2, <2>3, MutexUntouched DEF SameMutex, MutexQ
    <2>7. QED
      BY <1>3, <2>2, <2>3, <2>4, <2>5, <2>6 DEF IInv
  <1>7. CASE SemQ(kernel) # {}
    <2>1. kernel.sem.suspend_thread # <<>>
      BY <1>2, <1>7, Sorts
    <2>2. /\ Head(kernel.sem.suspend_thread) \in SemQ(kernel) /\ Head(kernel.sem.suspend_thread) \in Threads
          /\ Tidy(k) /\ SameRun(kernel, k) /\ SameObjects(kernel, k)
          /\ QueuesWithout(kernel, k, Head(kernel.sem.suspend_thread))
          /\ k.stat = [kernel.stat EXCEPT ![Head(kernel.sem.suspend_thread)] = "ready"]
          /\ k.prio = kernel.prio /\ k.error = kernel.error
      BY <1>2, <1>4, <1>7, ReleasedTidy
    <2> PICK w \in Threads : w = Head(kernel.sem.suspend_thread)
      BY <2>2
    <2>3. /\ k.stat[w] = "ready" /\ k.error = kernel.error
          /\ \A u \in Threads : u # w => k.stat[u] = kernel.stat[u]
      BY <1>2, <2>2, Sorts
    <2>4. PICK e : e = Schedule(k)
      OBVIOUS
    <2>5. Tidy(k) /\ k.stat[Idle] = "ready"
      <3>1. k.stat[Idle] = "ready"
        BY <1>2, <2>3, Numbers
      <3>2. QED
        BY <2>2, <3>1
    <2>6. /\ Tidy(e) /\ e.lock_nest = k.lock_nest /\ e.sem = k.sem /\ e.mutex = k.mutex
          /\ e.stat = k.stat /\ e.prio = k.prio /\ e.error = k.error /\ e.timer = k.timer
          /\ k.lock_nest > 0 => e.current = k.current
          /\ k.lock_nest = 0 => HighestReady(e) /\ ~e.lowered
          /\ k.lock_nest > 0 => e = k
      BY <2>4, <2>5, ScheduledTidy
    <2>7. kernel' = e /\ has'.tokens = has.tokens \union {w}
      BY <1>1, <1>3, <1>4, <2>1, <2>4 DEF Passed
    <2>8. w \notin MutexQ(kernel) /\ w \in SemQ(kernel)
      BY <1>2, <2>2, Sorts
    <2>9. SemQ(kernel') = SemQ(kernel) \ {w} /\ MutexQ(kernel') = MutexQ(kernel)
      <3>1. SemQ(k) = SemQ(kernel) \ {w} /\ MutexQ(k) = MutexQ(kernel) \ {w}
        BY <2>2 DEF QueuesWithout
      <3>2. QED
        BY <2>6, <2>7, <2>8, <3>1 DEF SemQ, MutexQ
    <2>10. /\ kernel'.lock_nest = kernel.lock_nest /\ SameObjects(kernel, kernel')
           /\ kernel'.prio = kernel.prio /\ kernel'.error = kernel.error
           /\ kernel'.stat[w] = "ready" /\ \A u \in Threads : u # w => kernel'.stat[u] = kernel.stat[u]
      BY <2>2, <2>3, <2>6, <2>7 DEF SameRun, SameObjects, SameMutex
    <2>11. HighestReady(kernel') \/ (kernel'.current = kernel.current /\ kernel.lock_nest > 0)
      BY <1>2, <2>2, <2>6, <2>7 DEF SameRun
    <2>12. PcInv' /\ RunInv'
      <3>1. \A u \in Threads : kernel'.stat[u] = "suspended" =>
              kernel.stat[u] = "suspended" /\ kernel'.error[u] = kernel.error[u]
        BY <2>10
      <3>2. SemQ(kernel') \subseteq SemQ(kernel) /\ MutexQ(kernel') \subseteq MutexQ(kernel)
        BY <2>9
      <3>3. Tidy(kernel)'
        BY <2>6, <2>7
      <3>4. QED
        BY <1>1, <1>5, <2>10, <2>11, <3>1, <3>2, <3>3, InterruptKeeps
    <2>13. /\ pc[w] \in SemPcs /\ kernel.stat[w] = "suspended" /\ kernel.error[w] = "ok"
           /\ w \notin has.tokens
      BY <1>2, <2>8, Sorts DEF IInv, PcInv, SemInv
    <2>14. SemInv'
      <3>1. Cardinality(has'.tokens) = Cardinality(has.tokens) + 1
        BY <2>7, <2>13, TokenCounts DEF IInv, HasType
      <3>2. kernel'.sem.value = kernel.sem.value
        BY <2>10 DEF SameObjects
      <3>3. SemInv
        BY DEF IInv
      <3>4. has'.told \subseteq has'.tokens
        BY <1>3, <2>7, <3>3 DEF SemInv
      <3>5. ASSUME NEW u \in Threads, pc'[u] \in SemPcs
            PROVE  u \notin has'.told
                   /\ (u \in has'.tokens <=> kernel'.stat[u] = "ready" /\ kernel'.error[u] = "ok")
        BY <1>1, <1>3, <2>7, <2>10, <2>13, <3>3, <3>5 DEF SemInv
      <3>6. \A u \in Threads : pc'[u] \notin SemPcs => (u \in has'.tokens => u \in has'.told)
        BY <1>1, <1>3, <2>7, <2>13, <3>3 DEF SemInv
      <3>7. SemQ(kernel') # {} => kernel'.sem.value = 0
        BY <1>7, <3>2, <3>3 DEF SemInv
      <3>8. /\ SemInit <= kernel'.sem.value + Cardinality(has'.tokens)
            /\ kernel'.sem.value + Cardinality(has'.tokens) <= MaxTokens
        BY <1>1, <1>2, <1>5, <3>1, <3>2, <3>3 DEF SemInv
      <3>9. QED
        BY <3>4, <3>5, <3>6, <3>7, <3>8 DEF SemInv
    <2>15. MutexInv' /\ PrioInv'
      <3>1. pc[w] \notin MutexPcs
        BY <2>13 DEF SemPcs, MutexPcs
      <3>2. \A u \in Threads : pc[u] \in MutexPcs =>
              kernel'.stat[u] = kernel.stat[u] /\ kernel'.error[u] = kernel.error[u]
        BY <2>10, <3>1
      <3>3. SortedBy(kernel.mutex.suspend_thread, kernel.prio)
              => SortedBy(kernel'.mutex.suspend_thread, kernel.prio)
        BY <1>2, <2>2, <2>6, <2>7, Sorts DEF QueuesWithout
      <3>4. Tidy(kernel)' /\ SameMutex(kernel, kernel')
        BY <2>6, <2>7, <2>10 DEF SameObjects
      <3>5. QED
        BY <1>1, <1>3, <2>9, <2>10, <3>2, <3>3, <3>4, MutexUntouched
    <2>16. QED
      BY <1>3, <2>6, <2>7, <2>12, <2>14, <2>15 DEF IInv
  <1>8. QED
    BY <1>6, <1>7
----------------------------------------------------------------------------
\* Every step keeps it.
LEMMA StepKeeps ==
  ASSUME IInv, [Next]_vars
  PROVE  IInv'
  <1>1. ASSUME NEW t \in Threads, Thread(t) PROVE IInv'
    BY <1>1, SemTakeStep, SemTakenStep, SemGiveStep, MutexTakeStep, MutexTakenStep, MutexGiveStep,
       SleepStep, SleepOverStep, YieldStep, CriticalStep, CallScheduleStep DEF Thread
  <1>2. ASSUME NEW t \in Threads, Expire(t) PROVE IInv'
    BY <1>2, ExpireStep
  <1>3. CASE UNCHANGED vars
    BY <1>3 DEF vars, IInv, PcInv, HasType, SemInv, MutexInv, PrioInv, RunInv
  <1>4. QED
    BY <1>1, <1>2, <1>3, TickStep, TickEndStep, IsrReleaseStep DEF Next

\* A set of threads as a list.
LEMMA SetListed ==
  ASSUME NEW S \in SUBSET Threads
  PROVE  SetToSeq(S) \in Lists /\ ToSet(SetToSeq(S)) = S
  <1>1. IsFiniteSet(S)
    BY Numbers, FS_Subset
  <1>2. PICK n \in Nat : n = Cardinality(S)
    BY <1>1, FS_CardinalityType
  <1>3. PICK f : f = SetToSeq(S)
    OBVIOUS
  <1>4. f \in Injection(1..n, S)
    <2>1. \E g \in [1..n -> S] : IsInjective(g)
      <3>1. ExistsBijection(1..n, S)
        BY <1>1, <1>2, FS_CardinalityType
      <3>2. QED
        BY <3>1 DEF ExistsBijection, Bijection, Injection
    <2>2. f = CHOOSE g \in [1..n -> S] : IsInjective(g)
      BY <1>2, <1>3 DEF SetToSeq
    <2>3. f \in [1..n -> S] /\ IsInjective(f)
      BY <2>1, <2>2
    <2>4. QED
      BY <2>3 DEF Injection
  <1>5. f \in Surjection(1..n, S)
    <2>1. Cardinality(1..n) = n
      BY FS_Interval
    <2>2. QED
      BY <1>1, <1>2, <1>4, <2>1, FS_Injection
  <1>6. f \in [1..n -> S] /\ IsInjective(f) /\ \A u \in S : \E i \in 1..n : f[i] = u
    BY <1>4, <1>5 DEF Injection, Surjection
  <1>7. f \in Seq(Threads) /\ DOMAIN f = 1..n
    <2>1. f \in [1..n -> Threads]
      BY <1>6
    <2>2. QED
      BY <1>2, <2>1
  <1>8. ToSet(f) = S
    BY <1>6, <1>7 DEF ToSet
  <1>9. QED
    BY <1>3, <1>6, <1>7, <1>8 DEF Lists

\* The invariant holds at the start.
LEMMA InitKeeps ==
  ASSUME Init
  PROVE  IInv
  <1>1. PICK r : r = [p \in Priorities |-> SetToSeq({ t \in Threads : InitPriority[t] = p })]
    OBVIOUS
  <1>2. PICK m : m = [value |-> 1, owner |-> Nobody, hold |-> 0,
                      original_priority |-> NoPriority, suspend_thread |-> <<>>]
    OBVIOUS
  <1>3. PICK s : s = [value |-> SemInit, suspend_thread |-> <<>>]
    OBVIOUS
  <1>4. PICK k : k = [ current |-> Idle, lock_nest |-> 0, lowered |-> FALSE, ready |-> r,
                       stat |-> [t \in Threads |-> "ready"], prio |-> InitPriority,
                       error |-> [t \in Threads |-> "ok"], timer |-> [t \in Threads |-> Off],
                       sem |-> s, mutex |-> m ]
    OBVIOUS
  <1>5. /\ kernel = Schedule(k) /\ pc = [t \in Threads |-> "run"] /\ isr = FALSE
        /\ has = [tokens |-> {}, told |-> {}, depth |-> [t \in Threads |-> 0]]
    BY <1>1, <1>2, <1>3, <1>4 DEF Init
  <1>6. r \in [Priorities -> Lists] /\ \A p \in Priorities : ToSet(r[p]) = { t \in Threads : InitPriority[t] = p }
    BY <1>1, SetListed
  <1>7. <<>> \in Lists /\ ToSet(<<>>) = {}
    BY DEF Lists, ToSet, IsInjective
  <1>8. m \in MutexType /\ s \in SemType /\ SemQ(k) = {} /\ MutexQ(k) = {}
    BY <1>2, <1>3, <1>4, <1>7, Numbers DEF MutexType, SemType, SemQ, MutexQ
  <1>9. /\ k \in KernelType /\ k.stat = [t \in Threads |-> "ready"] /\ k.lock_nest = 0
        /\ k.prio = InitPriority /\ k.timer = [t \in Threads |-> Off]
        /\ k.ready = r /\ k.sem = s /\ k.mutex = m
    <2>1. /\ [t \in Threads |-> "ready"] \in [Threads -> {"ready", "suspended"}]
          /\ [t \in Threads |-> "ok"] \in [Threads -> Errors]
          /\ [t \in Threads |-> Off] \in [Threads -> Nat \union {Off}]
      BY DEF Errors
    <2>2. QED
      BY <1>4, <1>6, <1>8, <2>1, Numbers DEF KernelType
  <1>10. Tidy(k)
    <2>1. \A t \in Threads : InOneList(k, t)
      BY <1>6, <1>8, <1>9 DEF InOneList, Waiting, SemQ, MutexQ
    <2>2. QED
      BY <1>9, <2>1 DEF Tidy
  <1>11. k.stat[Idle] = "ready"
    BY <1>9, Numbers
  <1>12. /\ Tidy(kernel) /\ kernel.lock_nest = k.lock_nest /\ kernel.sem = k.sem
         /\ kernel.mutex = k.mutex /\ kernel.stat = k.stat /\ kernel.prio = k.prio
         /\ kernel.error = k.error /\ kernel.timer = k.timer
         /\ k.lock_nest > 0 => kernel.current = k.current
         /\ k.lock_nest = 0 => HighestReady(kernel) /\ ~kernel.lowered
         /\ k.lock_nest > 0 => kernel = k
    BY <1>5, <1>10, <1>11, ScheduledTidy
  <1>13. SemQ(kernel) = {} /\ MutexQ(kernel) = {} /\ \A t \in Threads : kernel.stat[t] = "ready"
    BY <1>8, <1>9, <1>12 DEF SemQ, MutexQ
  <1>14. PcInv
    <2>1. pc \in [Threads -> Places] /\ pc[Idle] = "run" /\ isr \in BOOLEAN
      BY <1>5, Numbers DEF Places
    <2>2. kernel.current \in Threads
      BY <1>12 DEF Tidy, KernelType
    <2>3. QED
      BY <1>13, <2>1, <2>2 DEF PcInv
  <1>15. HasType
    BY <1>5 DEF HasType
  <1>16. \A t \in Threads : pc[t] \notin SemPcs /\ pc[t] \notin MutexPcs
    BY <1>5 DEF SemPcs, MutexPcs
  <1>17. SemInv
    <2>1. Cardinality(has.tokens) = 0 /\ has.tokens = {} /\ has.told = {}
      BY <1>5, FS_EmptySet
    <2>2. kernel.sem.value = SemInit
      BY <1>3, <1>9, <1>12
    <2>3. QED
      BY <1>13, <1>16, <2>1, <2>2, Numbers DEF SemInv
  <1>18. kernel.mutex.value = 1 /\ kernel.mutex.owner = Nobody /\ kernel.mutex.suspend_thread = <<>>
    BY <1>2, <1>9, <1>12
  <1>19. MutexInv
    BY <1>5, <1>13, <1>16, <1>18, Numbers DEF MutexInv
  <1>20. PrioInv
    <2>1. SortedBy(kernel.mutex.suspend_thread, kernel.prio)
      BY <1>18 DEF SortedBy
    <2>2. QED
      BY <1>9, <1>12, <1>13, <1>18, <2>1, Numbers DEF PrioInv
  <1>21. RunInv
    BY <1>9, <1>12 DEF RunInv
  <1>22. QED
    BY <1>12, <1>14, <1>15, <1>17, <1>19, <1>20, <1>21 DEF IInv

\* In every reachable state the kernel's lists, each thread's place in its call and
\* the objects' counts agree: the invariant the theorems below follow from.
THEOREM Invariance == Spec => []IInv
  <1>1. Init => IInv
    BY InitKeeps
  <1>2. IInv /\ [Next]_vars => IInv'
    BY StepKeeps
  <1>3. QED
    BY <1>1, <1>2, PTL DEF Spec

\* However calls, ticks, timeouts and releases interleave, a thread is in one list
\* and there once, that of its state: rt_thread_resume, rt_thread_suspend,
\* rt_thread_timeout and a change of priority move its one node and leave no copy.
THEOREM ListsAlwaysAgree == Spec => []ListsAgree
  <1>1. IInv => ListsAgree
    <2> SUFFICES ASSUME IInv PROVE ListsAgree
      OBVIOUS
    <2>1. kernel \in KernelType /\ \A t \in Threads : InOneList(kernel, t)
      BY DEF IInv, Tidy
    <2>2. NoneTwice(kernel)
      BY <2>1 DEF NoneTwice, KernelType, SemType, MutexType, Lists
    <2>3. QED
      BY <2>1, <2>2 DEF ListsAgree
  <1>2. QED
    BY <1>1, Invariance, PTL

\* rt_sem_take tells a thread it has the semaphore exactly if a token was given to it,
\* for every number of threads and of tokens, whichever of a release and its
\* timeout came first; rt_sem_release neither loses nor makes a token.
THEOREM SemaphoresHonest == Spec => []SemaphoreHonest
  <1>1. IInv => SemaphoreHonest
    <2> SUFFICES ASSUME IInv PROVE SemaphoreHonest
      OBVIOUS
    <2>1. SemInv /\ has.tokens \subseteq Threads
      BY DEF IInv, HasType
    <2>2. kernel.sem.suspend_thread # <<>> => kernel.sem.value = 0
      BY <2>1, Sorts DEF IInv, SemInv
    <2>3. \A t \in has.tokens \ has.told :
            pc[t] \in SemPcs /\ kernel.stat[t] = "ready" /\ kernel.error[t] = "ok"
      BY <2>1 DEF SemInv
    <2>4. \A t \in Threads : pc[t] = "sem_woken" /\ kernel.error[t] = "ok" /\ kernel.stat[t] = "ready"
            => t \in has.tokens
      BY <2>1 DEF SemInv, SemPcs
    <2>5. QED
      BY <2>1, <2>2, <2>3, <2>4 DEF SemaphoreHonest, SemInv, SemPcs
  <1>2. QED
    BY <1>1, Invariance, PTL

\* A thread rt_mutex_take told that it has the mutex is its owner, with as many holds
\* as it was told, until its last rt_mutex_release: so no two threads have it.
THEOREM MutexesHonest == Spec => []MutexHonest
  <1>1. IInv => MutexHonest
    <2> SUFFICES ASSUME IInv PROVE MutexHonest
      OBVIOUS
    <2>1. MutexInv
      BY DEF IInv
    <2>2. ASSUME NEW t \in Threads, has.depth[t] > 0
          PROVE  kernel.mutex.owner = t /\ kernel.mutex.hold = has.depth[t]
      BY <2>1, <2>2 DEF MutexInv
    <2>3. kernel.mutex.suspend_thread # <<>> => kernel.mutex.owner # Nobody
      BY <2>1, Sorts DEF IInv, MutexInv
    <2>4. QED
      BY <2>1, <2>2, <2>3 DEF MutexHonest, MutexInv
  <1>2. QED
    BY <1>1, Invariance, PTL

\* With a mutex that queues by priority, no thread waits behind an owner that runs at
\* a lower priority than its own, and nobody but the owner keeps a lent priority:
\* what rt_mutex_take's inheritance and rt_mutex_release's restoring are for.
THEOREM PrioritiesLent ==
  ASSUME Flag = "PRIO"
  PROVE  Spec => []PriorityLent
  <1>1. IInv => PriorityLent
    <2> SUFFICES ASSUME IInv PROVE PriorityLent
      OBVIOUS
    <2>1. PrioInv
      BY DEF IInv
    <2>2. QED
      BY <2>1 DEF PrioInv, PriorityLent, MutexQ
  <1>2. QED
    BY <1>1, Invariance, PTL

\* The thread that runs, when it is between calls and may be preempted, has the
\* highest priority of the ready ones: every step that makes a thread ready is
\* followed by rt_schedule, but for the release that lowers the running one's.
THEOREM HighestAlwaysRuns == Spec => []HighestRuns
  <1>1. IInv => HighestRuns
    <2> SUFFICES ASSUME IInv, pc[kernel.current] = "run", kernel.lock_nest = 0, ~kernel.lowered
                 PROVE  /\ kernel.stat[kernel.current] = "ready"
                        /\ \A p \in ReadyPriorities(kernel) : kernel.prio[kernel.current] <= p
      BY DEF HighestRuns
    <2>1. HighestReady(kernel)
      BY DEF IInv, RunInv, Schedules, Blocking
    <2>2. ASSUME NEW p \in ReadyPriorities(kernel) PROVE kernel.prio[kernel.current] <= p
      <3>1. p \in Priorities /\ kernel.ready[p] # <<>> /\ kernel.ready[p] \in Seq(Threads)
        BY DEF ReadyPriorities, IInv, Tidy, KernelType, Lists
      <3>2. PICK u \in Threads : u \in ToSet(kernel.ready[p])
        BY <3>1, SeqFacts
      <3>3. kernel.stat[u] = "ready" /\ kernel.prio[u] = p
        BY <3>1, <3>2 DEF IInv, Tidy, InOneList
      <3>4. QED
        BY <2>1, <3>3 DEF HighestReady
    <2>3. QED
      BY <2>1, <2>2 DEF HighestReady
  <1>2. QED
    BY <1>1, Invariance, PTL
==============================================================================
