-------------------------- MODULE ThreadLifeProofs --------------------------
(***************************************************************************)
(* Theorems about ThreadLife for every set of threads and priorities: what  *)
(* the scheduler finds is ready and exists, what is freed is used by nobody, *)
(* and the lists hold what the threads' states say.  The invariant does not *)
(* follow the lists: a thread that is linked to others is linked to those   *)
(* that its own state names, and threads are numbered along their lists, so *)
(* that none goes round without its head.  First the links, then what each  *)
(* operation leaves of the kernel, then the invariant, then each step, and  *)
(* last what following the links finds.                                     *)
(***************************************************************************)
EXTENDS ThreadLife, WellFoundedInduction, FiniteSetTheorems, TLAPS

\* A set of numbers that has a member has a least one.
LEMMA Lowest ==
  ASSUME NEW S \in SUBSET Nat, S # {}
  PROVE  \E x \in S : \A y \in S : x <= y
  <1>1. PICK x \in S : \A y \in S : <<y, x>> \notin OpToRel(<, Nat)
    BY NatLessThanWellFounded, WFMin
  <1>2. SUFFICES ASSUME NEW y \in S PROVE x <= y
    OBVIOUS
  <1>3. y < x => <<y, x>> \in OpToRel(<, Nat)
    BY Zenon DEF OpToRel
  <1>4. ~(y < x)
    BY <1>1, <1>3
  <1>5. QED
    BY <1>4
----------------------------------------------------------------------------
Stats == {"none", "init", "ready", "suspend", "close"}
KernelType ==
  [ next : [Nodes -> Nodes], prev : [Nodes -> Nodes], stat : [Threads -> Stats],
    timer : [Threads -> BOOLEAN], group : SUBSET Priorities, current : Threads ]

\* The list a thread in state s belongs to.
ListOf(t, s) == IF s = "ready" THEN ReadyList(t) ELSE IF s = "suspend" THEN Waiters ELSE Defunct

\* The list a node is in: of itself if it is linked to no other.
Home(nx, st, n) ==
  IF n \in Threads /\ nx[n] # n THEN ListOf(n, st[n]) ELSE n

\* Threads are numbered along their lists.
Numbered(nx, pv, r) ==
  \A t \in Threads : nx[t] # t /\ pv[t] \in Threads => r[pv[t]] < r[t]

\* The links are whole: they agree both ways, and a node's neighbours are in its list.
Whole(nx, pv, st) ==
  /\ nx \in [Nodes -> Nodes] /\ pv \in [Nodes -> Nodes] /\ st \in [Threads -> Stats]
  /\ \A n \in Nodes : nx[pv[n]] = n /\ pv[nx[n]] = n
  /\ \A t \in Threads : nx[t] # t => st[t] \in {"ready", "suspend", "close"}
  /\ \A n \in Nodes : Home(nx, st, nx[n]) = Home(nx, st, n)
  /\ \E r \in [Threads -> Nat] : Numbered(nx, pv, r)

\* Nothing but t changed its state.
OthersStat(st, su, t) ==
  su \in [Threads -> Stats] /\ \A u \in Threads : u # t => su[u] = st[u]

\* Taking t out, and putting it between a and b.
Removal(nx, pv, mx, qv, t) ==
  /\ mx = [n \in Nodes |-> IF n = t THEN t ELSE IF n = pv[t] THEN nx[t] ELSE nx[n]]
  /\ qv = [n \in Nodes |-> IF n = t THEN t ELSE IF n = nx[t] THEN pv[t] ELSE pv[n]]

Insertion(nx, pv, mx, qv, t, a, b) ==
  /\ mx = [n \in Nodes |-> IF n = t THEN b ELSE IF n = a THEN t ELSE nx[n]]
  /\ qv = [n \in Nodes |-> IF n = t THEN a ELSE IF n = b THEN t ELSE pv[n]]

\* t, linked to no other, comes between the neighbours a and b, one of which is the head
\* of the list its state names.
Placed(nx, st, t, a, b) ==
  /\ a \in Nodes /\ b \in Nodes /\ nx[a] = b
  /\ st[t] \in {"ready", "suspend", "close"} /\ ListOf(t, st[t]) \in {a, b}

\* t has come into list l, and no other node into or out of a list.
CameIn(nx, mx, t, l) ==
  /\ mx[t] # t
  /\ \A u \in Threads : u # t /\ nx[u] = u => mx[u] = u
  /\ \A u \in Threads : nx[u] # u => mx[u] # u
  /\ \A h \in Heads : h # l => (mx[h] # h <=> nx[h] # h)
  /\ mx[l] # l

LEMMA Constants ==
  /\ Idle \in Threads /\ Manager \in Threads /\ Idle # Manager
  /\ Kind \in [Threads -> {"dynamic", "static", "cleanup"}]
  /\ Priorities \subseteq Nat
  /\ \A t \in Threads : Priority[t] \in Priorities /\ ReadyList(t) \in Heads
  /\ \A t \in Threads : ReadyList(t) # Defunct /\ ReadyList(t) # Waiters
  /\ Defunct \in Heads /\ Waiters \in Heads /\ Defunct # Waiters
  /\ \A h \in Heads : h \in Nodes /\ h \notin Threads
  /\ \A t \in Threads : t \in Nodes /\ t \notin Heads
  /\ \A p \in Priorities : PriorityTable[p] \in Heads
  /\ \A p, q \in Priorities : PriorityTable[p] = PriorityTable[q] => p = q
  BY LifeAssumption DEF Priorities, Heads, Nodes, ReadyList, Defunct, Waiters

LEMMA ListOfHead ==
  ASSUME NEW t \in Threads, NEW s
  PROVE  ListOf(t, s) \in Heads
  BY Constants DEF ListOf

\* What is linked to others is linked to nodes of its own list, at both sides.
LEMMA Neighbours ==
  ASSUME NEW nx, NEW pv, NEW st, Whole(nx, pv, st), NEW n \in Nodes
  PROVE  /\ nx[n] \in Nodes /\ pv[n] \in Nodes
         /\ nx[pv[n]] = n /\ pv[nx[n]] = n
         /\ nx[n] = n <=> pv[n] = n
         /\ \A m \in Nodes : (nx[m] = n <=> m = pv[n]) /\ (pv[m] = n <=> m = nx[n])
         /\ Home(nx, st, nx[n]) = Home(nx, st, n) /\ Home(nx, st, pv[n]) = Home(nx, st, n)
  BY DEF Whole

LEMMA GoesOn ==
  ASSUME NEW nx \in [Nodes -> Nodes], NEW pv,
         \A n \in Nodes : nx[pv[n]] = n /\ pv[nx[n]] = n,
         NEW n \in Nodes, nx[n] # n
  PROVE  nx[n] \in Nodes /\ nx[nx[n]] # nx[n]
  OBVIOUS

\* Two threads are no list.
LEMMA NoRing ==
  ASSUME NEW nx, NEW pv, NEW st, Whole(nx, pv, st), NEW t \in Threads, NEW u \in Threads, u # t
  PROVE  ~(nx[u] = t /\ nx[t] = u)
  <1>1. SUFFICES ASSUME nx[u] = t, nx[t] = u PROVE FALSE
    OBVIOUS
  <1>2. pv[t] = u /\ pv[u] = t
    BY <1>1, Constants DEF Whole
  <1>3. PICK r \in [Threads -> Nat] : Numbered(nx, pv, r)
    BY DEF Whole
  <1>4. r[t] < r[u] /\ r[u] < r[t]
    BY <1>1, <1>2, <1>3 DEF Numbered
  <1>5. QED
    BY <1>3, <1>4

\* rt_list_remove
LEMMA RemoveWhole ==
  ASSUME NEW nx, NEW pv, NEW st, NEW su, NEW mx, NEW qv, NEW t \in Threads,
         Whole(nx, pv, st), OthersStat(st, su, t), Removal(nx, pv, mx, qv, t)
  PROVE  /\ Whole(mx, qv, su) /\ mx[t] = t
         /\ \A u \in Threads : nx[u] = u => mx[u] = u
         /\ \A u \in Threads : u # t /\ nx[u] # u => mx[u] # u
         /\ \A h \in Heads : mx[h] # h => nx[h] # h
         /\ \A h \in Heads : h # Home(nx, st, t) => mx[h] = nx[h]
  <1> USE DEF Removal
  <1>1. t \in Nodes /\ nx[t] \in Nodes /\ pv[t] \in Nodes /\ nx[pv[t]] = t /\ pv[nx[t]] = t
    BY Constants DEF Whole
  <1>2. mx \in [Nodes -> Nodes] /\ qv \in [Nodes -> Nodes] /\ su \in [Threads -> Stats] /\ mx[t] = t
    BY <1>1 DEF Whole, OthersStat
  <1>3. \A n \in Nodes : mx[qv[n]] = n /\ qv[mx[n]] = n
    <2>1. TAKE n \in Nodes
    <2>2. nx[n] \in Nodes /\ pv[n] \in Nodes /\ nx[pv[n]] = n /\ pv[nx[n]] = n
      BY DEF Whole
    <2>3. QED
      BY <1>1, <2>2
  <1>4. \A u \in Threads : u # t /\ mx[u] # u => nx[u] # u /\ su[u] = st[u]
    BY <1>1, Constants DEF OthersStat
  <1>5. \A u \in Threads : mx[u] # u => su[u] \in {"ready", "suspend", "close"}
    BY <1>2, <1>4 DEF Whole
  <1>6. \A n \in Nodes : n # t =>
          Home(mx, su, n) = IF n \in Threads /\ mx[n] = n THEN n ELSE Home(nx, st, n)
    BY <1>4 DEF Home
  <1>7. \A n \in Nodes : Home(mx, su, mx[n]) = Home(mx, su, n)
    <2>1. TAKE n \in Nodes
    <2>2. CASE mx[n] = n
      BY <2>2
    <2>3. CASE mx[n] # n
      <3>1. n # t /\ mx[n] # t /\ mx[n] \in Nodes /\ mx[mx[n]] # mx[n]
        <4>1. n # t
          BY <1>2, <2>3
        <4>2. mx[n] \in Nodes /\ mx[mx[n]] # mx[n]
          BY <1>2, <1>3, <2>3, GoesOn
        <4>3. QED
          BY <1>2, <4>1, <4>2
      <3>2. Home(nx, st, mx[n]) = Home(nx, st, n)
        <4>1. CASE n = pv[t]
          <5>1. mx[n] = nx[t] /\ Home(nx, st, nx[t]) = Home(nx, st, t)
            BY <1>1, <3>1, <4>1 DEF Whole
          <5>2. Home(nx, st, nx[n]) = Home(nx, st, n) /\ nx[n] = t
            BY <1>1, <4>1 DEF Whole
          <5>3. QED
            BY <5>1, <5>2
        <4>2. CASE n # pv[t]
          BY <3>1, <4>2 DEF Whole
        <4>3. QED
          BY <4>1, <4>2
      <3>3. QED
        BY <1>6, <2>3, <3>1, <3>2
    <2>4. QED
      BY <2>2, <2>3
  <1>8. \E r \in [Threads -> Nat] : Numbered(mx, qv, r)
    <2>1. PICK r \in [Threads -> Nat] : Numbered(nx, pv, r)
      BY DEF Whole
    <2>2. SUFFICES ASSUME NEW u \in Threads, mx[u] # u, qv[u] \in Threads
                   PROVE  r[qv[u]] < r[u]
      BY <2>1 DEF Numbered
    <2>3. u # t /\ nx[u] # u /\ u \in Nodes
      BY <1>2, <1>4, <2>2, Constants
    <2>4. CASE u # nx[t]
      BY <2>1, <2>2, <2>3, <2>4 DEF Numbered
    <2>5. CASE u = nx[t]
      <3>1. qv[u] = pv[t] /\ pv[u] = t /\ nx[t] # t
        BY <1>1, <2>3, <2>5
      <3>2. r[t] < r[u] /\ r[pv[t]] < r[t]
        BY <2>1, <2>2, <2>3, <3>1 DEF Numbered
      <3>3. QED
        BY <2>1, <2>2, <3>1, <3>2
    <2>6. QED
      BY <2>4, <2>5
  <1>9. Whole(mx, qv, su)
    BY <1>2, <1>3, <1>5, <1>7, <1>8 DEF Whole
  <1>10. \A u \in Threads : nx[u] = u => mx[u] = u
    BY <1>1, Constants
  <1>11. \A u \in Threads : u # t /\ nx[u] # u => mx[u] # u
    <2>1. SUFFICES ASSUME NEW u \in Threads, u # t, nx[u] # u, mx[u] = u PROVE FALSE
      OBVIOUS
    <2>2. u = pv[t] /\ nx[t] = u
      BY <2>1, Constants
    <2>3. QED
      BY <1>1, <2>1, <2>2, NoRing
  <1>12. \A h \in Heads : mx[h] # h => nx[h] # h
    BY <1>1, Constants DEF Whole
  <1>13. \A h \in Heads : h # Home(nx, st, t) => mx[h] = nx[h]
    <2>1. SUFFICES ASSUME NEW h \in Heads, mx[h] # nx[h] PROVE h = Home(nx, st, t)
      OBVIOUS
    <2>2. h \in Nodes /\ h # t /\ h = pv[t]
      BY <2>1, Constants
    <2>3. Home(nx, st, t) = Home(nx, st, h)
      BY <1>1, <2>2 DEF Whole
    <2>4. QED
      BY <2>1, <2>3, Constants DEF Home
  <1>14. QED
    BY <1>2, <1>9, <1>10, <1>11, <1>12, <1>13

\* rt_list_insert_before and rt_list_insert_after
LEMMA InsertWhole ==
  ASSUME NEW nx, NEW pv, NEW st, NEW su, NEW mx, NEW qv,
         NEW t \in Threads, NEW a, NEW b,
         Whole(nx, pv, st), OthersStat(st, su, t), nx[t] = t, Placed(nx, su, t, a, b),
         Insertion(nx, pv, mx, qv, t, a, b)
  PROVE  Whole(mx, qv, su) /\ CameIn(nx, mx, t, ListOf(t, su[t]))
  <1> USE DEF Insertion, Placed
  <1>1. t \in Nodes /\ pv[t] = t /\ pv[b] = a
    BY Constants DEF Whole
  <1>2. DEFINE l == ListOf(t, su[t])
  <1>3. l \in Heads /\ l # t /\ l \in Nodes /\ l \notin Threads
    BY Constants, ListOfHead
  <1>4. Home(nx, st, a) = l /\ Home(nx, st, b) = l
    <2>1. Home(nx, st, a) = Home(nx, st, b)
      BY DEF Whole
    <2>2. Home(nx, st, l) = l
      BY <1>3 DEF Home
    <2>3. QED
      BY <2>1, <2>2
  <1>5. Home(nx, st, t) = t
    BY DEF Home
  <1>6. a # t /\ b # t
    BY <1>3, <1>4, <1>5
  <1>7. mx \in [Nodes -> Nodes] /\ qv \in [Nodes -> Nodes] /\ su \in [Threads -> Stats]
    BY <1>1 DEF Whole, OthersStat
  <1>8. \A n \in Nodes : mx[qv[n]] = n /\ qv[mx[n]] = n
    <2>1. TAKE n \in Nodes
    <2>2. nx[n] \in Nodes /\ pv[n] \in Nodes /\ nx[pv[n]] = n /\ pv[nx[n]] = n
      BY DEF Whole
    <2>3. mx[qv[n]] = n
      BY <1>1, <1>6, <2>2
    <2>4. qv[mx[n]] = n
      BY <1>1, <1>6, <2>2
    <2>5. QED
      BY <2>3, <2>4
  <1>9. /\ mx[t] # t
        /\ \A u \in Threads : u # t /\ nx[u] = u => u # a /\ u # b /\ mx[u] = u
        /\ \A u \in Threads : nx[u] # u => mx[u] # u
    <2>1. \A u \in Threads : u # t /\ nx[u] = u => u # a /\ u # b
      BY <1>3, <1>4 DEF Home
    <2>2. QED
      BY <1>1, <1>6, <2>1, Constants
  <1>10. \A n \in Nodes : Home(mx, su, n) = IF n = t THEN l ELSE Home(nx, st, n)
    <2>1. Home(mx, su, t) = l
      BY <1>9 DEF Home
    <2>2. ASSUME NEW n \in Nodes, n # t PROVE Home(mx, su, n) = Home(nx, st, n)
      <3>1. CASE n \in Threads
        BY <1>9, <2>2, <3>1 DEF Home, OthersStat
      <3>2. CASE n \notin Threads
        BY <3>2 DEF Home
      <3>3. QED
        BY <3>1, <3>2
    <2>3. QED
      BY <2>1, <2>2
  <1>11. \A n \in Nodes : Home(mx, su, mx[n]) = Home(mx, su, n)
    <2>1. TAKE n \in Nodes
    <2>2. CASE n = t
      BY <1>4, <1>6, <1>10, <2>2
    <2>3. CASE n = a
      BY <1>1, <1>4, <1>6, <1>10, <2>3
    <2>4. CASE n # t /\ n # a
      <3>1. mx[n] = nx[n] /\ nx[n] \in Nodes /\ nx[n] # t
        BY <1>1, <2>4 DEF Whole
      <3>2. Home(nx, st, nx[n]) = Home(nx, st, n)
        BY DEF Whole
      <3>3. QED
        BY <1>10, <2>4, <3>1, <3>2
    <2>5. QED
      BY <2>2, <2>3, <2>4
  <1>12. \A u \in Threads : mx[u] # u => su[u] \in {"ready", "suspend", "close"}
    BY <1>9 DEF Whole, OthersStat
  <1>13. \E r \in [Threads -> Nat] : Numbered(mx, qv, r)
    <2>1. PICK r \in [Threads -> Nat] : Numbered(nx, pv, r)
      BY DEF Whole
    <2>2. CASE a \in Threads
      <3>1. b = l
        BY <1>3, <2>2
      <3>2. DEFINE s == [r EXCEPT ![t] = r[a] + 1]
      <3>3. s \in [Threads -> Nat]
        BY <2>1, <2>2
      <3>4. SUFFICES ASSUME NEW u \in Threads, mx[u] # u, qv[u] \in Threads
                     PROVE  s[qv[u]] < s[u]
        BY <3>3 DEF Numbered
      <3>5. CASE u = t
        BY <1>1, <1>6, <2>1, <2>2, <3>5
      <3>6. CASE u # t
        <4>1. nx[u] # u /\ u # b /\ u \in Nodes
          BY <1>3, <1>9, <3>1, <3>4, <3>6, Constants
        <4>2. qv[u] = pv[u] /\ pv[u] # t
          BY <1>1, <3>6, <4>1 DEF Whole
        <4>3. r[pv[u]] < r[u]
          BY <2>1, <3>4, <4>1, <4>2 DEF Numbered
        <4>4. QED
          BY <2>1, <3>4, <3>6, <4>2, <4>3
      <3>7. QED
        BY <3>5, <3>6
    <2>3. CASE a \notin Threads
      <3>1. DEFINE s == [u \in Threads |-> IF u = t THEN 0 ELSE r[u] + 1]
      <3>2. s \in [Threads -> Nat]
        BY <2>1
      <3>3. SUFFICES ASSUME NEW u \in Threads, mx[u] # u, qv[u] \in Threads
                     PROVE  s[qv[u]] < s[u]
        BY <3>2 DEF Numbered
      <3>4. u # t /\ u \in Nodes
        BY <1>6, <2>3, <3>3, Constants
      <3>5. CASE u = b
        BY <1>6, <2>1, <3>4, <3>5
      <3>6. CASE u # b
        <4>1. qv[u] = pv[u] /\ pv[u] # t
          BY <1>1, <3>4, <3>6 DEF Whole
        <4>2. nx[u] # u
          BY <1>9, <3>3, <3>4
        <4>3. r[pv[u]] < r[u]
          BY <2>1, <3>3, <4>1, <4>2 DEF Numbered
        <4>4. QED
          BY <2>1, <3>3, <3>4, <4>1, <4>3
      <3>7. QED
        BY <3>5, <3>6
    <2>4. QED
      BY <2>2, <2>3
  <1>14. Whole(mx, qv, su)
    BY <1>7, <1>8, <1>11, <1>12, <1>13 DEF Whole
  <1>15. \A h \in Heads : h # l => (mx[h] # h <=> nx[h] # h)
    <2>1. SUFFICES ASSUME NEW h \in Heads, h # l PROVE h # a /\ h # t /\ h \in Nodes
      OBVIOUS
    <2>2. Home(nx, st, h) = h
      BY Constants DEF Home
    <2>3. QED
      BY <1>4, <2>1, <2>2, Constants
  <1>16. mx[l] # l
    <2>1. CASE l = a
      BY <1>1, <1>3, <1>6, <2>1
    <2>2. CASE l = b
      <3>1. CASE a = b
        BY <2>1, <2>2, <3>1
      <3>2. CASE a # b
        BY <1>3, <1>8, <1>9, <2>2, <3>2 DEF Whole
      <3>3. QED
        BY <3>1, <3>2
    <2>3. QED
      BY <2>1, <2>2
  <1>17. QED
    BY <1>9, <1>14, <1>15, <1>16 DEF CameIn
----------------------------------------------------------------------------
\* A kernel whose links are whole, and one whose group is right as well.
Linked(k) == k \in KernelType /\ Whole(k.next, k.prev, k.stat)
Grouped(k) == \A p \in Priorities : p \in k.group <=> k.next[PriorityTable[p]] # PriorityTable[p]
Sound(k) == Linked(k) /\ Grouped(k)

Runnable(k, t) == k.stat[t] = "ready" /\ k.next[t] # t

\* What an operation on t leaves alone.
Kept(k, e, t) ==
  \A u \in Threads : u # t =>
    /\ e.stat[u] = k.stat[u] /\ e.timer[u] = k.timer[u]
    /\ k.next[u] = u <=> e.next[u] = u

Others(k, e, t) == e.current = k.current /\ Kept(k, e, t)

\* The list of a thread that can run is not empty.
LEMMA Filled ==
  ASSUME NEW k, Linked(k), NEW t \in Threads, Runnable(k, t)
  PROVE  k.next[ReadyList(t)] # ReadyList(t)
  <1> DEFINE h == ReadyList(t)
             S == { u \in Threads : Runnable(k, u) /\ ReadyList(u) = h }
  <1>1. SUFFICES ASSUME k.next[h] = h PROVE FALSE
    OBVIOUS
  <1>2. h \in Heads /\ h \in Nodes /\ h \notin Threads /\ Whole(k.next, k.prev, k.stat)
    BY Constants DEF Linked
  <1>3. PICK r \in [Threads -> Nat] : Numbered(k.next, k.prev, r)
    BY <1>2 DEF Whole
  <1>4. PICK u \in S : \A w \in S : r[u] <= r[w]
    <2>1. DEFINE N == { r[w] : w \in S }
    <2>2. N \in SUBSET Nat /\ N # {}
      BY <1>3
    <2>3. PICK x \in N : \A y \in N : x <= y
      BY <2>2, Lowest
    <2>4. QED
      BY <2>3
  <1>5. u \in Threads /\ u \in Nodes /\ Runnable(k, u) /\ ReadyList(u) = h
    BY <1>4, Constants
  <1>6. /\ k.prev[u] \in Nodes /\ k.next[k.prev[u]] = u
        /\ Home(k.next, k.stat, k.prev[u]) = Home(k.next, k.stat, u)
    BY <1>2, <1>5, Neighbours
  <1>7. Home(k.next, k.stat, k.prev[u]) = h
    BY <1>5, <1>6 DEF Home, ListOf, Runnable
  <1>8. k.prev[u] # h /\ k.prev[u] # u
    BY <1>1, <1>2, <1>5, <1>6 DEF Runnable
  <1>9. k.prev[u] \in Threads /\ k.next[k.prev[u]] # k.prev[u]
    BY <1>6, <1>7, <1>8 DEF Home
  <1>10. ListOf(k.prev[u], k.stat[k.prev[u]]) = h
    BY <1>7, <1>9 DEF Home
  <1>11. k.stat[k.prev[u]] = "ready" /\ ReadyList(k.prev[u]) = h
    BY <1>5, <1>9, <1>10, Constants DEF ListOf
  <1>12. k.prev[u] \in S
    BY <1>9, <1>11 DEF Runnable
  <1>13. r[k.prev[u]] < r[u]
    BY <1>3, <1>5, <1>9 DEF Numbered, Runnable
  <1>14. QED
    BY <1>3, <1>4, <1>5, <1>9, <1>12, <1>13

\* What a list's head points at is a thread in the state of the list.
LEMMA FirstOf ==
  ASSUME NEW k, Linked(k), NEW h \in Heads, k.next[h] # h
  PROVE  /\ k.next[h] \in Threads /\ k.next[k.next[h]] # k.next[h]
         /\ ListOf(k.next[h], k.stat[k.next[h]]) = h
         /\ k.stat[k.next[h]] \in {"ready", "suspend", "close"}
  <1>1. h \in Nodes /\ h \notin Threads /\ Whole(k.next, k.prev, k.stat)
    BY Constants DEF Linked
  <1>2. k.next[h] \in Nodes /\ k.next[k.next[h]] # k.next[h]
    BY <1>1, GoesOn DEF Whole
  <1>3. Home(k.next, k.stat, k.next[h]) = h
    BY <1>1 DEF Whole, Home
  <1>4. k.next[h] \in Threads /\ ListOf(k.next[h], k.stat[k.next[h]]) = h
    BY <1>2, <1>3 DEF Home
  <1>5. QED
    BY <1>1, <1>2, <1>4 DEF Whole

\* The scheduler's choice, if there is a thread that can run.
LEMMA NextReady ==
  ASSUME NEW k, Sound(k), \E t \in Threads : Runnable(k, t)
  PROVE  /\ NextToRun(k) \in Threads /\ Runnable(k, NextToRun(k))
         /\ \A t \in Threads : Runnable(k, t) => Priority[NextToRun(k)] <= Priority[t]
  <1>1. \A t \in Threads : Runnable(k, t) => Priority[t] \in k.group
    BY Filled, Constants DEF Sound, Grouped, ReadyList
  <1>2. k.group \in SUBSET Nat /\ k.group # {} /\ k.group \subseteq Priorities
    BY <1>1, Constants DEF Sound, Linked, KernelType
  <1>3. PICK x \in k.group : \A q \in k.group : x <= q
    BY <1>2, Lowest
  <1>4. DEFINE p == CHOOSE p \in k.group : \A q \in k.group : p <= q
  <1>5. p \in k.group /\ \A q \in k.group : p <= q
    BY <1>3
  <1>6. DEFINE h == PriorityTable[p]
  <1>7. p \in Priorities /\ h \in Heads /\ k.next[h] # h
    BY <1>2, <1>5, Constants DEF Sound, Grouped
  <1>8. NextToRun(k) = k.next[h]
    BY DEF NextToRun
  <1>9. /\ k.next[h] \in Threads /\ k.next[k.next[h]] # k.next[h]
        /\ ListOf(k.next[h], k.stat[k.next[h]]) = h
    BY <1>7, FirstOf DEF Sound
  <1>10. h # Waiters /\ h # Defunct
    BY <1>7, LifeAssumption
  <1>11. k.stat[k.next[h]] = "ready" /\ ReadyList(k.next[h]) = h
    BY <1>9, <1>10 DEF ListOf
  <1>12. Priority[k.next[h]] = p
    BY <1>7, <1>9, <1>11, Constants DEF ReadyList
  <1>13. QED
    BY <1>1, <1>5, <1>8, <1>9, <1>11, <1>12 DEF Runnable
----------------------------------------------------------------------------
\* What each operation does to the links, and what it leaves alone.
LEMMA RemovedLinks ==
  ASSUME NEW k \in KernelType, NEW t \in Threads, NEW e, e = Removed(k, t)
  PROVE  /\ e \in KernelType
         /\ e.stat = k.stat /\ e.timer = k.timer /\ e.group = k.group /\ e.current = k.current
         /\ Removal(k.next, k.prev, e.next, e.prev, t)
  BY Constants DEF Removed, KernelType, Removal

LEMMA InsertedLinks ==
  ASSUME NEW k \in KernelType, NEW t \in Threads, NEW h \in Heads, NEW e,
         e = InsertBefore(k, h, t), k.prev[h] # t
  PROVE  /\ e \in KernelType
         /\ e.stat = k.stat /\ e.timer = k.timer /\ e.group = k.group /\ e.current = k.current
         /\ Insertion(k.next, k.prev, e.next, e.prev, t, k.prev[h], h)
  <1>1. h \in Nodes /\ t \in Nodes /\ h # t /\ k.prev[h] \in Nodes
    BY Constants DEF KernelType
  <1>2. e = [k EXCEPT !.next = [[k.next EXCEPT ![k.prev[h]] = t] EXCEPT ![t] = h],
                      !.prev = [[k.prev EXCEPT ![t] = k.prev[h]] EXCEPT ![h] = t]]
    BY <1>1 DEF InsertBefore, KernelType
  <1>3. /\ e.next = [[k.next EXCEPT ![k.prev[h]] = t] EXCEPT ![t] = h]
        /\ e.prev = [[k.prev EXCEPT ![t] = k.prev[h]] EXCEPT ![h] = t]
        /\ e.stat = k.stat /\ e.timer = k.timer /\ e.group = k.group /\ e.current = k.current
    BY <1>2 DEF KernelType
  <1>4. k.next \in [Nodes -> Nodes] /\ k.prev \in [Nodes -> Nodes]
    BY DEF KernelType
  <1>5. e.next \in [Nodes -> Nodes] /\ e.prev \in [Nodes -> Nodes]
    BY <1>1, <1>3, <1>4
  <1>6. Insertion(k.next, k.prev, e.next, e.prev, t, k.prev[h], h)
    BY <1>1, <1>3, <1>4 DEF Insertion
  <1>7. e \in KernelType
    BY <1>2, <1>3, <1>5 DEF KernelType
  <1>8. QED
    BY <1>3, <1>6, <1>7

LEMMA InsertedFirstLinks ==
  ASSUME NEW k \in KernelType, NEW t \in Threads, NEW h \in Heads, NEW e,
         e = InsertAfter(k, h, t), k.next[h] # t
  PROVE  /\ e \in KernelType
         /\ e.stat = k.stat /\ e.timer = k.timer /\ e.group = k.group /\ e.current = k.current
         /\ Insertion(k.next, k.prev, e.next, e.prev, t, h, k.next[h])
  <1>1. h \in Nodes /\ t \in Nodes /\ h # t /\ k.next[h] \in Nodes
    BY Constants DEF KernelType
  <1>2. e = [k EXCEPT !.next = [[k.next EXCEPT ![t] = k.next[h]] EXCEPT ![h] = t],
                      !.prev = [[k.prev EXCEPT ![k.next[h]] = t] EXCEPT ![t] = h]]
    BY <1>1 DEF InsertAfter, KernelType
  <1>3. /\ e.next = [[k.next EXCEPT ![t] = k.next[h]] EXCEPT ![h] = t]
        /\ e.prev = [[k.prev EXCEPT ![k.next[h]] = t] EXCEPT ![t] = h]
        /\ e.stat = k.stat /\ e.timer = k.timer /\ e.group = k.group /\ e.current = k.current
    BY <1>2 DEF KernelType
  <1>4. k.next \in [Nodes -> Nodes] /\ k.prev \in [Nodes -> Nodes]
    BY DEF KernelType
  <1>5. e.next \in [Nodes -> Nodes] /\ e.prev \in [Nodes -> Nodes]
    BY <1>1, <1>3, <1>4
  <1>6. Insertion(k.next, k.prev, e.next, e.prev, t, h, k.next[h])
    BY <1>1, <1>3, <1>4 DEF Insertion
  <1>7. e \in KernelType
    BY <1>2, <1>3, <1>5 DEF KernelType
  <1>8. QED
    BY <1>3, <1>6, <1>7

\* A thread that is in no list is no list's last or first.
LEMMA Unlinked ==
  ASSUME NEW nx, NEW pv, NEW st, Whole(nx, pv, st), NEW t \in Threads, nx[t] = t, NEW h \in Heads
  PROVE  /\ pv[h] # t /\ nx[h] # t
         /\ pv[h] \in Nodes /\ nx[h] \in Nodes /\ nx[pv[h]] = h
  BY Constants DEF Whole

\* rt_schedule_remove_thread, the state changed before it or not.
LEMMA ScheduleRemoveSound ==
  ASSUME NEW k, NEW kk, Sound(k), NEW t \in Threads, kk \in KernelType,
         kk.next = k.next, kk.prev = k.prev, kk.group = k.group, kk.timer = k.timer,
         kk.current = k.current, OthersStat(k.stat, kk.stat, t)
  PROVE  LET e == ScheduleRemove(kk, t)
         IN Sound(e) /\ Others(k, e, t) /\ e.next[t] = t /\ e.stat = kk.stat /\ e.timer = k.timer
  <1>1. PICK r : r = Removed(kk, t)
    OBVIOUS
  <1>2. /\ r \in KernelType
        /\ r.stat = kk.stat /\ r.timer = k.timer /\ r.group = k.group /\ r.current = k.current
        /\ Removal(k.next, k.prev, r.next, r.prev, t) /\ OthersStat(k.stat, r.stat, t)
    BY <1>1, RemovedLinks
  <1>3. Whole(k.next, k.prev, k.stat)
    BY DEF Sound, Linked
  <1>4. /\ Whole(r.next, r.prev, r.stat) /\ r.next[t] = t
        /\ \A u \in Threads : k.next[u] = u => r.next[u] = u
        /\ \A u \in Threads : u # t /\ k.next[u] # u => r.next[u] # u
        /\ \A h \in Heads : r.next[h] # h => k.next[h] # h
        /\ \A h \in Heads : h # Home(k.next, k.stat, t) => r.next[h] = k.next[h]
    BY <1>2, <1>3, RemoveWhole
  <1>5. PICK e : e = ScheduleRemove(kk, t)
    OBVIOUS
  <1>6. /\ e \in KernelType
        /\ e.next = r.next /\ e.prev = r.prev /\ e.stat = kk.stat /\ e.timer = k.timer
        /\ e.current = k.current
        /\ e.group = IF r.next[ReadyList(t)] = ReadyList(t) THEN k.group \ {Priority[t]} ELSE k.group
    BY <1>1, <1>2, <1>5 DEF ScheduleRemove, Empty, KernelType
  <1>7. Grouped(e)
    <2>1. SUFFICES ASSUME NEW p \in Priorities
                   PROVE  p \in e.group <=> r.next[PriorityTable[p]] # PriorityTable[p]
      BY <1>6 DEF Grouped
    <2>2. p \in k.group <=> k.next[PriorityTable[p]] # PriorityTable[p]
      BY DEF Sound, Grouped
    <2>3. CASE p = Priority[t]
      BY <1>4, <1>6, <2>2, <2>3, Constants DEF ReadyList
    <2>4. CASE p # Priority[t]
      <3>1. PriorityTable[p] # ReadyList(t)
        BY <2>4, Constants DEF ReadyList
      <3>2. PriorityTable[p] \in Heads /\ PriorityTable[p] # Home(k.next, k.stat, t)
        BY <3>1, LifeAssumption, Constants DEF Home, ListOf
      <3>3. QED
        BY <1>4, <1>6, <2>2, <2>4, <3>2
    <2>5. QED
      BY <2>3, <2>4
  <1>8. Others(k, e, t)
    BY <1>4, <1>6 DEF Others, Kept, Runnable, OthersStat
  <1>9. QED
    BY <1>2, <1>4, <1>5, <1>6, <1>7, <1>8 DEF Sound, Linked

LEMMA Untouched ==
  ASSUME NEW k, NEW t
  PROVE  Others(k, k, t)
  BY DEF Others, Kept

LEMMA OthersThrough ==
  ASSUME NEW k, NEW e, NEW f, NEW t, Others(k, e, t), Others(e, f, t)
  PROVE  Others(k, f, t)
  BY DEF Others, Kept

\* A thread that is in no list may change its state.
LEMMA StateSound ==
  ASSUME NEW k, NEW e, Sound(k), NEW t \in Threads, k.next[t] = t, e \in KernelType,
         e.next = k.next, e.prev = k.prev, e.group = k.group, e.current = k.current,
         OthersStat(k.stat, e.stat, t), \A u \in Threads : u # t => e.timer[u] = k.timer[u]
  PROVE  Sound(e) /\ Others(k, e, t)
  <1>1. Whole(k.next, k.prev, k.stat)
    BY DEF Sound, Linked
  <1>2. \A n \in Nodes : Home(k.next, e.stat, n) = Home(k.next, k.stat, n)
    BY DEF Home, OthersStat
  <1>3. \A n \in Nodes : k.next[n] \in Nodes
    BY <1>1 DEF Whole
  <1>4. \A n \in Nodes : Home(k.next, e.stat, k.next[n]) = Home(k.next, e.stat, n)
    BY <1>1, <1>2, <1>3 DEF Whole
  <1>5. \A u \in Threads : k.next[u] # u => e.stat[u] \in {"ready", "suspend", "close"}
    BY <1>1 DEF Whole, OthersStat
  <1>6. \E r \in [Threads -> Nat] : Numbered(k.next, k.prev, r)
    BY <1>1 DEF Whole
  <1>7. Whole(k.next, k.prev, e.stat)
    BY <1>1, <1>4, <1>5, <1>6 DEF Whole, OthersStat
  <1>8. Others(k, e, t)
    BY DEF Others, Kept, Runnable, OthersStat
  <1>9. QED
    BY <1>7, <1>8 DEF Sound, Linked, Grouped

\* A timer is started or stopped.
LEMMA TimerSound ==
  ASSUME NEW k, Sound(k), NEW t \in Threads, NEW b \in BOOLEAN
  PROVE  LET e == [k EXCEPT !.timer[t] = b]
         IN /\ Sound(e) /\ Others(k, e, t)
            /\ e.timer[t] = b /\ e.stat = k.stat /\ e.next = k.next
  <1>1. PICK e : e = [k EXCEPT !.timer[t] = b]
    OBVIOUS
  <1>2. k \in KernelType
    BY DEF Sound, Linked
  <1>3. /\ e \in KernelType /\ e.next = k.next /\ e.prev = k.prev /\ e.stat = k.stat
        /\ e.group = k.group /\ e.current = k.current /\ e.timer = [k.timer EXCEPT ![t] = b]
    BY <1>1, <1>2 DEF KernelType
  <1>4. e.timer[t] = b /\ \A u \in Threads : u # t => e.timer[u] = k.timer[u]
    BY <1>2, <1>3 DEF KernelType
  <1>5. Sound(e)
    BY <1>3 DEF Sound, Linked, Grouped
  <1>6. Others(k, e, t)
    BY <1>3, <1>4 DEF Others, Kept, Runnable
  <1>7. QED
    BY <1>1, <1>3, <1>4, <1>5, <1>6

\* The group has the priority of a thread that became ready.
Joined(k, e, t) ==
  e.group = IF e.stat[t] = "ready" THEN k.group \union {Priority[t]} ELSE k.group

\* A thread comes into the list of its state.
LEMMA InsertSound ==
  ASSUME NEW k, NEW e, Sound(k), NEW t \in Threads, k.next[t] = t, e \in KernelType,
         NEW a, NEW b, Insertion(k.next, k.prev, e.next, e.prev, t, a, b),
         Placed(k.next, e.stat, t, a, b), OthersStat(k.stat, e.stat, t),
         e.timer = k.timer, e.current = k.current, Joined(k, e, t)
  PROVE  Sound(e) /\ Others(k, e, t) /\ e.next[t] # t
  <1>1. Whole(k.next, k.prev, k.stat)
    BY DEF Sound, Linked
  <1>2. Whole(e.next, e.prev, e.stat) /\ CameIn(k.next, e.next, t, ListOf(t, e.stat[t]))
    BY <1>1, InsertWhole
  <1>3. Others(k, e, t)
    BY <1>2 DEF Others, Kept, Runnable, OthersStat, CameIn
  <1>4. Grouped(e)
    <2>1. SUFFICES ASSUME NEW p \in Priorities
                   PROVE  p \in e.group <=> e.next[PriorityTable[p]] # PriorityTable[p]
      BY DEF Grouped
    <2>2. p \in k.group <=> k.next[PriorityTable[p]] # PriorityTable[p]
      BY DEF Sound, Grouped
    <2>3. CASE e.stat[t] = "ready" /\ p = Priority[t]
      BY <1>2, <2>3 DEF ListOf, ReadyList, Joined, CameIn
    <2>4. CASE ~(e.stat[t] = "ready" /\ p = Priority[t])
      <3>1. PriorityTable[p] \in Heads /\ PriorityTable[p] # ListOf(t, e.stat[t])
        BY <2>4, LifeAssumption, Constants DEF ListOf, ReadyList
      <3>2. p \in e.group <=> p \in k.group
        BY <2>4 DEF Joined
      <3>3. QED
        BY <1>2, <2>2, <3>1, <3>2 DEF CameIn
    <2>5. QED
      BY <2>3, <2>4
  <1>5. QED
    BY <1>2, <1>3, <1>4 DEF Sound, Linked, CameIn

\* rt_schedule_insert_thread
LEMMA ScheduleInsertSound ==
  ASSUME NEW k, Sound(k), NEW t \in Threads, k.next[t] = t
  PROVE  LET e == ScheduleInsert(k, t)
         IN /\ Sound(e) /\ Others(k, e, t) /\ Runnable(e, t) /\ e.timer = k.timer
  <1>1. PICK h : h = ReadyList(t)
    OBVIOUS
  <1>2. k \in KernelType /\ Whole(k.next, k.prev, k.stat) /\ h \in Heads /\ h \in Nodes
    BY <1>1, Constants DEF Sound, Linked
  <1>3. k.prev[h] # t /\ k.prev[h] \in Nodes /\ k.next[k.prev[h]] = h
    BY <1>2, Unlinked
  <1>4. PICK i : i = InsertBefore(k, h, t)
    OBVIOUS
  <1>5. /\ i \in KernelType
        /\ i.stat = k.stat /\ i.timer = k.timer /\ i.group = k.group /\ i.current = k.current
        /\ Insertion(k.next, k.prev, i.next, i.prev, t, k.prev[h], h)
    BY <1>2, <1>3, <1>4, InsertedLinks
  <1>6. PICK e : e = ScheduleInsert(k, t)
    OBVIOUS
  <1>7. e = [i EXCEPT !.stat[t] = "ready", !.group = @ \union {Priority[t]}]
    BY <1>1, <1>4, <1>6 DEF ScheduleInsert
  <1>8. /\ e \in KernelType /\ e.next = i.next /\ e.prev = i.prev /\ e.timer = k.timer
        /\ e.current = k.current /\ e.group = k.group \union {Priority[t]}
        /\ e.stat = [k.stat EXCEPT ![t] = "ready"]
    <2>1. /\ i.group \in SUBSET Priorities /\ i.stat \in [Threads -> Stats] /\ Priority[t] \in Priorities
      BY <1>5, Constants DEF KernelType
    <2>2. /\ e.next = i.next /\ e.prev = i.prev /\ e.timer = i.timer /\ e.current = i.current
          /\ e.group = i.group \union {Priority[t]} /\ e.stat = [i.stat EXCEPT ![t] = "ready"]
      BY <1>5, <1>7 DEF KernelType
    <2>3. e.group \in SUBSET Priorities /\ e.stat \in [Threads -> Stats]
      BY <2>1, <2>2 DEF Stats
    <2>4. e \in KernelType
      BY <1>5, <1>7, <2>2, <2>3 DEF KernelType
    <2>5. QED
      BY <1>5, <2>2, <2>4
  <1>9. OthersStat(k.stat, e.stat, t) /\ e.stat[t] = "ready" /\ ListOf(t, e.stat[t]) = h
    BY <1>1, <1>2, <1>8 DEF OthersStat, KernelType, ListOf
  <1>10. Placed(k.next, e.stat, t, k.prev[h], h)
    BY <1>1, <1>2, <1>3, <1>9 DEF Placed
  <1>11. Insertion(k.next, k.prev, e.next, e.prev, t, k.prev[h], h)
    BY <1>5, <1>8
  <1>12. Sound(e) /\ Others(k, e, t) /\ e.next[t] # t
    <2>1. Joined(k, e, t)
      BY <1>8, <1>9 DEF Joined
    <2>2. QED
      BY <1>8, <1>9, <1>10, <1>11, <2>1, InsertSound
  <1>13. QED
    BY <1>6, <1>8, <1>9, <1>12 DEF Runnable

\* The first section of rt_thread_suspend and of the waits.
LEMMA SuspendSound ==
  ASSUME NEW k, Sound(k), NEW t \in Threads
  PROVE  LET e == SuspendSection(k, t)
         IN /\ Sound(e) /\ Others(k, e, t) /\ e.next[t] = t
            /\ e.stat[t] = "suspend" /\ e.timer[t] = FALSE
  <1>1. PICK kk : kk = [k EXCEPT !.stat[t] = "suspend"]
    OBVIOUS
  <1>2. k \in KernelType
    BY DEF Sound, Linked
  <1>3. /\ kk.next = k.next /\ kk.prev = k.prev /\ kk.group = k.group /\ kk.timer = k.timer
        /\ kk.current = k.current /\ kk.stat = [k.stat EXCEPT ![t] = "suspend"]
    BY <1>1, <1>2 DEF KernelType
  <1>4. OthersStat(k.stat, kk.stat, t) /\ kk.stat[t] = "suspend" /\ kk.stat \in [Threads -> Stats]
    BY <1>2, <1>3 DEF OthersStat, KernelType, Stats
  <1>5. kk \in KernelType
    BY <1>1, <1>2, <1>4 DEF KernelType
  <1>6. PICK r : r = ScheduleRemove(kk, t)
    OBVIOUS
  <1>7. Sound(r) /\ Others(k, r, t) /\ r.next[t] = t /\ r.stat = kk.stat /\ r.timer = k.timer
    BY <1>3, <1>4, <1>5, <1>6, ScheduleRemoveSound
  <1>8. PICK e : e = [r EXCEPT !.timer[t] = FALSE]
    OBVIOUS
  <1>9. /\ Sound(e) /\ Others(r, e, t) /\ e.timer[t] = FALSE /\ e.stat = r.stat /\ e.next = r.next
    BY <1>7, <1>8, TimerSound
  <1>10. e = SuspendSection(k, t)
    BY <1>1, <1>6, <1>8 DEF SuspendSection
  <1>11. Others(k, e, t)
    BY <1>7, <1>9, OthersThrough
  <1>12. QED
    BY <1>4, <1>7, <1>9, <1>10, <1>11

\* A thread that cannot run leaves its list.
LEMMA RemovedSound ==
  ASSUME NEW k, Sound(k), NEW t \in Threads, ~Runnable(k, t)
  PROVE  LET e == Removed(k, t)
         IN /\ Sound(e) /\ Others(k, e, t) /\ e.next[t] = t
            /\ e.stat = k.stat /\ e.timer = k.timer
  <1>1. PICK e : e = Removed(k, t)
    OBVIOUS
  <1>2. k \in KernelType /\ Whole(k.next, k.prev, k.stat)
    BY DEF Sound, Linked
  <1>3. /\ e \in KernelType
        /\ e.stat = k.stat /\ e.timer = k.timer /\ e.group = k.group /\ e.current = k.current
        /\ Removal(k.next, k.prev, e.next, e.prev, t)
    BY <1>1, <1>2, RemovedLinks
  <1>4. OthersStat(k.stat, e.stat, t)
    BY <1>2, <1>3 DEF OthersStat, KernelType
  <1>5. /\ Whole(e.next, e.prev, e.stat) /\ e.next[t] = t
        /\ \A u \in Threads : k.next[u] = u => e.next[u] = u
        /\ \A u \in Threads : u # t /\ k.next[u] # u => e.next[u] # u
        /\ \A h \in Heads : e.next[h] # h => k.next[h] # h
        /\ \A h \in Heads : h # Home(k.next, k.stat, t) => e.next[h] = k.next[h]
    BY <1>2, <1>3, <1>4, RemoveWhole
  <1>6. Others(k, e, t)
    BY <1>3, <1>5 DEF Others, Kept, Runnable
  <1>7. Grouped(e)
    <2>1. SUFFICES ASSUME NEW p \in Priorities PROVE e.next[PriorityTable[p]] = k.next[PriorityTable[p]]
      BY <1>3 DEF Sound, Grouped
    <2>2. PriorityTable[p] \in Heads /\ PriorityTable[p] # Home(k.next, k.stat, t)
      BY LifeAssumption, Constants DEF Home, ListOf, Runnable
    <2>3. QED
      BY <1>5, <2>2
  <1>8. QED
    BY <1>1, <1>3, <1>5, <1>6, <1>7 DEF Sound, Linked

\* rt_thread_resume's first section.
LEMMA ResumeSound ==
  ASSUME NEW k, Sound(k), NEW t \in Threads, k.stat[t] = "suspend"
  PROVE  LET e == ResumeSection(k, t)
         IN /\ Sound(e) /\ Others(k, e, t) /\ e.next[t] = t
            /\ e.stat[t] = "suspend" /\ e.timer[t] = FALSE
  <1>1. PICK r : r = Removed(k, t)
    OBVIOUS
  <1>2. Sound(r) /\ Others(k, r, t) /\ r.next[t] = t /\ r.stat = k.stat
    BY <1>1, RemovedSound DEF Runnable
  <1>3. PICK e : e = [r EXCEPT !.timer[t] = FALSE]
    OBVIOUS
  <1>4. /\ Sound(e) /\ Others(r, e, t) /\ e.timer[t] = FALSE /\ e.stat = r.stat /\ e.next = r.next
    BY <1>2, <1>3, TimerSound
  <1>5. e = ResumeSection(k, t)
    BY <1>1, <1>3 DEF ResumeSection
  <1>6. QED
    BY <1>2, <1>4, <1>5, OthersThrough

\* A thread comes into the list of its object.
LEMMA WaitSound ==
  ASSUME NEW k, Sound(k), NEW t \in Threads, k.next[t] = t, k.stat[t] = "suspend"
  PROVE  LET e == InsertBefore(k, Waiters, t)
         IN Sound(e) /\ Others(k, e, t) /\ e.stat = k.stat /\ e.timer = k.timer
  <1>1. PICK e : e = InsertBefore(k, Waiters, t)
    OBVIOUS
  <1>2. k \in KernelType /\ Whole(k.next, k.prev, k.stat) /\ Waiters \in Heads /\ Waiters \in Nodes
    BY Constants DEF Sound, Linked
  <1>3. k.prev[Waiters] # t /\ k.prev[Waiters] \in Nodes /\ k.next[k.prev[Waiters]] = Waiters
    BY <1>2, Unlinked
  <1>4. /\ e \in KernelType
        /\ e.stat = k.stat /\ e.timer = k.timer /\ e.group = k.group /\ e.current = k.current
        /\ Insertion(k.next, k.prev, e.next, e.prev, t, k.prev[Waiters], Waiters)
    BY <1>1, <1>2, <1>3, InsertedLinks
  <1>5. OthersStat(k.stat, e.stat, t)
    BY <1>2, <1>4 DEF OthersStat, KernelType
  <1>6. Placed(k.next, e.stat, t, k.prev[Waiters], Waiters) /\ Joined(k, e, t)
    BY <1>2, <1>3, <1>4 DEF Placed, ListOf, Joined
  <1>7. QED
    BY <1>1, <1>4, <1>5, <1>6, InsertSound

\* A thread that is in no list closes.
LEMMA ClosedSound ==
  ASSUME NEW k, Sound(k), NEW t \in Threads, k.next[t] = t
  PROVE  LET e == Closed(k, t)
         IN /\ Sound(e) /\ Others(k, e, t) /\ e.stat[t] = "close" /\ e.timer = k.timer
            /\ Kind[t] = "static" <=> e.next[t] = t
  <1>1. PICK c : c = [k EXCEPT !.stat[t] = "close"]
    OBVIOUS
  <1>2. k \in KernelType /\ Defunct \in Heads /\ Defunct \in Nodes
    BY Constants DEF Sound, Linked
  <1>3. /\ c.next = k.next /\ c.prev = k.prev /\ c.group = k.group /\ c.timer = k.timer
        /\ c.current = k.current /\ c.stat = [k.stat EXCEPT ![t] = "close"]
    BY <1>1, <1>2 DEF KernelType
  <1>4. OthersStat(k.stat, c.stat, t) /\ c.stat[t] = "close" /\ c.stat \in [Threads -> Stats]
    BY <1>2, <1>3 DEF OthersStat, KernelType, Stats
  <1>5. c \in KernelType
    BY <1>1, <1>2, <1>4 DEF KernelType
  <1>6. Sound(c) /\ Others(k, c, t)
    BY <1>3, <1>4, <1>5, StateSound
  <1>7. CASE Kind[t] = "static"
    <2>1. Closed(k, t) = c
      BY <1>1, <1>7 DEF Closed
    <2>2. QED
      BY <1>3, <1>4, <1>6, <1>7, <2>1
  <1>8. CASE Kind[t] # "static"
    <2>1. PICK e : e = InsertAfter(c, Defunct, t)
      OBVIOUS
    <2>2. Closed(k, t) = e
      BY <1>1, <1>8, <2>1 DEF Closed
    <2>3. Whole(c.next, c.prev, c.stat) /\ c.next[t] = t
      BY <1>3, <1>6 DEF Sound, Linked
    <2>4. c.next[Defunct] # t /\ c.next[Defunct] \in Nodes
      BY <1>2, <1>5, <2>3, Unlinked
    <2>5. /\ e \in KernelType
          /\ e.stat = c.stat /\ e.timer = c.timer /\ e.group = c.group /\ e.current = c.current
          /\ Insertion(c.next, c.prev, e.next, e.prev, t, Defunct, c.next[Defunct])
      BY <1>2, <1>5, <2>1, <2>4, InsertedFirstLinks
    <2>6. OthersStat(c.stat, e.stat, t)
      BY <1>4, <2>5 DEF OthersStat
    <2>7. Placed(c.next, e.stat, t, Defunct, c.next[Defunct]) /\ Joined(c, e, t)
      BY <1>2, <1>4, <2>4, <2>5 DEF Placed, ListOf, Joined
    <2>8. Sound(e) /\ Others(c, e, t) /\ e.next[t] # t
      BY <1>6, <2>3, <2>5, <2>6, <2>7, InsertSound
    <2>9. QED
      BY <1>3, <1>4, <1>6, <1>8, <2>2, <2>5, <2>8, OthersThrough
  <1>9. QED
    BY <1>7, <1>8

\* rt_thread_yield: the running thread goes to the end of its list.
LEMMA YieldSound ==
  ASSUME NEW k, Sound(k), NEW t \in Threads, Runnable(k, t)
  PROVE  LET e == InsertBefore(Removed(k, t), ReadyList(t), t)
         IN /\ Sound(e) /\ Others(k, e, t) /\ Runnable(e, t)
            /\ e.stat = k.stat /\ e.timer = k.timer
  <1>1. PICK r : r = Removed(k, t)
    OBVIOUS
  <1>2. k \in KernelType /\ Whole(k.next, k.prev, k.stat) /\ ReadyList(t) \in Heads
        /\ ReadyList(t) \in Nodes
    BY Constants DEF Sound, Linked
  <1>3. /\ r \in KernelType
        /\ r.stat = k.stat /\ r.timer = k.timer /\ r.group = k.group /\ r.current = k.current
        /\ Removal(k.next, k.prev, r.next, r.prev, t)
    BY <1>1, <1>2, RemovedLinks
  <1>4. OthersStat(k.stat, r.stat, t)
    BY <1>2, <1>3 DEF OthersStat, KernelType
  <1>5. /\ Whole(r.next, r.prev, r.stat) /\ r.next[t] = t
        /\ \A u \in Threads : k.next[u] = u => r.next[u] = u
        /\ \A u \in Threads : u # t /\ k.next[u] # u => r.next[u] # u
        /\ \A h \in Heads : r.next[h] # h => k.next[h] # h
        /\ \A h \in Heads : h # Home(k.next, k.stat, t) => r.next[h] = k.next[h]
    BY <1>2, <1>3, <1>4, RemoveWhole
  <1>6. Home(k.next, k.stat, t) = ReadyList(t)
    BY DEF Home, ListOf, Runnable
  <1>7. r.prev[ReadyList(t)] # t /\ r.prev[ReadyList(t)] \in Nodes
        /\ r.next[r.prev[ReadyList(t)]] = ReadyList(t)
    BY <1>2, <1>3, <1>5, Unlinked
  <1>8. PICK e : e = InsertBefore(r, ReadyList(t), t)
    OBVIOUS
  <1>9. /\ e \in KernelType
        /\ e.stat = k.stat /\ e.timer = k.timer /\ e.group = k.group /\ e.current = k.current
        /\ Insertion(r.next, r.prev, e.next, e.prev, t, r.prev[ReadyList(t)], ReadyList(t))
    BY <1>2, <1>3, <1>7, <1>8, InsertedLinks
  <1>10. e.stat[t] = "ready" /\ ListOf(t, e.stat[t]) = ReadyList(t)
    BY <1>9 DEF Runnable, ListOf
  <1>11. Placed(r.next, e.stat, t, r.prev[ReadyList(t)], ReadyList(t)) /\ OthersStat(r.stat, e.stat, t)
    BY <1>2, <1>3, <1>4, <1>7, <1>9, <1>10 DEF Placed
  <1>12. Whole(e.next, e.prev, e.stat) /\ CameIn(r.next, e.next, t, ReadyList(t))
    <2>1. Whole(e.next, e.prev, e.stat) /\ CameIn(r.next, e.next, t, ListOf(t, e.stat[t]))
      <3>1. Whole(r.next, r.prev, r.stat) /\ r.next[t] = t
        BY <1>5
      <3>2. Insertion(r.next, r.prev, e.next, e.prev, t, r.prev[ReadyList(t)], ReadyList(t))
        BY <1>9
      <3>3. QED
        BY <1>11, <3>1, <3>2, InsertWhole
    <2>2. QED
      BY <1>10, <2>1
  <1>13. Others(k, e, t)
    BY <1>5, <1>9, <1>12 DEF Others, Kept, Runnable, CameIn
  <1>14. Grouped(e)
    <2>1. SUFFICES ASSUME NEW p \in Priorities
                   PROVE  p \in k.group <=> e.next[PriorityTable[p]] # PriorityTable[p]
      BY <1>9 DEF Grouped
    <2>2. PriorityTable[p] \in Heads /\ (p \in k.group <=> k.next[PriorityTable[p]] # PriorityTable[p])
      BY Constants DEF Sound, Grouped
    <2>3. CASE PriorityTable[p] = ReadyList(t)
      BY <1>12, <2>2, <2>3, Filled DEF CameIn, Sound
    <2>4. CASE PriorityTable[p] # ReadyList(t)
      BY <1>5, <1>6, <1>12, <2>2, <2>4 DEF CameIn
    <2>5. QED
      BY <2>3, <2>4
  <1>15. QED
    BY <1>1, <1>8, <1>9, <1>10, <1>12, <1>13, <1>14 DEF Sound, Linked, CameIn, Runnable

\* rt_schedule
LEMMA ScheduleSound ==
  ASSUME NEW k, Sound(k), \E t \in Threads : Runnable(k, t)
  PROVE  LET e == Schedule(k)
         IN /\ Sound(e) /\ e.next = k.next /\ e.stat = k.stat /\ e.timer = k.timer
            /\ e.current \in Threads /\ Runnable(e, e.current)
            /\ \A t \in Threads : Runnable(e, t) => Priority[e.current] <= Priority[t]
  <1>1. PICK c : c = NextToRun(k)
    OBVIOUS
  <1>2. c \in Threads /\ Runnable(k, c) /\ \A t \in Threads : Runnable(k, t) => Priority[c] <= Priority[t]
    BY <1>1, NextReady
  <1>3. PICK e : e = Schedule(k)
    OBVIOUS
  <1>4. k \in KernelType /\ e = [k EXCEPT !.current = c]
    BY <1>1, <1>3 DEF Schedule, Sound, Linked
  <1>5. /\ e \in KernelType /\ e.next = k.next /\ e.prev = k.prev /\ e.stat = k.stat
        /\ e.timer = k.timer /\ e.group = k.group /\ e.current = c
    BY <1>2, <1>4 DEF KernelType
  <1>6. Sound(e)
    BY <1>5 DEF Sound, Linked, Grouped
  <1>7. QED
    BY <1>2, <1>3, <1>5, <1>6 DEF Runnable

\* A thread that waits is woken, by its timer or by a release.
LEMMA WokenSound ==
  ASSUME NEW k, Sound(k), NEW t \in Threads, k.stat[t] = "suspend", NEW e,
         \/ e = ScheduleInsert(Removed([k EXCEPT !.timer[t] = FALSE], t), t)
         \/ e = ScheduleInsert(ResumeSection(k, t), t)
  PROVE  Sound(e) /\ Others(k, e, t) /\ Runnable(e, t) /\ e.timer[t] = FALSE
  <1>1. CASE e = ScheduleInsert(Removed([k EXCEPT !.timer[t] = FALSE], t), t)
    <2>1. PICK f : f = [k EXCEPT !.timer[t] = FALSE]
      OBVIOUS
    <2>2. Sound(f) /\ Others(k, f, t) /\ f.timer[t] = FALSE /\ f.stat = k.stat
      BY <2>1, TimerSound
    <2>3. PICK g : g = Removed(f, t)
      OBVIOUS
    <2>4. Sound(g) /\ Others(f, g, t) /\ g.next[t] = t /\ g.timer = f.timer
      BY <2>2, <2>3, RemovedSound DEF Runnable
    <2>5. e = ScheduleInsert(g, t)
      BY <1>1, <2>1, <2>3
    <2>6. Sound(e) /\ Others(g, e, t) /\ Runnable(e, t) /\ e.timer = g.timer
      BY <2>4, <2>5, ScheduleInsertSound
    <2>7. QED
      BY <2>2, <2>4, <2>6, OthersThrough
  <1>2. CASE e = ScheduleInsert(ResumeSection(k, t), t)
    <2>1. PICK g : g = ResumeSection(k, t)
      OBVIOUS
    <2>2. Sound(g) /\ Others(k, g, t) /\ g.next[t] = t /\ g.timer[t] = FALSE
      BY <2>1, ResumeSound
    <2>3. Sound(e) /\ Others(g, e, t) /\ Runnable(e, t) /\ e.timer = g.timer
      BY <1>2, <2>1, <2>2, ScheduleInsertSound
    <2>4. QED
      BY <2>2, <2>3, OthersThrough
  <1>3. QED
    BY <1>1, <1>2
----------------------------------------------------------------------------
Places ==
  { "run", "resume", "resume_remove", "resume_insert", "suspend", "delete_timer",
    "delete_close", "detach_insert", "schedule", "exit", "gone", "free_stack", "free_object" }
Resuming == {"resume", "resume_remove", "resume_insert"}
Deleting == {"delete_timer", "delete_close", "detach_insert"}

TypeInv ==
  /\ Sound(kernel)
  /\ mem \in [Threads -> {"live", "stackless", "absent"}]
  /\ call \in [Threads -> [at : Places, on : Threads]]

\* What does not exist is in no list, and has closed if it ever was; a thread that
\* has ended is closed; a timer runs for a suspended thread only.
ThreadOK(t) ==
  /\ kernel.timer[t] => kernel.stat[t] = "suspend"
  /\ mem[t] # "live" => kernel.stat[t] \in {"none", "close"} /\ kernel.next[t] = t
  /\ call[t].at \in {"exit", "gone"} => kernel.stat[t] = "close"
  /\ t \notin {Idle, Manager} => call[t].at \in {"run", "suspend", "schedule", "exit", "gone"}
  /\ t # Manager /\ call[t].at = "suspend" => call[t].on = t
ThreadInv == \A t \in Threads : ThreadOK(t)

\* A thread that is not half deleted is in the list that its state names: a ready one,
\* and a closed one, until the idle thread has taken it out to free it.
BeingFreed(t) == call[Idle].at = "free_stack" /\ call[Idle].on = t
InList(t) ==
  /\ kernel.stat[t] = "ready" => kernel.next[t] # t \/ HalfDeleted(t)
  /\ kernel.stat[t] = "close" /\ mem[t] = "live" => kernel.next[t] # t \/ HalfDeleted(t) \/ BeingFreed(t)
ListInv == \A t \in Threads : InList(t)

\* The idle thread can always run, and what it frees was allocated and is out of every
\* list.
IdleInv ==
  /\ Runnable(kernel, Idle) /\ call[Idle].at \in {"run", "free_stack", "free_object"}
  /\ call[Idle].at # "run" =>
       LET w == call[Idle].on
       IN /\ kernel.stat[w] = "close" /\ kernel.next[w] = w
          /\ mem[w] # "absent" /\ w # kernel.current /\ Kind[w] = "dynamic"

\* Who runs can run, but at the end of a call or of its life.
RunInv ==
  /\ call[kernel.current].at \notin {"schedule", "exit"} => Runnable(kernel, kernel.current)
  /\ mem[kernel.current] # "live" =>
       Kind[kernel.current] = "static" /\ call[kernel.current].at = "exit"

\* Whom the manager's call is on: between its sections a thread that is resumed or
\* deleted stays out of every list, and one that is suspended does not run.  A deleted
\* thread is not closed yet, but for a static one that waits to be inserted.
ManagerInv ==
  LET w == call[Manager].on  at == call[Manager].at
  IN /\ at \notin {"free_stack", "free_object"}
     /\ at \in Resuming \union Deleting \union {"suspend"} =>
          w \notin {Idle, Manager} /\ w # kernel.current
     /\ at \in Resuming \union Deleting => kernel.next[w] = w /\ ~kernel.timer[w]
     /\ at \in Resuming => kernel.stat[w] = "suspend"
     /\ at \in Deleting => at = "detach_insert" \/ kernel.stat[w] # "close"
     /\ at = "detach_insert" => Kind[w] # "dynamic"
     /\ at = "suspend" =>
          /\ kernel.stat[w] = "ready" /\ Runnable(kernel, Manager)
          /\ Priority[kernel.current] <= Priority[Manager] /\ Priority[Manager] < Priority[w]

IInv == TypeInv /\ ThreadInv /\ ListInv /\ IdleInv /\ RunInv /\ ManagerInv
----------------------------------------------------------------------------
\* The running thread stays, or the scheduler has chosen.
Chosen(k, e) ==
  \/ e.current = k.current
  \/ /\ Runnable(e, e.current)
     /\ \A t \in Threads : Runnable(e, t) => Priority[e.current] <= Priority[t]

\* What the types say of the state.
LEMMA Types ==
  ASSUME IInv
  PROVE  /\ Sound(kernel) /\ Linked(kernel) /\ kernel \in KernelType
         /\ Whole(kernel.next, kernel.prev, kernel.stat)
         /\ kernel.current \in Threads /\ \A t \in Threads : kernel.timer[t] \in BOOLEAN
         /\ mem \in [Threads -> {"live", "stackless", "absent"}]
         /\ call \in [Threads -> [at : Places, on : Threads]]
         /\ \A t \in Threads : call[t].on \in Threads
  <1>1. /\ Sound(kernel) /\ Linked(kernel) /\ kernel \in KernelType
        /\ Whole(kernel.next, kernel.prev, kernel.stat)
    BY DEF IInv, TypeInv, Sound, Linked
  <1>2. kernel.current \in Threads /\ \A t \in Threads : kernel.timer[t] \in BOOLEAN
    BY <1>1 DEF KernelType
  <1>3. QED
    BY <1>1, <1>2 DEF IInv, TypeInv

\* What a step on x leaves as it was.
LEMMA ThreadFrame ==
  ASSUME IInv, NEW x \in Threads, Kept(kernel, kernel', x),
         NEW u \in Threads, u # x, call'[u] = call[u], mem'[u] = mem[u]
  PROVE  ThreadOK(u)'
  <1>1. ThreadOK(u)
    BY DEF IInv, ThreadInv
  <1>2. QED
    BY <1>1 DEF ThreadOK, Kept

LEMMA ListFrame ==
  ASSUME IInv, NEW x \in Threads, Kept(kernel, kernel', x), InList(x)',
         \A u \in Threads : u # x => mem'[u] = mem[u],
         call'[Idle] = call[Idle] \/ call[Idle].at # "free_stack" \/ call[Idle].on = x,
         call'[Manager] = call[Manager] \/ call[Manager].at \notin Deleting \/ call[Manager].on = x
  PROVE  ListInv'
  <1>1. SUFFICES ASSUME NEW u \in Threads, u # x PROVE InList(u)'
    BY DEF ListInv
  <1>2. InList(u) /\ mem'[u] = mem[u]
    BY <1>1 DEF IInv, ListInv
  <1>3. kernel'.stat[u] = kernel.stat[u] /\ (kernel.next[u] = u <=> kernel'.next[u] = u)
    BY <1>1 DEF Kept
  <1>4. HalfDeleted(u) => HalfDeleted(u)'
    BY <1>1 DEF HalfDeleted, Deleting
  <1>5. BeingFreed(u) => BeingFreed(u)'
    BY <1>1 DEF BeingFreed
  <1>6. QED
    BY <1>2, <1>3, <1>4, <1>5 DEF InList

LEMMA IdleFrame ==
  ASSUME IInv, NEW x \in Threads, x = Idle => Runnable(kernel', Idle),
         Sound(kernel'), Kept(kernel, kernel', x),
         Chosen(kernel, kernel'), call'[Idle] = call[Idle],
         call[Idle].at # "run" => call[Idle].on # x /\ mem'[call[Idle].on] = mem[call[Idle].on]
  PROVE  IdleInv'
  <1>1. Runnable(kernel', Idle)
    BY Constants DEF IInv, IdleInv, Kept, Runnable
  <1>2. CASE call[Idle].at = "run"
    BY <1>1, <1>2 DEF IInv, IdleInv
  <1>3. CASE call[Idle].at # "run"
    <2>1. PICK w \in Threads : w = call[Idle].on
      BY Constants DEF IInv, TypeInv
    <2>2. kernel'.stat[w] = "close" /\ kernel'.next[w] = w /\ mem'[w] # "absent"
      BY <1>3, <2>1 DEF IInv, IdleInv, Kept
    <2>3. w # kernel'.current
      BY <1>3, <2>1, <2>2 DEF IInv, IdleInv, Chosen, Runnable
    <2>4. QED
      BY <1>1, <2>1, <2>2, <2>3 DEF IInv, IdleInv
  <1>4. QED
    BY <1>2, <1>3

LEMMA ManagerFrame ==
  ASSUME IInv, NEW x \in Threads, Sound(kernel'), Kept(kernel, kernel', x),
         Chosen(kernel, kernel'), call'[Manager] = call[Manager],
         call[Manager].at \in Resuming \union Deleting \union {"suspend"} => call[Manager].on # x,
         call[Manager].at = "suspend" /\ x = Manager => Runnable(kernel', Manager)
  PROVE  ManagerInv'
  <1>1. PICK w \in Threads : w = call[Manager].on
    BY Constants DEF IInv, TypeInv
  <1>2. PICK at : at = call[Manager].at
    OBVIOUS
  <1>3. call'[Manager].on = w /\ call'[Manager].at = at
    BY <1>1, <1>2
  <1>4. CASE at \in Resuming \union Deleting
    <2>1. /\ w \notin {Idle, Manager} /\ w # kernel.current /\ kernel.next[w] = w /\ ~kernel.timer[w]
          /\ at \in Resuming => kernel.stat[w] = "suspend"
          /\ at \in Deleting => at = "detach_insert" \/ kernel.stat[w] # "close"
          /\ at = "detach_insert" => Kind[w] # "dynamic"
          /\ w # x
      BY <1>1, <1>2, <1>4 DEF IInv, ManagerInv
    <2>2. kernel'.next[w] = w /\ ~kernel'.timer[w] /\ kernel'.stat[w] = kernel.stat[w]
      BY <2>1 DEF Kept
    <2>3. w # kernel'.current
      BY <2>1, <2>2 DEF Chosen, Runnable
    <2>4. QED
      BY <1>3, <1>4, <2>1, <2>2, <2>3 DEF ManagerInv, Resuming, Deleting
  <1>5. CASE at = "suspend"
    <2>1. /\ w \notin {Idle, Manager} /\ w # kernel.current /\ w # x
          /\ kernel.stat[w] = "ready" /\ Runnable(kernel, Manager)
          /\ Priority[kernel.current] <= Priority[Manager] /\ Priority[Manager] < Priority[w]
      BY <1>1, <1>2, <1>5 DEF IInv, ManagerInv
    <2>2. kernel'.stat[w] = "ready" /\ Runnable(kernel', Manager)
      BY <1>2, <1>5, <2>1, Constants DEF Kept, Runnable
    <2>3. Priority[kernel'.current] <= Priority[Manager]
      BY <2>1, <2>2, Constants DEF Chosen
    <2>4. kernel'.current \in Threads /\ w # kernel'.current
      <3>1. kernel'.current \in Threads
        BY DEF Sound, Linked, KernelType
      <3>2. Priority[w] \in Nat /\ Priority[Manager] \in Nat /\ Priority[kernel'.current] \in Nat
        BY <3>1, Constants
      <3>3. QED
        BY <2>1, <2>3, <3>1, <3>2
    <2>5. QED
      BY <1>3, <1>5, <2>1, <2>2, <2>3, <2>4 DEF ManagerInv, Resuming, Deleting
  <1>6. CASE at \notin Resuming \union Deleting \union {"suspend"}
    BY <1>1, <1>2, <1>3, <1>6 DEF IInv, ManagerInv
  <1>7. QED
    BY <1>4, <1>5, <1>6

\* A step after which the scheduler has chosen.
LEMMA RunChosen ==
  ASSUME Sound(kernel'), ThreadInv', Runnable(kernel', kernel'.current)
  PROVE  RunInv'
  <1>1. kernel'.current \in Threads
    BY DEF Sound, Linked, KernelType
  <1>2. QED
    BY <1>1 DEF ThreadInv, ThreadOK, RunInv, Runnable

LEMMA Went ==
  ASSUME IInv, NEW t \in Threads, NEW at \in Places, NEW on \in Threads, Goes(t, at, on)
  PROVE  /\ call' \in [Threads -> [at : Places, on : Threads]]
         /\ call'[t].at = at /\ call'[t].on = on
         /\ \A u \in Threads : u # t => call'[u] = call[u]
  BY DEF Goes, IInv, TypeInv

\* What is known of a thread that runs and is at a place.
LEMMA RunsFacts ==
  ASSUME IInv, NEW t \in Threads, NEW at, Runs(t, at)
  PROVE  /\ kernel.current = t /\ call[t].at = at
         /\ at \notin {"schedule", "exit"} => Runnable(kernel, t) /\ mem[t] = "live"
         /\ at \in Resuming \union Deleting => t = Manager
         /\ at \in {"resume", "resume_remove", "resume_insert", "suspend", "delete_timer",
                    "delete_close", "detach_insert", "schedule", "exit"} => t # Idle
         /\ at \in {"free_stack", "free_object"} => t = Idle
         /\ call[Idle].at # "run" => call[Idle].on # t
  <1>1. kernel.current = t /\ call[t].at = at
    BY DEF Runs
  <1>2. at \notin {"schedule", "exit"} => Runnable(kernel, t) /\ mem[t] = "live"
    BY <1>1 DEF IInv, RunInv, TypeInv
  <1>3. ThreadOK(t)
    BY DEF IInv, ThreadInv
  <1>4. at \in Resuming \union Deleting => t = Manager
    BY <1>1, <1>3 DEF ThreadOK, IInv, IdleInv, Resuming, Deleting
  <1>5. t = Idle => at \in {"run", "free_stack", "free_object"}
    BY <1>1 DEF IInv, IdleInv
  <1>6. at \in {"free_stack", "free_object"} => t = Idle
    BY <1>1, <1>3 DEF ThreadOK, IInv, ManagerInv
  <1>7. call[Idle].at # "run" => call[Idle].on # t
    BY <1>1 DEF IInv, IdleInv
  <1>8. QED
    BY <1>1, <1>2, <1>4, <1>5, <1>6, <1>7

\* A section of t's call on x, after which t is at another place of the call, or at
\* its end: what is to be shown of it.
LEMMA SectionFrame ==
  ASSUME IInv, NEW t \in Threads, NEW x \in Threads, NEW at \in Places, NEW on \in Threads,
         t # Idle, x # Idle, Goes(t, at, on), Sound(kernel'), Others(kernel, kernel', x),
         kernel.current = t, kernel.stat[x] # "close" \/ Kind[x] # "dynamic",
         mem' \in [Threads -> {"live", "stackless", "absent"}],
         \A u \in Threads : u # x => mem'[u] = mem[u]
  PROVE  /\ TypeInv' /\ IdleInv'
         /\ \A u \in Threads : u # t /\ u # x => ThreadOK(u)'
         /\ t # Manager /\ x = t => ManagerInv'
         /\ kernel'.current = t
  <1>1. /\ call' \in [Threads -> [at : Places, on : Threads]]
        /\ \A u \in Threads : u # t => call'[u] = call[u]
    BY Went
  <1>2. TypeInv'
    BY <1>1 DEF TypeInv
  <1>3. Kept(kernel, kernel', x) /\ Chosen(kernel, kernel') /\ kernel'.current = t
    BY DEF Others, Chosen
  <1>4. \A u \in Threads : u # t /\ u # x => ThreadOK(u)'
    BY <1>1, <1>3, ThreadFrame
  <1>5. call[Idle].at # "run" => call[Idle].on \in Threads /\ call[Idle].on # x
    BY Constants DEF IInv, IdleInv, TypeInv
  <1>6. IdleInv'
    BY <1>1, <1>3, <1>5, IdleFrame, Constants
  <1>7. t # Manager /\ x = t => ManagerInv'
    <2>1. SUFFICES ASSUME t # Manager, x = t PROVE ManagerInv'
      OBVIOUS
    <2>2. call'[Manager] = call[Manager]
      BY <1>1, <2>1, Constants
    <2>3. call[Manager].at \in Resuming \union Deleting \union {"suspend"} => call[Manager].on # x
      BY <2>1 DEF IInv, ManagerInv
    <2>4. QED
      BY <1>3, <2>1, <2>2, <2>3, ManagerFrame
  <1>8. QED
    BY <1>2, <1>3, <1>4, <1>6, <1>7
----------------------------------------------------------------------------
LEMMA InvStarts == Init => IInv
  <1>1. SUFFICES ASSUME Init PROVE IInv
    OBVIOUS
  <1>2. PICK z : z = [ next |-> [n \in Nodes |-> n], prev |-> [n \in Nodes |-> n],
                       stat |-> [t \in Threads |-> "none"], timer |-> [t \in Threads |-> FALSE],
                       group |-> {}, current |-> Idle ]
    OBVIOUS
  <1>3. Sound(z)
    <2>1. z \in KernelType
      BY <1>2, Constants DEF KernelType, Stats
    <2>2. /\ z.next = [n \in Nodes |-> n] /\ z.prev = [n \in Nodes |-> n]
          /\ z.stat = [t \in Threads |-> "none"] /\ z.group = {}
      BY <1>2
    <2>3. \A n \in Nodes : z.next[n] = n /\ z.prev[n] = n
      BY <2>2
    <2>4. \E r \in [Threads -> Nat] : Numbered(z.next, z.prev, r)
      <3>1. [t \in Threads |-> 0] \in [Threads -> Nat]
        OBVIOUS
      <3>2. Numbered(z.next, z.prev, [t \in Threads |-> 0])
        BY <2>3, Constants DEF Numbered
      <3>3. QED
        BY <3>1, <3>2
    <2>5. Whole(z.next, z.prev, z.stat)
      BY <2>1, <2>3, <2>4, Constants DEF Whole, KernelType
    <2>6. Grouped(z)
      BY <2>2, <2>3, Constants DEF Grouped
    <2>7. QED
      BY <2>1, <2>5, <2>6 DEF Sound, Linked
  <1>4. /\ \A n \in Nodes : z.next[n] = n
        /\ \A t \in Threads : z.stat[t] = "none" /\ z.timer[t] = FALSE
    BY <1>2
  <1>5. PICK a : a = ScheduleInsert(z, Manager)
    OBVIOUS
  <1>6. Sound(a) /\ Others(z, a, Manager) /\ Runnable(a, Manager) /\ a.timer = z.timer
    BY <1>3, <1>4, <1>5, ScheduleInsertSound, Constants
  <1>7. a.next[Idle] = Idle
    BY <1>4, <1>6, Constants DEF Others, Kept
  <1>8. PICK b : b = ScheduleInsert(a, Idle)
    OBVIOUS
  <1>9. Sound(b) /\ Others(a, b, Idle) /\ Runnable(b, Idle) /\ b.timer = a.timer
    BY <1>6, <1>7, <1>8, ScheduleInsertSound, Constants
  <1>10. /\ Runnable(b, Manager)
         /\ \A t \in Threads : t \notin {Idle, Manager} => b.stat[t] = "none" /\ b.next[t] = t
         /\ \A t \in Threads : b.timer[t] = FALSE
    BY <1>4, <1>6, <1>9, Constants DEF Others, Kept, Runnable
  <1>11. kernel = Schedule(b)
    BY <1>1, <1>2, <1>5, <1>8 DEF Init
  <1>12. /\ Sound(kernel) /\ kernel.next = b.next /\ kernel.stat = b.stat /\ kernel.timer = b.timer
         /\ kernel.current \in Threads /\ Runnable(kernel, kernel.current)
    BY <1>9, <1>11, ScheduleSound, Constants
  <1>13. /\ mem = [t \in Threads |-> IF t \in {Idle, Manager} THEN "live" ELSE "absent"]
         /\ call = [t \in Threads |-> [at |-> "run", on |-> t]]
    BY <1>1 DEF Init
  <1>14. \A t \in Threads : call[t].at = "run" /\ call[t].on = t
    BY <1>13
  <1>15. TypeInv
    BY <1>12, <1>13 DEF TypeInv, Places
  <1>16. ThreadInv
    <2>1. SUFFICES ASSUME NEW t \in Threads PROVE ThreadOK(t)
      BY DEF ThreadInv
    <2>2. kernel.timer[t] = FALSE /\ call[t].at = "run"
      BY <1>10, <1>12, <1>14
    <2>3. mem[t] # "live" => kernel.stat[t] = "none" /\ kernel.next[t] = t
      BY <1>10, <1>12, <1>13, Constants
    <2>4. QED
      BY <2>2, <2>3 DEF ThreadOK
  <1>17. IdleInv
    BY <1>9, <1>12, <1>14, Constants DEF IdleInv, Runnable
  <1>18. RunInv
    BY <1>12, <1>16 DEF RunInv, ThreadInv, ThreadOK, Runnable
  <1>19. ManagerInv
    BY <1>14, Constants DEF ManagerInv, Resuming, Deleting
  <1>20. ListInv
    <2>1. SUFFICES ASSUME NEW t \in Threads PROVE InList(t)
      BY DEF ListInv
    <2>2. kernel.stat[t] = "none" \/ Runnable(kernel, t)
      BY <1>9, <1>10, <1>12 DEF Runnable
    <2>3. QED
      BY <2>2 DEF InList, Runnable
  <1>21. QED
    BY <1>15, <1>16, <1>17, <1>18, <1>19, <1>20 DEF IInv

\* rt_thread_suspend's section, rt_thread_sleep and rt_sem_take: x, which can run, is
\* suspended by the running thread t, itself or the manager.
LEMMA SuspensionKept ==
  ASSUME IInv, NEW t \in Threads, NEW x \in Threads, t # Idle, x # Idle, NEW on \in Threads,
         kernel.current = t, mem[t] = "live", kernel.stat[x] = "ready", x = t \/ t = Manager,
         call[t].at \in {"run", "suspend"},
         Goes(t, "schedule", on), UNCHANGED mem,
         Sound(kernel'), Others(kernel, kernel', x), kernel'.stat[x] = "suspend"
  PROVE  IInv'
  <1>1. "schedule" \in Places /\ kernel.stat[x] # "close" /\ kernel.stat[x] = "ready"
    BY DEF Places
  <1>2. mem' \in [Threads -> {"live", "stackless", "absent"}] /\ \A u \in Threads : u # x => mem'[u] = mem[u]
    BY DEF IInv, TypeInv
  <1>3. /\ TypeInv' /\ IdleInv'
        /\ \A u \in Threads : u # t /\ u # x => ThreadOK(u)'
        /\ t # Manager /\ x = t => ManagerInv'
        /\ kernel'.current = t
    BY <1>1, <1>2, SectionFrame
  <1>4. /\ call'[t].at = "schedule" /\ \A u \in Threads : u # t => call'[u] = call[u]
    BY <1>1, Went
  <1>5. mem[x] = "live"
    BY <1>1 DEF IInv, ThreadInv, ThreadOK
  <1>6. x # t => ThreadOK(t)'
    <2>1. SUFFICES ASSUME x # t PROVE ThreadOK(t)'
      OBVIOUS
    <2>2. ThreadOK(t) /\ kernel'.timer[t] = kernel.timer[t] /\ kernel'.stat[t] = kernel.stat[t]
      BY <2>1 DEF IInv, ThreadInv, Others, Kept
    <2>3. QED
      BY <1>4, <2>2 DEF ThreadOK
  <1>7. ThreadOK(x)'
    <2>1. ThreadOK(x)
      BY DEF IInv, ThreadInv
    <2>2. call[x].at \notin {"exit", "gone"}
      BY <1>1, <2>1 DEF ThreadOK
    <2>3. CASE x = t
      BY <1>4, <1>5, <2>3 DEF ThreadOK
    <2>4. CASE x # t
      BY <1>4, <1>5, <2>1, <2>2, <2>4 DEF ThreadOK
    <2>5. QED
      BY <2>3, <2>4
  <1>8. RunInv'
    BY <1>3, <1>4 DEF RunInv
  <1>9. ManagerInv'
    BY <1>3, <1>4 DEF ManagerInv, Resuming, Deleting
  <1>10. ListInv'
    <2>1. InList(x)'
      BY DEF InList
    <2>2. call'[Idle] = call[Idle] /\ (call'[Manager] = call[Manager] \/ call[Manager].at \notin Deleting)
      BY <1>4, Constants DEF Deleting
    <2>3. Kept(kernel, kernel', x)
      BY DEF Others
    <2>4. QED
      BY <1>2, <2>1, <2>2, <2>3, ListFrame
  <1>11. QED
    BY <1>3, <1>6, <1>7, <1>8, <1>9, <1>10 DEF IInv, ThreadInv
----------------------------------------------------------------------------
\* An interrupt makes x ready, or takes its time slice, and calls the scheduler.
LEMMA InterruptKept ==
  ASSUME IInv, NEW x \in Threads, NEW e, Sound(e), Others(kernel, e, x), Runnable(e, x),
         e.timer[x] = FALSE, kernel.stat[x] \in {"ready", "suspend"},
         call[Manager].at \in Resuming \union Deleting \union {"suspend"} => call[Manager].on # x,
         Interrupt(Schedule(e))
  PROVE  IInv'
  <1>1. kernel' = Schedule(e) /\ mem' = mem /\ call' = call
    BY DEF Interrupt
  <1>2. /\ Sound(kernel') /\ kernel'.next = e.next /\ kernel'.stat = e.stat /\ kernel'.timer = e.timer
        /\ kernel'.current \in Threads /\ Runnable(kernel', kernel'.current)
        /\ \A u \in Threads : Runnable(kernel', u) => Priority[kernel'.current] <= Priority[u]
    BY <1>1, ScheduleSound
  <1>3. Kept(kernel, kernel', x) /\ Chosen(kernel, kernel') /\ Runnable(kernel', x)
    BY <1>2 DEF Others, Kept, Chosen, Runnable
  <1>4. TypeInv'
    BY <1>1, <1>2 DEF IInv, TypeInv
  <1>5. ThreadInv'
    <2>1. ThreadOK(x)'
      <3>1. ThreadOK(x)
        BY DEF IInv, ThreadInv
      <3>2. kernel'.timer[x] = FALSE /\ kernel'.stat[x] = "ready"
        BY <1>2, <1>3 DEF Runnable
      <3>3. mem[x] = "live" /\ call[x].at \notin {"exit", "gone"}
        BY <3>1 DEF ThreadOK
      <3>4. QED
        BY <1>1, <3>1, <3>2, <3>3 DEF ThreadOK
    <2>2. \A u \in Threads : u # x => ThreadOK(u)'
      BY <1>1, <1>3, ThreadFrame
    <2>3. QED
      BY <2>1, <2>2 DEF ThreadInv
  <1>6. RunInv'
    BY <1>2, <1>5, RunChosen
  <1>7. IdleInv'
    <2>1. call[Idle].at # "run" => call[Idle].on # x
      BY DEF IInv, IdleInv
    <2>2. QED
      BY <1>1, <1>2, <1>3, <2>1, IdleFrame
  <1>8. ManagerInv'
    BY <1>1, <1>2, <1>3, ManagerFrame
  <1>9. ListInv'
    <2>1. InList(x)'
      BY <1>3 DEF InList, Runnable
    <2>2. QED
      BY <1>1, <1>3, <2>1, ListFrame
  <1>10. QED
    BY <1>4, <1>5, <1>6, <1>7, <1>8, <1>9 DEF IInv

LEMMA StutterKept == IInv /\ UNCHANGED vars => IInv'
  <1>1. SUFFICES ASSUME IInv, kernel' = kernel, mem' = mem, call' = call PROVE IInv'
    BY DEF vars
  <1>2. TypeInv' /\ ThreadInv'
    BY <1>1 DEF IInv, TypeInv, ThreadInv, ThreadOK
  <1>3. IdleInv' /\ RunInv' /\ ManagerInv'
    BY <1>1 DEF IInv, IdleInv, RunInv, ManagerInv, Runnable
  <1>4. ListInv'
    BY <1>1 DEF IInv, ListInv, InList, HalfDeleted, BeingFreed
  <1>5. QED
    BY <1>2, <1>3, <1>4 DEF IInv

LEMMA TickKept == IInv /\ Tick => IInv'
  <1>1. SUFFICES ASSUME IInv, Tick PROVE IInv'
    OBVIOUS
  <1>2. PICK t \in Threads : t = kernel.current
    BY <1>1, Types
  <1>3. CASE kernel.stat[t] = "ready" /\ ~Alone(kernel, t)
    <2>1. kernel.next[t] # t
      <3>1. kernel.next[t] = t <=> kernel.prev[t] = t
        BY <1>1, Constants, Types, Neighbours
      <3>2. QED
        BY <1>3, <3>1 DEF Alone
    <2>2. Sound(kernel) /\ Runnable(kernel, t)
      BY <1>1, <1>3, <2>1, Types DEF Runnable
    <2>3. PICK e : e = InsertBefore(Removed(kernel, t), ReadyList(t), t)
      OBVIOUS
    <2>4. Sound(e) /\ Others(kernel, e, t) /\ Runnable(e, t) /\ e.timer = kernel.timer
      BY <2>2, <2>3, YieldSound
    <2>5. kernel.timer[t] = FALSE
      <3>1. kernel.timer[t] \in BOOLEAN
        BY <1>1, Types
      <3>2. ThreadOK(t)
        BY <1>1 DEF IInv, ThreadInv
      <3>3. QED
        BY <1>3, <3>1, <3>2 DEF ThreadOK
    <2>6. call[Manager].at \in Resuming \union Deleting \union {"suspend"} => call[Manager].on # t
      BY <1>1, <1>2 DEF IInv, ManagerInv
    <2>7. Interrupt(Schedule(e))
      BY <1>1, <1>2, <1>3, <2>3 DEF Tick
    <2>8. QED
      BY <1>1, <1>3, <2>4, <2>5, <2>6, <2>7, InterruptKept
  <1>4. CASE ~(kernel.stat[t] = "ready" /\ ~Alone(kernel, t))
    <2>1. UNCHANGED vars
      BY <1>1, <1>2, <1>4 DEF Tick, Interrupt, vars
    <2>2. QED
      BY <1>1, <2>1, StutterKept
  <1>5. QED
    BY <1>3, <1>4

LEMMA ExpireKept ==
  ASSUME IInv, NEW t \in Threads, Expire(t)
  PROVE  IInv'
  <1>1. Sound(kernel) /\ kernel.stat[t] = "suspend"
    BY DEF IInv, TypeInv, ThreadInv, ThreadOK, Expire
  <1>2. PICK e : e = ScheduleInsert(Removed([kernel EXCEPT !.timer[t] = FALSE], t), t)
    OBVIOUS
  <1>3. Sound(e) /\ Others(kernel, e, t) /\ Runnable(e, t) /\ e.timer[t] = FALSE
    BY <1>1, <1>2, WokenSound
  <1>4. call[Manager].at \in Resuming \union Deleting \union {"suspend"} => call[Manager].on # t
    BY <1>1 DEF IInv, ManagerInv, Expire, Runnable
  <1>5. Interrupt(Schedule(e))
    BY <1>2 DEF Expire, Timeout
  <1>6. QED
    BY <1>1, <1>3, <1>4, <1>5, InterruptKept

LEMMA IsrReleaseKept == IInv /\ IsrRelease => IInv'
  <1>1. SUFFICES ASSUME IInv, IsrRelease PROVE IInv'
    OBVIOUS
  <1>2. PICK w : w = kernel.next[Waiters]
    OBVIOUS
  <1>3. Sound(kernel) /\ Linked(kernel) /\ kernel.next[Waiters] # Waiters
    BY <1>1 DEF IInv, TypeInv, Sound, IsrRelease, Empty
  <1>4. w \in Threads /\ kernel.next[w] # w
    BY <1>2, <1>3, FirstOf, Constants
  <1>5. kernel.stat[w] = "suspend" /\ Interrupt(Schedule(ScheduleInsert(ResumeSection(kernel, w), w)))
    BY <1>1, <1>2 DEF IsrRelease
  <1>6. PICK e : e = ScheduleInsert(ResumeSection(kernel, w), w)
    OBVIOUS
  <1>7. Sound(e) /\ Others(kernel, e, w) /\ Runnable(e, w) /\ e.timer[w] = FALSE
    BY <1>3, <1>4, <1>5, <1>6, WokenSound
  <1>8. call[Manager].at \in Resuming \union Deleting \union {"suspend"} => call[Manager].on # w
    BY <1>1, <1>4, <1>5 DEF IInv, ManagerInv, Runnable
  <1>9. QED
    BY <1>1, <1>4, <1>5, <1>6, <1>7, <1>8, InterruptKept
----------------------------------------------------------------------------
\* The manager's call on x goes on, or begins.
LEMMA CallKept ==
  ASSUME IInv, NEW x \in Threads, x \notin {Idle, Manager}, NEW at \in Places,
         at \in Resuming \union Deleting \union {"suspend", "schedule"},
         Goes(Manager, at, x), UNCHANGED mem,
         kernel.current = Manager, Runnable(kernel, Manager), mem[Manager] = "live",
         Sound(kernel'), Others(kernel, kernel', x), kernel.stat[x] # "close",
         mem[x] # "live" => kernel'.stat[x] \in {"none", "close"} /\ kernel'.next[x] = x,
         kernel'.timer[x] => kernel'.stat[x] = "suspend",
         at \in Resuming \union Deleting => kernel'.next[x] = x /\ ~kernel'.timer[x],
         at \in Resuming => kernel'.stat[x] = "suspend",
         at \in Deleting => at = "detach_insert" \/ kernel'.stat[x] # "close",
         at = "detach_insert" => Kind[x] # "dynamic",
         at = "suspend" => kernel'.stat[x] = "ready" /\ Priority[Manager] < Priority[x],
         kernel'.stat[x] = "suspend" \/ Runnable(kernel', x) \/ at \in Deleting,
         call[Manager].at \in Deleting => call[Manager].on = x
  PROVE  IInv'
  <1>1. mem' \in [Threads -> {"live", "stackless", "absent"}] /\ \A u \in Threads : u # x => mem'[u] = mem[u]
    BY Types
  <1>2. /\ TypeInv' /\ IdleInv'
        /\ \A u \in Threads : u # Manager /\ u # x => ThreadOK(u)'
        /\ kernel'.current = Manager
    BY <1>1, SectionFrame, Constants
  <1>3. /\ call'[Manager].at = at /\ call'[Manager].on = x
        /\ \A u \in Threads : u # Manager => call'[u] = call[u]
    BY Went, Constants
  <1>4. ThreadOK(x)'
    <2>1. ThreadOK(x)
      BY DEF IInv, ThreadInv
    <2>2. call[x].at \notin {"exit", "gone"}
      BY <2>1 DEF ThreadOK
    <2>3. QED
      BY <1>3, <2>1, <2>2 DEF ThreadOK
  <1>5. ThreadOK(Manager)'
    <2>1. ThreadOK(Manager)
      BY Constants DEF IInv, ThreadInv
    <2>2. kernel'.timer[Manager] = kernel.timer[Manager] /\ kernel'.stat[Manager] = kernel.stat[Manager]
      BY Constants DEF Others, Kept
    <2>3. at \notin {"exit", "gone"}
      BY DEF Resuming, Deleting
    <2>4. QED
      BY <1>3, <2>1, <2>2, <2>3 DEF ThreadOK
  <1>6. Runnable(kernel', Manager)
    BY Constants DEF Others, Kept, Runnable
  <1>7. RunInv'
    BY <1>2, <1>6 DEF RunInv
  <1>8. ManagerInv'
    <2>1. Priority[Manager] \in Nat
      BY Constants
    <2>2. at \notin {"free_stack", "free_object"}
      BY DEF Resuming, Deleting
    <2>3. x # kernel'.current
      BY <1>2
    <2>4. Priority[kernel'.current] <= Priority[Manager]
      BY <1>2, <2>1
    <2>5. QED
      BY <1>2, <1>3, <1>6, <2>2, <2>3, <2>4 DEF ManagerInv
  <1>9. ListInv'
    <2>1. InList(x)'
      BY <1>3 DEF InList, HalfDeleted, Deleting, Runnable
    <2>2. Kept(kernel, kernel', x) /\ call'[Idle] = call[Idle]
      BY <1>3, Constants DEF Others
    <2>3. QED
      BY <1>1, <2>1, <2>2, ListFrame
  <1>10. QED
    BY <1>2, <1>4, <1>5, <1>7, <1>8, <1>9 DEF IInv, ThreadInv

\* What is known where the manager's call goes on.
LEMMA CallFacts ==
  ASSUME IInv, NEW t \in Threads, NEW at \in Resuming \union Deleting, Runs(t, at),
         NEW x, x = call[t].on
  PROVE  /\ t = Manager /\ kernel.current = Manager /\ Runnable(kernel, Manager)
         /\ mem[Manager] = "live" /\ x \in Threads /\ x \notin {Idle, Manager}
         /\ kernel.next[x] = x /\ ~kernel.timer[x]
         /\ at = "detach_insert" \/ kernel.stat[x] # "close"
         /\ at = "detach_insert" => Kind[x] # "dynamic"
         /\ at \in Resuming => kernel.stat[x] = "suspend" /\ mem[x] = "live"
         /\ mem[x] # "live" => kernel.stat[x] \in {"none", "close"}
         /\ call[Manager].at \in Deleting => call[Manager].on = x
  <1>1. /\ kernel.current = t /\ call[t].at = at /\ t = Manager
        /\ Runnable(kernel, t) /\ mem[t] = "live"
    BY RunsFacts DEF Resuming, Deleting
  <1>2. x \in Threads
    BY Types
  <1>3. /\ x \notin {Idle, Manager} /\ kernel.next[x] = x /\ ~kernel.timer[x]
        /\ at \in Resuming => kernel.stat[x] = "suspend"
        /\ at \in Deleting => at = "detach_insert" \/ kernel.stat[x] # "close"
        /\ at = "detach_insert" => Kind[x] # "dynamic"
    BY <1>1 DEF IInv, ManagerInv
  <1>4. ThreadOK(x)
    BY <1>2 DEF IInv, ThreadInv
  <1>5. QED
    BY <1>1, <1>2, <1>3, <1>4 DEF ThreadOK

\* What is known where a call of the manager begins.
LEMMA BeginFacts ==
  ASSUME IInv, NEW t \in Threads, Runs(t, "run"), NEW x \in Threads, kernel.stat[x] # "close"
  PROVE  /\ kernel.current = t /\ Runnable(kernel, t) /\ mem[t] = "live"
         /\ kernel.timer[x] => kernel.stat[x] = "suspend"
         /\ mem[x] # "live" => kernel.stat[x] = "none" /\ kernel.next[x] = x
         /\ kernel.stat[x] = "init" => kernel.next[x] = x
         /\ call[t].at \notin Deleting
  <1>1. kernel.current = t /\ Runnable(kernel, t) /\ mem[t] = "live"
    BY RunsFacts
  <1>2. ThreadOK(x)
    BY DEF IInv, ThreadInv
  <1>3. kernel.stat[x] = "init" => kernel.next[x] = x
    BY Types DEF Whole
  <1>4. call[t].at \notin Deleting
    BY DEF Runs, Deleting
  <1>5. QED
    BY <1>1, <1>2, <1>3, <1>4 DEF ThreadOK

LEMMA StartupKept ==
  ASSUME IInv, NEW t \in Threads, NEW w \in Threads, Startup(t, w)
  PROVE  IInv'
  <1>1. /\ t = Manager /\ Runs(t, "run") /\ w \notin {Idle, Manager} /\ Goes(Manager, "resume", w)
        /\ mem[w] = "live" /\ kernel.stat[w] = "init" /\ UNCHANGED mem
        /\ kernel' = [kernel EXCEPT !.stat[w] = "suspend"]
    BY DEF Startup, Begins
  <1>2. /\ kernel.current = Manager /\ Runnable(kernel, Manager) /\ mem[Manager] = "live"
        /\ ~kernel.timer[w] /\ kernel.next[w] = w /\ call[Manager].at \notin Deleting
    BY <1>1, BeginFacts
  <1>3. /\ kernel' \in KernelType /\ kernel'.stat = [kernel.stat EXCEPT ![w] = "suspend"]
        /\ kernel'.next = kernel.next /\ kernel'.prev = kernel.prev /\ kernel'.group = kernel.group
        /\ kernel'.current = kernel.current /\ kernel'.timer = kernel.timer
    BY <1>1, Types DEF KernelType, Stats
  <1>4. OthersStat(kernel.stat, kernel'.stat, w) /\ kernel'.stat[w] = "suspend"
    BY <1>3, Types DEF KernelType, Stats, OthersStat
  <1>5. Sound(kernel') /\ Others(kernel, kernel', w)
    BY <1>2, <1>3, <1>4, Types, StateSound
  <1>6. "resume" \in Places /\ "resume" \in Resuming /\ "resume" \notin Deleting
    BY DEF Places, Resuming, Deleting
  <1>7. QED
    BY <1>1, <1>2, <1>3, <1>4, <1>5, <1>6, CallKept

LEMMA ResumeKept ==
  ASSUME IInv, NEW t \in Threads, NEW w \in Threads, Resume(t, w)
  PROVE  IInv'
  <1>1. /\ t = Manager /\ Runs(t, "run") /\ w \notin {Idle, Manager} /\ Goes(Manager, "resume", w)
        /\ mem[w] = "live" /\ kernel.stat[w] = "suspend" /\ kernel.next[w] = w /\ ~kernel.timer[w]
        /\ kernel' = kernel /\ mem' = mem
    BY DEF Resume, Begins, Parked
  <1>2. kernel.current = Manager /\ Runnable(kernel, Manager) /\ mem[Manager] = "live"
        /\ call[Manager].at \notin Deleting
    BY <1>1, BeginFacts
  <1>3. Sound(kernel') /\ Others(kernel, kernel', w)
    BY <1>1, Types, Untouched
  <1>4. "resume" \in Places /\ "resume" \in Resuming /\ "resume" \notin Deleting
    BY DEF Places, Resuming, Deleting
  <1>5. QED
    BY <1>1, <1>2, <1>3, <1>4, CallKept

LEMMA ResumeCheckKept ==
  ASSUME IInv, NEW t \in Threads, ResumeCheck(t)
  PROVE  IInv'
  <1>1. PICK x : x = call[t].on
    OBVIOUS
  <1>2. "resume" \in Resuming /\ Runs(t, "resume")
    BY DEF Resuming, ResumeCheck
  <1>3. /\ t = Manager /\ kernel.current = Manager /\ Runnable(kernel, Manager)
        /\ mem[Manager] = "live" /\ x \in Threads /\ x \notin {Idle, Manager}
        /\ kernel.next[x] = x /\ ~kernel.timer[x] /\ kernel.stat[x] = "suspend" /\ mem[x] = "live"
        /\ call[Manager].at \in Deleting => call[Manager].on = x
    BY <1>1, <1>2, CallFacts
  <1>4. kernel' = kernel /\ mem' = mem /\ Goes(Manager, "resume_remove", x)
    BY <1>1, <1>3 DEF ResumeCheck, Section
  <1>5. Sound(kernel') /\ Others(kernel, kernel', x)
    BY <1>4, Types, Untouched
  <1>6. "resume_remove" \in Places /\ "resume_remove" \in Resuming /\ "resume_remove" \notin Deleting
    BY DEF Places, Resuming, Deleting
  <1>7. QED
    BY <1>3, <1>4, <1>5, <1>6, CallKept

LEMMA ResumeRemoveKept ==
  ASSUME IInv, NEW t \in Threads, ResumeRemove(t)
  PROVE  IInv'
  <1>1. PICK x : x = call[t].on
    OBVIOUS
  <1>2. "resume_remove" \in Resuming /\ Runs(t, "resume_remove")
    BY DEF Resuming, ResumeRemove
  <1>3. /\ t = Manager /\ kernel.current = Manager /\ Runnable(kernel, Manager)
        /\ mem[Manager] = "live" /\ x \in Threads /\ x \notin {Idle, Manager}
        /\ kernel.stat[x] = "suspend" /\ mem[x] = "live"
        /\ call[Manager].at \in Deleting => call[Manager].on = x
    BY <1>1, <1>2, CallFacts
  <1>4. kernel' = ResumeSection(kernel, x) /\ mem' = mem /\ Goes(Manager, "resume_insert", x)
    BY <1>1, <1>3 DEF ResumeRemove, Section
  <1>5. /\ Sound(kernel') /\ Others(kernel, kernel', x) /\ kernel'.next[x] = x
        /\ kernel'.stat[x] = "suspend" /\ kernel'.timer[x] = FALSE
    BY <1>3, <1>4, Types, ResumeSound
  <1>6. "resume_insert" \in Places /\ "resume_insert" \in Resuming /\ "resume_insert" \notin Deleting
    BY DEF Places, Resuming, Deleting
  <1>7. QED
    BY <1>3, <1>4, <1>5, <1>6, CallKept

LEMMA ResumeInsertKept ==
  ASSUME IInv, NEW t \in Threads, ResumeInsert(t)
  PROVE  IInv'
  <1>1. PICK x : x = call[t].on
    OBVIOUS
  <1>2. "resume_insert" \in Resuming /\ Runs(t, "resume_insert")
    BY DEF Resuming, ResumeInsert
  <1>3. /\ t = Manager /\ kernel.current = Manager /\ Runnable(kernel, Manager)
        /\ mem[Manager] = "live" /\ x \in Threads /\ x \notin {Idle, Manager}
        /\ kernel.next[x] = x /\ ~kernel.timer[x] /\ kernel.stat[x] = "suspend" /\ mem[x] = "live"
        /\ call[Manager].at \in Deleting => call[Manager].on = x
    BY <1>1, <1>2, CallFacts
  <1>4. kernel' = ScheduleInsert(kernel, x) /\ mem' = mem /\ Goes(Manager, "schedule", x)
    BY <1>1, <1>3 DEF ResumeInsert, Section
  <1>5. Sound(kernel') /\ Others(kernel, kernel', x) /\ kernel'.timer = kernel.timer
        /\ Runnable(kernel', x)
    BY <1>3, <1>4, Types, ScheduleInsertSound
  <1>6. "schedule" \in Places /\ "schedule" \notin Resuming \union Deleting
    BY DEF Places, Resuming, Deleting
  <1>7. QED
    BY <1>3, <1>4, <1>5, <1>6, CallKept

LEMMA SuspendKept ==
  ASSUME IInv, NEW t \in Threads, NEW w \in Threads, Suspend(t, w)
  PROVE  IInv'
  <1>1. /\ Runs(t, "run") /\ t # Idle /\ Goes(t, "suspend", w) /\ w # Idle
        /\ mem[w] = "live" /\ kernel.stat[w] = "ready" /\ kernel' = kernel /\ mem' = mem
        /\ \/ w = t /\ t # Manager
           \/ t = Manager /\ Priority[t] < Priority[w]
    BY DEF Suspend
  <1>2. kernel.current = t /\ Runnable(kernel, t) /\ mem[t] = "live" /\ ~kernel.timer[w]
        /\ call[t].at \notin Deleting
    BY <1>1, BeginFacts
  <1>3. Sound(kernel') /\ Others(kernel, kernel', w)
    BY <1>1, Types, Untouched
  <1>4. "suspend" \in Places /\ "suspend" \notin Resuming \union Deleting
    BY DEF Places, Resuming, Deleting
  <1>5. CASE w = t /\ t # Manager
    <2>1. \A u \in Threads : u # w => mem'[u] = mem[u]
      BY <1>1
    <2>2. mem' \in [Threads -> {"live", "stackless", "absent"}]
      BY <1>1, Types
    <2>3. /\ TypeInv' /\ IdleInv' /\ \A u \in Threads : u # t => ThreadOK(u)'
          /\ ManagerInv' /\ kernel'.current = t
      BY <1>1, <1>2, <1>3, <1>4, <1>5, <2>1, <2>2, SectionFrame
    <2>4. call'[t].at = "suspend" /\ call'[t].on = t
      BY <1>1, <1>4, <1>5, Went
    <2>5. ThreadOK(t)'
      <3>1. ThreadOK(t)
        BY DEF IInv, ThreadInv
      <3>2. QED
        BY <1>1, <2>4, <3>1 DEF ThreadOK
    <2>6. RunInv'
      BY <1>1, <1>2, <2>3 DEF RunInv
    <2>7. ListInv'
      <3>1. InList(t)'
        BY <1>1, <1>2 DEF InList, Runnable
      <3>2. call'[Idle] = call[Idle] /\ call'[Manager] = call[Manager]
        BY <1>1, <1>4, <1>5, Went, Constants
      <3>3. Kept(kernel, kernel', t)
        BY <1>3, <1>5 DEF Others
      <3>4. QED
        BY <1>1, <3>1, <3>2, <3>3, ListFrame
    <2>8. QED
      BY <2>3, <2>5, <2>6, <2>7 DEF IInv, ThreadInv
  <1>6. CASE t = Manager /\ Priority[t] < Priority[w]
    <2>1. w \notin {Idle, Manager}
      <3>1. Priority[Manager] \in Nat
        BY Constants
      <3>2. QED
        BY <1>1, <1>6, <3>1
    <2>2. Runnable(kernel', w)
      <3>1. InList(w) /\ ~HalfDeleted(w)
        BY <1>2, <1>6 DEF IInv, ListInv, HalfDeleted, Deleting
      <3>2. QED
        BY <1>1, <3>1 DEF InList, Runnable
    <2>3. QED
      BY <1>1, <1>2, <1>3, <1>4, <1>6, <2>1, <2>2, CallKept
  <1>7. QED
    BY <1>1, <1>5, <1>6

LEMMA DeleteKept ==
  ASSUME IInv, NEW t \in Threads, NEW w \in Threads, Delete(t, w)
  PROVE  IInv'
  <1>1. /\ t = Manager /\ Runs(t, "run") /\ w \notin {Idle, Manager} /\ Goes(Manager, "delete_timer", w)
        /\ mem[w] = "live" /\ kernel.stat[w] # "close" /\ ~kernel.timer[w] /\ mem' = mem
        /\ kernel' = IF kernel.stat[w] = "init" THEN kernel ELSE ScheduleRemove(kernel, w)
    BY DEF Delete, Begins
  <1>2. /\ kernel.current = Manager /\ Runnable(kernel, Manager) /\ mem[Manager] = "live"
        /\ kernel.stat[w] = "init" => kernel.next[w] = w
        /\ call[Manager].at \notin Deleting
    BY <1>1, BeginFacts
  <1>3. /\ Sound(kernel') /\ Others(kernel, kernel', w) /\ kernel'.next[w] = w
        /\ kernel'.stat = kernel.stat /\ kernel'.timer = kernel.timer
    <2>1. CASE kernel.stat[w] = "init"
      BY <1>1, <1>2, <2>1, Types, Untouched
    <2>2. CASE kernel.stat[w] # "init"
      <3>1. OthersStat(kernel.stat, kernel.stat, w)
        BY Types DEF OthersStat, KernelType
      <3>2. QED
        BY <1>1, <2>2, <3>1, Types, ScheduleRemoveSound
    <2>3. QED
      BY <2>1, <2>2
  <1>4. "delete_timer" \in Places /\ "delete_timer" \in Deleting /\ "delete_timer" \notin Resuming
    BY DEF Places, Resuming, Deleting
  <1>5. QED
    BY <1>1, <1>2, <1>3, <1>4, CallKept

LEMMA DeleteTimerKept ==
  ASSUME IInv, NEW t \in Threads, DeleteTimer(t)
  PROVE  IInv'
  <1>1. PICK x : x = call[t].on
    OBVIOUS
  <1>2. "delete_timer" \in Deleting /\ Runs(t, "delete_timer")
    BY DEF Deleting, DeleteTimer
  <1>3. /\ t = Manager /\ kernel.current = Manager /\ Runnable(kernel, Manager)
        /\ mem[Manager] = "live" /\ x \in Threads /\ x \notin {Idle, Manager}
        /\ kernel.next[x] = x /\ kernel.stat[x] # "close"
        /\ mem[x] # "live" => kernel.stat[x] \in {"none", "close"}
        /\ call[Manager].at \in Deleting => call[Manager].on = x
    BY <1>1, <1>2, CallFacts
  <1>4. kernel' = [kernel EXCEPT !.timer[x] = FALSE] /\ mem' = mem /\ Goes(Manager, "delete_close", x)
    BY <1>1, <1>3 DEF DeleteTimer, Section
  <1>5. /\ Sound(kernel') /\ Others(kernel, kernel', x)
        /\ kernel'.timer[x] = FALSE /\ kernel'.stat = kernel.stat /\ kernel'.next = kernel.next
    <2>1. PICK b \in BOOLEAN : b = FALSE
      OBVIOUS
    <2>2. kernel' = [kernel EXCEPT !.timer[x] = b]
      BY <1>4, <2>1
    <2>3. QED
      BY <1>3, <2>1, <2>2, Types, TimerSound
  <1>6. "delete_close" \in Places /\ "delete_close" \in Deleting /\ "delete_close" \notin Resuming
    BY DEF Places, Resuming, Deleting
  <1>7. QED
    BY <1>3, <1>4, <1>5, <1>6, CallKept

LEMMA DetachStoreKept ==
  ASSUME IInv, NEW t \in Threads, DetachStore(t)
  PROVE  IInv'
  <1>1. PICK x : x = call[t].on
    OBVIOUS
  <1>2. "delete_close" \in Deleting /\ Runs(t, "delete_close") /\ Kind[x] # "dynamic"
    BY <1>1 DEF Deleting, DetachStore
  <1>3. /\ t = Manager /\ kernel.current = Manager /\ Runnable(kernel, Manager)
        /\ mem[Manager] = "live" /\ x \in Threads /\ x \notin {Idle, Manager}
        /\ kernel.next[x] = x /\ ~kernel.timer[x] /\ kernel.stat[x] # "close"
        /\ call[Manager].at \in Deleting => call[Manager].on = x
    BY <1>1, <1>2, CallFacts
  <1>4. /\ kernel' = [kernel EXCEPT !.stat[x] = "close"] /\ mem' = mem
        /\ Goes(Manager, "detach_insert", x)
    BY <1>1, <1>3 DEF DetachStore, Section
  <1>5. kernel \in KernelType /\ Sound(kernel)
    BY Types
  <1>6. /\ kernel'.next = kernel.next /\ kernel'.prev = kernel.prev /\ kernel'.group = kernel.group
        /\ kernel'.timer = kernel.timer /\ kernel'.current = kernel.current
        /\ kernel'.stat = [kernel.stat EXCEPT ![x] = "close"]
    BY <1>4, <1>5 DEF KernelType
  <1>7. /\ OthersStat(kernel.stat, kernel'.stat, x) /\ kernel'.stat[x] = "close"
        /\ kernel'.stat \in [Threads -> Stats]
    BY <1>3, <1>5, <1>6 DEF OthersStat, KernelType, Stats
  <1>8. kernel' \in KernelType
    BY <1>4, <1>5, <1>7 DEF KernelType
  <1>9. Sound(kernel') /\ Others(kernel, kernel', x)
    BY <1>3, <1>5, <1>6, <1>7, <1>8, StateSound
  <1>10. kernel'.next[x] = x /\ ~kernel'.timer[x]
    BY <1>3, <1>6
  <1>11. /\ "detach_insert" \in Places /\ "detach_insert" \in Deleting
         /\ "detach_insert" \notin Resuming
    BY DEF Places, Resuming, Deleting
  <1>12. QED
    BY <1>2, <1>3, <1>4, <1>7, <1>9, <1>10, <1>11, CallKept
----------------------------------------------------------------------------
LEMMA SuspendDoneKept ==
  ASSUME IInv, NEW t \in Threads, SuspendDone(t)
  PROVE  IInv'
  <1>1. PICK x : x = call[t].on
    OBVIOUS
  <1>2. /\ Runs(t, "suspend") /\ kernel' = SuspendSection(kernel, x)
        /\ Goes(t, "schedule", x) /\ UNCHANGED mem
    BY <1>1 DEF SuspendDone, Section
  <1>3. kernel.current = t /\ call[t].at = "suspend" /\ Runnable(kernel, t) /\ mem[t] = "live" /\ t # Idle
    BY <1>2, RunsFacts
  <1>4. x \in Threads
    BY <1>1, Types
  <1>5. x # Idle /\ kernel.stat[x] = "ready" /\ (x = t \/ t = Manager)
    <2>1. CASE t = Manager
      BY <1>1, <1>3, <2>1 DEF IInv, ManagerInv
    <2>2. CASE t # Manager
      <3>1. x = t
        BY <1>1, <1>3, <2>2 DEF IInv, ThreadInv, ThreadOK
      <3>2. QED
        BY <1>3, <3>1 DEF Runnable
    <2>3. QED
      BY <2>1, <2>2
  <1>6. Sound(kernel') /\ Others(kernel, kernel', x) /\ kernel'.stat[x] = "suspend"
    BY <1>2, <1>4, Types, SuspendSound
  <1>7. QED
    BY <1>2, <1>3, <1>4, <1>5, <1>6, SuspensionKept

LEMMA SleepKept ==
  ASSUME IInv, NEW t \in Threads, Sleep(t)
  PROVE  IInv'
  <1>1. PICK x \in Threads : x = call[t].on
    BY Types
  <1>2. PICK a : a = SuspendSection(kernel, t)
    OBVIOUS
  <1>3. /\ Runs(t, "run") /\ t # Idle /\ kernel' = [a EXCEPT !.timer[t] = TRUE]
        /\ Goes(t, "schedule", x) /\ UNCHANGED mem
    BY <1>1, <1>2 DEF Sleep, Section
  <1>4. kernel.current = t /\ Runnable(kernel, t) /\ mem[t] = "live" /\ kernel.stat[t] = "ready"
        /\ call[t].at = "run"
    BY <1>3, RunsFacts DEF Runnable
  <1>5. Sound(a) /\ Others(kernel, a, t) /\ a.stat[t] = "suspend"
    BY <1>2, Types, SuspendSound
  <1>6. Sound(kernel') /\ Others(a, kernel', t) /\ kernel'.stat = a.stat
    <2>1. PICK b \in BOOLEAN : b = TRUE
      OBVIOUS
    <2>2. kernel' = [a EXCEPT !.timer[t] = b]
      BY <1>3, <2>1
    <2>3. QED
      BY <1>5, <2>2, TimerSound
  <1>7. Others(kernel, kernel', t)
    BY <1>5, <1>6, OthersThrough
  <1>8. QED
    BY <1>3, <1>4, <1>5, <1>6, <1>7, SuspensionKept

LEMMA WaitKept ==
  ASSUME IInv, NEW t \in Threads, Wait(t)
  PROVE  IInv'
  <1>1. PICK x \in Threads : x = call[t].on
    BY Types
  <1>2. PICK a : a = SuspendSection(kernel, t)
    OBVIOUS
  <1>3. PICK b : b = InsertBefore(a, Waiters, t)
    OBVIOUS
  <1>4. PICK timed \in BOOLEAN : kernel' = [b EXCEPT !.timer[t] = timed]
    BY <1>2, <1>3 DEF Wait, Section
  <1>5. Runs(t, "run") /\ t # Idle /\ Goes(t, "schedule", x) /\ UNCHANGED mem
    BY <1>1 DEF Wait, Section
  <1>6. kernel.current = t /\ Runnable(kernel, t) /\ mem[t] = "live" /\ kernel.stat[t] = "ready"
        /\ call[t].at = "run"
    BY <1>5, RunsFacts DEF Runnable
  <1>7. Sound(a) /\ Others(kernel, a, t) /\ a.next[t] = t /\ a.stat[t] = "suspend"
    BY <1>2, Types, SuspendSound
  <1>8. Sound(b) /\ Others(a, b, t) /\ b.stat = a.stat
    BY <1>3, <1>7, WaitSound
  <1>9. Sound(kernel') /\ Others(b, kernel', t) /\ kernel'.stat = b.stat
    BY <1>4, <1>8, TimerSound
  <1>10. Others(kernel, kernel', t)
    BY <1>7, <1>8, <1>9, OthersThrough
  <1>11. QED
    BY <1>5, <1>6, <1>7, <1>8, <1>9, <1>10, SuspensionKept
----------------------------------------------------------------------------
\* The running thread t closes x, itself or on the manager's call.
LEMMA CloseKept ==
  ASSUME IInv, NEW t \in Threads, NEW x \in Threads, t # Idle, x # Idle, kernel.current = t,
         Sound(kernel'), Others(kernel, kernel', x),
         kernel.stat[x] # "close" \/ Kind[x] # "dynamic", kernel'.stat[x] = "close", kernel'.timer[x] = FALSE,
         Kind[x] = "static" <=> kernel'.next[x] = x,
         mem' = [mem EXCEPT ![x] = Remains(x)],
         call' \in [Threads -> [at : Places, on : Threads]],
         \A u \in Threads : u \notin {t, x} => call'[u] = call[u],
         \/ x = t /\ call[t].at = "run" /\ call'[t].at = "exit"
         \/ /\ x # t /\ t = Manager /\ call'[t].at = "run" /\ call'[x].at = "gone"
            /\ Runnable(kernel, t) /\ mem[t] = "live" /\ call[t].on = x
  PROVE  IInv'
  <1>1. Kept(kernel, kernel', x) /\ Chosen(kernel, kernel') /\ kernel'.current = t
    BY DEF Others, Chosen
  <1>2. mem'[x] = Remains(x) /\ (\A u \in Threads : u # x => mem'[u] = mem[u])
        /\ Remains(x) \in {"live", "absent"} /\ (Remains(x) = "absent" => Kind[x] = "static")
    BY Types DEF Remains
  <1>3. TypeInv'
    BY <1>2, Types DEF TypeInv
  <1>4. ThreadOK(x)'
    BY <1>2, Constants DEF ThreadOK
  <1>5. x # t => ThreadOK(t)'
    <2>1. SUFFICES ASSUME x # t PROVE ThreadOK(t)'
      OBVIOUS
    <2>2. ThreadOK(t) /\ kernel'.timer[t] = kernel.timer[t] /\ kernel'.stat[t] = kernel.stat[t]
      BY <2>1, <1>1 DEF IInv, ThreadInv, Kept
    <2>3. QED
      BY <1>2, <2>1, <2>2 DEF ThreadOK
  <1>6. \A u \in Threads : u \notin {t, x} => ThreadOK(u)'
    BY <1>1, <1>2, ThreadFrame
  <1>7. IdleInv'
    <2>1. call[Idle].at # "run" => call[Idle].on # x /\ mem'[call[Idle].on] = mem[call[Idle].on]
      BY <1>2, Types, Constants DEF IInv, IdleInv
    <2>2. call'[Idle] = call[Idle]
      BY Constants
    <2>3. QED
      BY <1>1, <2>1, <2>2, IdleFrame
  <1>8. RunInv'
    <2>1. CASE x = t
      BY <1>1, <1>2, <2>1 DEF RunInv
    <2>2. CASE x # t
      <3>1. Runnable(kernel', t)
        BY <1>1, <2>2 DEF Kept, Runnable
      <3>2. QED
        BY <1>1, <1>2, <2>2, <3>1 DEF RunInv
    <2>3. QED
      BY <2>1, <2>2
  <1>9. ManagerInv'
    <2>1. CASE t = Manager
      BY <1>1, <2>1 DEF ManagerInv, Resuming, Deleting
    <2>2. CASE t # Manager
      <3>1. call'[Manager] = call[Manager] /\ x = t
        BY <2>2, Constants
      <3>2. call[Manager].at \in Resuming \union Deleting \union {"suspend"} => call[Manager].on # x
        BY <3>1 DEF IInv, ManagerInv
      <3>3. QED
        BY <1>1, <2>2, <3>1, <3>2, ManagerFrame
    <2>3. QED
      BY <2>1, <2>2
  <1>10. ListInv'
    <2>1. InList(x)'
      BY <1>2, Constants DEF InList, Remains
    <2>2. call'[Idle] = call[Idle]
      BY Constants
    <2>3. call'[Manager] = call[Manager] \/ call[Manager].at \notin Deleting \/ call[Manager].on = x
      BY Constants DEF Deleting
    <2>4. QED
      BY <1>1, <1>2, <2>1, <2>2, <2>3, ListFrame
  <1>11. QED
    BY <1>3, <1>4, <1>5, <1>6, <1>7, <1>8, <1>9, <1>10 DEF IInv, ThreadInv

LEMMA DeleteCloseKept ==
  ASSUME IInv, NEW t \in Threads, DeleteClose(t)
  PROVE  IInv'
  <1>1. PICK x : x = call[t].on
    OBVIOUS
  <1>2. PICK at \in Resuming \union Deleting : Runs(t, at) /\ at \in Deleting
    BY DEF Deleting, DeleteClose
  <1>3. /\ t = Manager /\ kernel.current = Manager /\ Runnable(kernel, Manager)
        /\ mem[Manager] = "live" /\ x \in Threads /\ x \notin {Idle, Manager}
        /\ kernel.next[x] = x /\ ~kernel.timer[x]
        /\ at = "detach_insert" \/ kernel.stat[x] # "close"
        /\ at = "detach_insert" => Kind[x] # "dynamic"
    BY <1>1, <1>2, CallFacts
  <1>4. kernel' = Closed(kernel, x) /\ mem' = [mem EXCEPT ![x] = Remains(x)]
    BY <1>1 DEF DeleteClose
  <1>5. /\ Sound(kernel') /\ Others(kernel, kernel', x) /\ kernel'.stat[x] = "close"
        /\ kernel'.timer = kernel.timer
        /\ Kind[x] = "static" <=> kernel'.next[x] = x
    BY <1>3, <1>4, Types, ClosedSound
  <1>6. kernel'.timer[x] = FALSE
    BY <1>3, <1>5, Types
  <1>7. call' = [call EXCEPT ![t] = [at |-> "run", on |-> t], ![x].at = "gone"]
    BY <1>1 DEF DeleteClose
  <1>8. "run" \in Places /\ "gone" \in Places
    BY DEF Places
  <1>9. /\ call' \in [Threads -> [at : Places, on : Threads]]
        /\ \A u \in Threads : u \notin {t, x} => call'[u] = call[u]
        /\ call'[t].at = "run" /\ call'[x].at = "gone"
    BY <1>3, <1>7, <1>8, Types
  <1>10. /\ t # Idle /\ x # Idle /\ kernel.current = t
         /\ x # t /\ t = Manager /\ Runnable(kernel, t) /\ mem[t] = "live" /\ call[t].on = x
    BY <1>1, <1>3, Constants
  <1>11. x \in Threads /\ (kernel.stat[x] # "close" \/ Kind[x] # "dynamic")
    BY <1>3
  <1>12. QED
    BY <1>4, <1>5, <1>6, <1>9, <1>10, <1>11, CloseKept

LEMMA ExitKept ==
  ASSUME IInv, NEW t \in Threads, Exit(t)
  PROVE  IInv'
  <1>1. PICK a : a = ScheduleRemove(kernel, t)
    OBVIOUS
  <1>2. PICK b : b = Closed(a, t)
    OBVIOUS
  <1>3. /\ Runs(t, "run") /\ t # Idle /\ Goes(t, "exit", t)
        /\ kernel' = [b EXCEPT !.timer[t] = FALSE] /\ mem' = [mem EXCEPT ![t] = Remains(t)]
    BY <1>1, <1>2 DEF Exit
  <1>4. kernel.current = t /\ kernel.stat[t] = "ready" /\ call[t].at = "run"
    BY <1>3, RunsFacts DEF Runnable
  <1>5. Sound(a) /\ Others(kernel, a, t) /\ a.next[t] = t
    <2>1. OthersStat(kernel.stat, kernel.stat, t)
      BY Types DEF OthersStat, KernelType
    <2>2. QED
      BY <1>1, <2>1, Types, ScheduleRemoveSound
  <1>6. /\ Sound(b) /\ Others(a, b, t) /\ b.stat[t] = "close"
        /\ Kind[t] = "static" <=> b.next[t] = t
    BY <1>2, <1>5, ClosedSound
  <1>7. /\ Sound(kernel') /\ Others(b, kernel', t)
        /\ kernel'.timer[t] = FALSE /\ kernel'.stat = b.stat /\ kernel'.next = b.next
    <2>1. PICK f \in BOOLEAN : f = FALSE
      OBVIOUS
    <2>2. kernel' = [b EXCEPT !.timer[t] = f]
      BY <1>3, <2>1
    <2>3. QED
      BY <1>6, <2>1, <2>2, TimerSound
  <1>8. Others(kernel, kernel', t)
    BY <1>5, <1>6, <1>7, OthersThrough
  <1>9. "exit" \in Places
    BY DEF Places
  <1>10. /\ call' \in [Threads -> [at : Places, on : Threads]] /\ call'[t].at = "exit"
         /\ \A u \in Threads : u # t => call'[u] = call[u]
    BY <1>3, <1>9, Went
  <1>11. QED
    BY <1>3, <1>4, <1>6, <1>7, <1>8, <1>10, CloseKept
----------------------------------------------------------------------------
LEMMA CallScheduleKept ==
  ASSUME IInv, NEW t \in Threads, CallSchedule(t)
  PROVE  IInv'
  <1>1. kernel' = Schedule(kernel) /\ mem' = mem
    BY DEF CallSchedule
  <1>2. PICK from \in {"schedule", "exit"}, to \in {"run", "gone"}, on \in Threads :
          Runs(t, from) /\ Goes(t, to, on) /\ (to = "gone" => from = "exit")
    BY DEF CallSchedule
  <1>3. /\ t # Idle /\ kernel.current = t /\ call[t].at = from
        /\ call[Idle].at # "run" => call[Idle].on # t
    BY <1>2, RunsFacts
  <1>4. "run" \in Places /\ "gone" \in Places /\ to \in Places
    BY <1>2 DEF Places
  <1>5. /\ call' \in [Threads -> [at : Places, on : Threads]] /\ call'[t].at = to
        /\ \A u \in Threads : u # t => call'[u] = call[u]
    BY <1>2, <1>4, Went
  <1>6. /\ Sound(kernel') /\ kernel'.next = kernel.next /\ kernel'.stat = kernel.stat
        /\ kernel'.timer = kernel.timer /\ Runnable(kernel', kernel'.current)
        /\ \A u \in Threads : Runnable(kernel', u) => Priority[kernel'.current] <= Priority[u]
    <2>1. \E u \in Threads : Runnable(kernel, u)
      BY Constants DEF IInv, IdleInv
    <2>2. QED
      BY <1>1, <2>1, Types, ScheduleSound
  <1>7. Kept(kernel, kernel', t) /\ Chosen(kernel, kernel')
    BY <1>6 DEF Kept, Chosen, Runnable
  <1>8. TypeInv'
    BY <1>1, <1>5, <1>6, Types DEF TypeInv
  <1>9. ThreadInv'
    <2>1. ThreadOK(t)'
      <3>1. ThreadOK(t)
        BY DEF IInv, ThreadInv
      <3>2. to = "gone" => kernel.stat[t] = "close"
        BY <1>2, <1>3, <3>1 DEF ThreadOK
      <3>3. QED
        BY <1>1, <1>2, <1>5, <1>6, <3>1, <3>2 DEF ThreadOK
    <2>2. \A u \in Threads : u # t => ThreadOK(u)'
      BY <1>1, <1>5, <1>7, ThreadFrame
    <2>3. QED
      BY <2>1, <2>2 DEF ThreadInv
  <1>10. RunInv'
    BY <1>6, <1>9, RunChosen
  <1>11. IdleInv'
    BY <1>1, <1>3, <1>5, <1>6, <1>7, IdleFrame, Constants
  <1>12. ManagerInv'
    <2>1. CASE t = Manager
      BY <1>2, <1>5, <2>1 DEF ManagerInv, Resuming, Deleting
    <2>2. CASE t # Manager
      <3>1. call'[Manager] = call[Manager]
        BY <1>5, <2>2, Constants
      <3>2. call[Manager].at \in Resuming \union Deleting \union {"suspend"} => call[Manager].on # t
        BY <1>3 DEF IInv, ManagerInv
      <3>3. QED
        BY <1>6, <1>7, <2>2, <3>1, <3>2, ManagerFrame
    <2>3. QED
      BY <2>1, <2>2
  <1>13. ListInv'
    <2>1. call'[Idle] = call[Idle] /\ (call'[Manager] = call[Manager] \/ call[Manager].at \notin Deleting)
      BY <1>2, <1>3, <1>5, Constants DEF Deleting
    <2>2. InList(t)'
      <3>1. InList(t) /\ kernel'.stat[t] = kernel.stat[t] /\ kernel'.next[t] = kernel.next[t]
        BY <1>6 DEF IInv, ListInv
      <3>2. (HalfDeleted(t) => HalfDeleted(t)') /\ (BeingFreed(t) => BeingFreed(t)')
        BY <2>1 DEF HalfDeleted, BeingFreed, Deleting
      <3>3. QED
        BY <1>1, <3>1, <3>2 DEF InList
    <2>3. QED
      BY <1>1, <1>7, <2>1, <2>2, ListFrame
  <1>14. QED
    BY <1>8, <1>9, <1>10, <1>11, <1>12, <1>13 DEF IInv

LEMMA CreateKept ==
  ASSUME IInv, NEW t \in Threads, NEW w \in Threads, Create(t, w)
  PROVE  IInv'
  <1>1. /\ t = Manager /\ Runs(t, "run") /\ mem[w] = "absent" /\ w # Manager
        /\ call' = [call EXCEPT ![w] = [at |-> "run", on |-> w]]
        /\ mem' = [mem EXCEPT ![w] = "live"]
        /\ kernel' = [kernel EXCEPT !.next[w] = w, !.prev[w] = w, !.stat[w] = "init", !.timer[w] = FALSE]
    BY DEF Create
  <1>2. /\ kernel.current = Manager /\ call[Manager].at = "run"
        /\ Runnable(kernel, Manager) /\ mem[Manager] = "live"
    BY <1>1, RunsFacts
  <1>3. kernel.stat[w] \in {"none", "close"} /\ kernel.next[w] = w
    BY <1>1 DEF IInv, ThreadInv, ThreadOK
  <1>4. kernel.prev[w] = w
    BY <1>3, Types, Neighbours, Constants
  <1>5. w # Idle
    BY <1>3 DEF IInv, IdleInv, Runnable
  <1>6. /\ kernel' \in KernelType /\ kernel'.next = kernel.next /\ kernel'.prev = kernel.prev
        /\ kernel'.group = kernel.group /\ kernel'.current = kernel.current
        /\ kernel'.stat = [kernel.stat EXCEPT ![w] = "init"]
        /\ kernel'.timer = [kernel.timer EXCEPT ![w] = FALSE]
    <2>1. kernel.next = [kernel.next EXCEPT ![w] = w] /\ kernel.prev = [kernel.prev EXCEPT ![w] = w]
      BY <1>3, <1>4, Types, Constants DEF KernelType
    <2>2. QED
      BY <1>1, <2>1, Types, Constants DEF KernelType, Stats
  <1>7. /\ OthersStat(kernel.stat, kernel'.stat, w) /\ kernel'.stat[w] = "init" /\ kernel'.timer[w] = FALSE
        /\ \A u \in Threads : u # w => kernel'.timer[u] = kernel.timer[u]
    BY <1>6, Types DEF KernelType, Stats, OthersStat
  <1>8. Sound(kernel') /\ Others(kernel, kernel', w)
    BY <1>3, <1>6, <1>7, Types, StateSound
  <1>9. Kept(kernel, kernel', w) /\ Chosen(kernel, kernel') /\ kernel'.current = Manager
    BY <1>2, <1>8 DEF Others, Chosen
  <1>10. /\ call' \in [Threads -> [at : Places, on : Threads]] /\ call'[w].at = "run" /\ call'[w].on = w
         /\ \A u \in Threads : u # w => call'[u] = call[u]
    BY <1>1, Types DEF Places
  <1>11. /\ mem' \in [Threads -> {"live", "stackless", "absent"}] /\ mem'[w] = "live"
         /\ \A u \in Threads : u # w => mem'[u] = mem[u]
    BY <1>1, Types
  <1>12. TypeInv'
    BY <1>8, <1>10, <1>11 DEF TypeInv
  <1>13. ThreadInv'
    <2>1. ThreadOK(w)'
      BY <1>7, <1>10, <1>11 DEF ThreadOK
    <2>2. \A u \in Threads : u # w => ThreadOK(u)'
      BY <1>9, <1>10, <1>11, ThreadFrame
    <2>3. QED
      BY <2>1, <2>2 DEF ThreadInv
  <1>14. IdleInv'
    <2>1. call[Idle].at # "run" => call[Idle].on # w /\ mem'[call[Idle].on] = mem[call[Idle].on]
      BY <1>1, <1>11, Types, Constants DEF IInv, IdleInv
    <2>2. QED
      BY <1>5, <1>8, <1>9, <1>10, <2>1, IdleFrame, Constants
  <1>15. RunInv'
    <2>1. Runnable(kernel', Manager) /\ mem'[Manager] = "live"
      BY <1>1, <1>2, <1>9, <1>11, Constants DEF Kept, Runnable
    <2>2. QED
      BY <1>9, <2>1 DEF RunInv
  <1>16. ManagerInv'
    <2>1. call'[Manager].at = "run"
      BY <1>1, <1>2, <1>10, Constants
    <2>2. QED
      BY <2>1 DEF ManagerInv, Resuming, Deleting
  <1>17. ListInv'
    <2>1. InList(w)'
      BY <1>7 DEF InList
    <2>2. call'[Idle] = call[Idle] /\ call'[Manager] = call[Manager]
      BY <1>1, <1>5, <1>10, Constants
    <2>3. QED
      BY <1>9, <1>11, <2>1, <2>2, ListFrame
  <1>18. QED
    BY <1>12, <1>13, <1>14, <1>15, <1>16, <1>17 DEF IInv

LEMMA IdleTakeKept == IInv /\ IdleTake => IInv'
  <1>1. SUFFICES ASSUME IInv, IdleTake PROVE IInv'
    OBVIOUS
  <1>2. PICK w : w = kernel.next[Defunct]
    OBVIOUS
  <1>3. Runs(Idle, "run") /\ kernel.next[Defunct] # Defunct /\ kernel' = Schedule(Removed(kernel, w))
    BY <1>1, <1>2 DEF IdleTake, Empty
  <1>4. /\ w \in Threads /\ kernel.next[w] # w /\ ListOf(w, kernel.stat[w]) = Defunct
        /\ kernel.stat[w] \in {"ready", "suspend", "close"}
    BY <1>1, <1>2, <1>3, Types, FirstOf, Constants
  <1>5. kernel.stat[w] = "close"
    BY <1>4, Constants DEF ListOf
  <1>6. PICK to \in {"free_stack", "run"}, on \in Threads :
          Goes(Idle, to, on) /\ (to = "free_stack" => on = w /\ mem' = mem /\ Kind[w] = "dynamic")
          /\ (to = "run" => mem' = [mem EXCEPT ![w] = "absent"])
    BY <1>1, <1>2, <1>4, Constants DEF IdleTake
  <1>7. mem' = mem \/ mem' = [mem EXCEPT ![w] = "absent"]
    BY <1>1, <1>2 DEF IdleTake
  <1>8. w # Idle /\ kernel.current = Idle /\ mem[w] = "live" /\ kernel.timer[w] = FALSE
    BY <1>1, <1>3, <1>4, <1>5, Types DEF IInv, IdleInv, ThreadInv, ThreadOK, Runs, Runnable
  <1>9. PICK e : e = Removed(kernel, w)
    OBVIOUS
  <1>10. /\ Sound(e) /\ Others(kernel, e, w) /\ e.next[w] = w
         /\ e.stat = kernel.stat /\ e.timer = kernel.timer
    <2>1. ~Runnable(kernel, w)
      BY <1>5 DEF Runnable
    <2>2. QED
      BY <1>1, <1>4, <1>9, <2>1, Types, RemovedSound
  <1>11. Runnable(e, Idle)
    BY <1>1, <1>8, <1>10, Constants DEF IInv, IdleInv, Others, Kept, Runnable
  <1>12. /\ Sound(kernel') /\ kernel'.next = e.next /\ kernel'.stat = e.stat /\ kernel'.timer = e.timer
         /\ kernel'.current \in Threads /\ Runnable(kernel', kernel'.current)
         /\ \A u \in Threads : Runnable(kernel', u) => Priority[kernel'.current] <= Priority[u]
    BY <1>3, <1>9, <1>10, <1>11, ScheduleSound, Constants
  <1>13. Kept(kernel, kernel', w) /\ Chosen(kernel, kernel') /\ Runnable(kernel', Idle)
    BY <1>10, <1>11, <1>12 DEF Others, Kept, Chosen, Runnable
  <1>14. "free_stack" \in Places /\ "run" \in Places /\ to \in Places
    BY <1>6 DEF Places
  <1>15. /\ call' \in [Threads -> [at : Places, on : Threads]]
         /\ call'[Idle].at = to /\ call'[Idle].on = on
         /\ \A u \in Threads : u # Idle => call'[u] = call[u]
    BY <1>1, <1>6, <1>14, Went, Constants
  <1>16. /\ mem' \in [Threads -> {"live", "stackless", "absent"}]
         /\ \A u \in Threads : u # w => mem'[u] = mem[u]
    BY <1>1, <1>7, Types
  <1>17. TypeInv'
    BY <1>12, <1>15, <1>16 DEF TypeInv
  <1>18. ThreadInv'
    <2>1. ThreadOK(w)'
      <3>1. kernel'.timer[w] = FALSE /\ kernel'.stat[w] = "close" /\ kernel'.next[w] = w
        BY <1>5, <1>8, <1>10, <1>12
      <3>2. ThreadOK(w) /\ call'[w] = call[w]
        BY <1>1, <1>4, <1>8, <1>15 DEF IInv, ThreadInv
      <3>3. QED
        BY <3>1, <3>2 DEF ThreadOK
    <2>2. ThreadOK(Idle)'
      <3>1. ThreadOK(Idle)
        BY <1>1, Constants DEF IInv, ThreadInv
      <3>2. /\ kernel'.timer[Idle] = kernel.timer[Idle] /\ kernel'.stat[Idle] = "ready"
            /\ mem'[Idle] = mem[Idle] /\ kernel.stat[Idle] = "ready"
        BY <1>1, <1>8, <1>10, <1>12, <1>13, <1>16, Constants DEF Runnable
      <3>3. QED
        BY <1>6, <1>15, <3>1, <3>2 DEF ThreadOK
    <2>3. \A u \in Threads : u \notin {Idle, w} => ThreadOK(u)'
      BY <1>1, <1>4, <1>13, <1>15, <1>16, ThreadFrame
    <2>4. QED
      BY <2>1, <2>2, <2>3 DEF ThreadInv
  <1>19. RunInv'
    BY <1>12, <1>18, RunChosen
  <1>20. IdleInv'
    <2>1. w # kernel'.current /\ kernel'.stat[w] = "close" /\ kernel'.next[w] = w
      BY <1>5, <1>10, <1>12 DEF Runnable
    <2>2. CASE to = "run"
      BY <1>13, <1>15, <2>2 DEF IdleInv
    <2>3. CASE to = "free_stack"
      BY <1>6, <1>8, <1>13, <1>15, <2>1, <2>3 DEF IdleInv
    <2>4. QED
      BY <1>6, <2>2, <2>3
  <1>21. ManagerInv'
    <2>1. call'[Manager] = call[Manager]
      BY <1>15, Constants
    <2>2. call[Manager].at \in Resuming \union Deleting \union {"suspend"} => call[Manager].on # w
      BY <1>1, <1>4, <1>5 DEF IInv, ManagerInv
    <2>3. call[Manager].at = "suspend" => w # Manager
      BY <1>1, <1>5 DEF IInv, ManagerInv, Runnable
    <2>4. QED
      BY <1>1, <1>4, <1>12, <1>13, <2>1, <2>2, <2>3, ManagerFrame
  <1>22. ListInv'
    <2>1. InList(w)'
      <3>1. kernel'.stat[w] = "close"
        BY <1>5, <1>10, <1>12
      <3>2. to = "free_stack" => BeingFreed(w)'
        BY <1>6, <1>15 DEF BeingFreed
      <3>3. to = "run" => mem'[w] = "absent"
        BY <1>1, <1>4, <1>6, Types
      <3>4. QED
        BY <1>6, <3>1, <3>2, <3>3 DEF InList
    <2>2. call'[Manager] = call[Manager] /\ call[Idle].at # "free_stack"
      BY <1>3, <1>15, Constants DEF Runs
    <2>3. QED
      BY <1>1, <1>4, <1>13, <1>16, <2>1, <2>2, ListFrame
  <1>23. QED
    BY <1>17, <1>18, <1>19, <1>20, <1>21, <1>22 DEF IInv

\* The idle thread frees the stack, or the control block.
LEMMA FreeKept ==
  ASSUME IInv, FreeStack \/ FreeObject
  PROVE  IInv'
  <1>1. PICK w : w = call[Idle].on
    OBVIOUS
  <1>2. PICK from \in {"free_stack", "free_object"}, to \in {"free_object", "run"}, on \in Threads,
             left \in {"stackless", "absent"} :
          /\ Runs(Idle, from) /\ Goes(Idle, to, on) /\ mem' = [mem EXCEPT ![w] = left]
          /\ to # "run" => on = w /\ left = "stackless"
    <2>1. w \in Threads
      BY <1>1, Types, Constants
    <2>2. QED
      BY <1>1, <2>1, Constants DEF FreeStack, FreeObject
  <1>3. kernel' = kernel
    BY DEF FreeStack, FreeObject
  <1>4. w \in Threads
    BY <1>1, Types, Constants
  <1>5. kernel.current = Idle /\ call[Idle].at = from /\ mem[Idle] = "live" /\ Runnable(kernel, Idle)
    BY <1>2, RunsFacts, Constants
  <1>6. kernel.stat[w] = "close" /\ kernel.next[w] = w /\ w # Idle /\ Kind[w] = "dynamic"
    BY <1>1, <1>2, <1>5 DEF IInv, IdleInv
  <1>7. to \in Places
    BY <1>2 DEF Places
  <1>8. /\ call' \in [Threads -> [at : Places, on : Threads]]
        /\ call'[Idle].at = to /\ call'[Idle].on = on
        /\ \A u \in Threads : u # Idle => call'[u] = call[u]
    BY <1>2, <1>7, Went, Constants
  <1>9. /\ mem' \in [Threads -> {"live", "stackless", "absent"}] /\ mem'[w] = left
        /\ \A u \in Threads : u # w => mem'[u] = mem[u]
    BY <1>2, <1>4, Types
  <1>10. TypeInv'
    BY <1>3, <1>8, <1>9, Types DEF TypeInv
  <1>11. ThreadInv'
    <2>1. SUFFICES ASSUME NEW u \in Threads PROVE ThreadOK(u)'
      BY DEF ThreadInv
    <2>2. ThreadOK(u)
      BY DEF IInv, ThreadInv
    <2>3. CASE u = w
      BY <1>3, <1>6, <1>8, <2>2, <2>3 DEF ThreadOK
    <2>4. CASE u = Idle
      <3>1. mem'[u] = "live" /\ call'[u].at \in {"free_object", "run"}
        BY <1>2, <1>5, <1>6, <1>8, <1>9, <2>4
      <3>2. QED
        BY <1>3, <2>2, <2>4, <3>1 DEF ThreadOK
    <2>5. CASE u \notin {w, Idle}
      BY <1>3, <1>8, <1>9, <2>2, <2>5 DEF ThreadOK
    <2>6. QED
      BY <2>3, <2>4, <2>5
  <1>12. IdleInv'
    <2>1. Runnable(kernel', Idle)
      BY <1>3, <1>5
    <2>2. CASE to = "run"
      BY <1>8, <2>1, <2>2 DEF IdleInv
    <2>3. CASE to = "free_object"
      BY <1>2, <1>3, <1>5, <1>6, <1>8, <1>9, <2>1, <2>3 DEF IdleInv
    <2>4. QED
      BY <1>2, <2>2, <2>3
  <1>13. RunInv'
    <2>1. kernel'.current = Idle /\ Runnable(kernel', Idle) /\ mem'[Idle] = "live"
      BY <1>3, <1>5, <1>6, <1>9, Constants
    <2>2. QED
      BY <2>1 DEF RunInv
  <1>14. ManagerInv'
    <2>1. call'[Manager] = call[Manager]
      BY <1>8, Constants
    <2>2. QED
      BY <1>3, <2>1 DEF IInv, ManagerInv, Runnable
  <1>15. ListInv'
    <2>1. InList(w)'
      BY <1>2, <1>3, <1>6, <1>9 DEF InList
    <2>2. Kept(kernel, kernel', w) /\ call'[Manager] = call[Manager]
      BY <1>3, <1>8, Constants DEF Kept
    <2>3. QED
      BY <1>1, <1>4, <1>9, <2>1, <2>2, ListFrame
  <1>16. QED
    BY <1>10, <1>11, <1>12, <1>13, <1>14, <1>15 DEF IInv
----------------------------------------------------------------------------
LEMMA InvKept == IInv /\ [Next]_vars => IInv'
  <1>1. SUFFICES ASSUME IInv, [Next]_vars PROVE IInv'
    OBVIOUS
  <1>2. CASE Tick
    BY <1>1, <1>2, TickKept
  <1>3. CASE IsrRelease
    BY <1>1, <1>3, IsrReleaseKept
  <1>4. CASE IdleStep
    BY <1>1, <1>4, IdleTakeKept, FreeKept DEF IdleStep
  <1>5. ASSUME NEW t \in Threads, Step(t) PROVE IInv'
    BY <1>1, <1>5, ResumeCheckKept, ResumeRemoveKept, ResumeInsertKept, SuspendDoneKept,
       DeleteTimerKept, DetachStoreKept, DeleteCloseKept, ExitKept, SleepKept, WaitKept,
       CallScheduleKept DEF Step
  <1>6. ASSUME NEW t \in Threads, Expire(t) PROVE IInv'
    BY <1>1, <1>6, ExpireKept
  <1>7. ASSUME NEW t \in Threads, NEW w \in Threads, CallOn(t, w) PROVE IInv'
    BY <1>1, <1>7, CreateKept, StartupKept, ResumeKept, SuspendKept, DeleteKept DEF CallOn
  <1>8. CASE UNCHANGED vars
    BY <1>1, <1>8, StutterKept
  <1>9. QED
    BY <1>1, <1>2, <1>3, <1>4, <1>5, <1>6, <1>7, <1>8 DEF Next

\* The invariant holds in every state the kernel reaches, whatever call was interrupted
\* where: the links of the lists agree both ways, the nodes of a list are of one state,
\* the priority group names the lists that are not empty, and what a call in between
\* its sections relies on stays so.
THEOREM Invariance == Spec => []IInv
  <1>1. QED
    BY InvStarts, InvKept, PTL DEF Spec

\* The thread rt_schedule would find is ready, exists and has not exited, and who runs
\* its own code is ready, for every set of threads and priorities.
THEOREM AlwaysPicksReady == Spec => []PicksReady
  <1>1. IInv => PicksReady
    <2>1. SUFFICES ASSUME IInv PROVE PicksReady
      OBVIOUS
    <2>2. PICK t : t = NextToRun(kernel)
      OBVIOUS
    <2>3. t \in Threads /\ Runnable(kernel, t)
      <3>1. \E u \in Threads : Runnable(kernel, u)
        BY <2>1, Constants DEF IInv, IdleInv
      <3>2. QED
        BY <2>1, <2>2, <3>1, Types, NextReady
    <2>4. kernel.stat[t] = "ready" /\ mem[t] = "live" /\ call[t].at # "gone"
      BY <2>1, <2>3 DEF IInv, ThreadInv, ThreadOK, Runnable
    <2>5. call[kernel.current].at \notin {"schedule", "exit"} => kernel.stat[kernel.current] = "ready"
      BY <2>1 DEF IInv, RunInv, Runnable
    <2>6. QED
      BY <2>2, <2>3, <2>4, <2>5 DEF PicksReady
  <1>2. QED
    BY <1>1, Invariance, PTL

\* What rt_thread_idle_excute frees, and a thread that has closed for good, is in no
\* list, has no timer and is nobody's stack, for every set of threads and priorities.
THEOREM FreedAlwaysUnused == Spec => []FreedUnused
  <1>1. IInv => FreedUnused
    <2>1. SUFFICES ASSUME IInv, NEW t \in Threads, mem[t] # "live"
                   PROVE  /\ \A n \in Nodes : kernel.next[n] = t => n = t
                          /\ ~kernel.timer[t]
                          /\ kernel.current = t => Kind[t] = "static" /\ call[t].at = "exit"
      BY DEF FreedUnused
    <2>2. kernel.stat[t] \in {"none", "close"} /\ kernel.next[t] = t /\ ~kernel.timer[t]
      BY <2>1 DEF IInv, ThreadInv, ThreadOK
    <2>3. \A n \in Nodes : kernel.next[n] = t => n = t
      <3>1. t \in Nodes
        BY Constants
      <3>2. \A n \in Nodes : kernel.next[n] = t <=> n = kernel.prev[t]
        BY <2>1, <3>1, Types, Neighbours
      <3>3. QED
        BY <2>2, <3>1, <3>2
    <2>4. kernel.current = t => Kind[t] = "static" /\ call[t].at = "exit"
      BY <2>1 DEF IInv, RunInv
    <2>5. QED
      BY <2>2, <2>3, <2>4
  <1>2. QED
    BY <1>1, Invariance, PTL
----------------------------------------------------------------------------
\* The nodes that following the links from h comes to: the function of Listed.
Trail(f, n, nx, h) == f = [i \in 0..n |-> IF i = 0 THEN h ELSE nx[f[i - 1]]]

LEMMA TrailExists ==
  ASSUME NEW nx, NEW h, NEW n \in Nat
  PROVE  \E f : Trail(f, n, nx, h)
  <1> DEFINE S == { m \in Nat : ~ \E f : Trail(f, m, nx, h) }
  <1>1. SUFFICES ASSUME S # {} PROVE FALSE
    OBVIOUS
  <1>2. PICK m \in S : \A y \in S : m <= y
    BY <1>1, Lowest
  <1>3. CASE m = 0
    <2>1. Trail([i \in 0..0 |-> h], 0, nx, h)
      <3>1. \A i \in 0..0 : i = 0
        OBVIOUS
      <3>2. QED
        BY <3>1 DEF Trail
    <2>2. QED
      BY <1>2, <1>3, <2>1
  <1>4. CASE m # 0
    <2>1. m \in Nat /\ m - 1 \in Nat /\ m - 1 \notin S
      BY <1>2, <1>4
    <2>2. PICK f : Trail(f, m - 1, nx, h)
      BY <2>1
    <2> DEFINE g == [i \in 0..m |-> IF i = m THEN nx[f[m - 1]] ELSE f[i]]
    <2>3. \A i \in 0..(m - 1) : f[i] = IF i = 0 THEN h ELSE nx[f[i - 1]]
      BY <2>2 DEF Trail
    <2>4. ASSUME NEW i \in 0..m PROVE g[i] = IF i = 0 THEN h ELSE nx[g[i - 1]]
      <3>1. CASE i = m
        BY <1>4, <2>1, <3>1
      <3>2. CASE i # m
        <4>1. i \in 0..(m - 1) /\ g[i] = f[i]
          BY <2>1, <3>2
        <4>2. i # 0 => g[i - 1] = f[i - 1]
          BY <2>1, <3>2
        <4>3. QED
          BY <2>3, <4>1, <4>2
      <3>3. QED
        BY <3>1, <3>2
    <2>5. g = [i \in 0..m |-> g[i]]
      OBVIOUS
    <2> HIDE DEF g
    <2>6. Trail(g, m, nx, h)
      BY <2>4, <2>5 DEF Trail
    <2>7. QED
      BY <1>2, <2>6
  <1>5. QED
    BY <1>3, <1>4

LEMMA TrailSteps ==
  ASSUME NEW f, NEW n \in Nat, NEW nx, NEW h, Trail(f, n, nx, h)
  PROVE  f[0] = h /\ \A i \in 1..n : f[i] = nx[f[i - 1]]
  <1>1. f[0] = h
    BY DEF Trail
  <1>2. \A i \in 1..n : i \in 0..n /\ i # 0
    OBVIOUS
  <1>3. QED
    BY <1>1, <1>2 DEF Trail

\* From a list's head one comes to nodes of the list only.
LEMMA TrailStays ==
  ASSUME NEW k, Linked(k), NEW h \in Heads, NEW n \in Nat, NEW f, Trail(f, n, k.next, h),
         NEW i \in 0..n
  PROVE  f[i] \in Nodes /\ Home(k.next, k.stat, f[i]) = h
  <1> DEFINE S == { j \in 0..n : ~(f[j] \in Nodes /\ Home(k.next, k.stat, f[j]) = h) }
  <1>1. f[0] = h /\ \A j \in 1..n : f[j] = k.next[f[j - 1]]
    BY TrailSteps
  <1>2. SUFFICES ASSUME S # {} PROVE FALSE
    OBVIOUS
  <1>3. PICK m \in S : \A y \in S : m <= y
    <2>1. S \in SUBSET Nat
      OBVIOUS
    <2>2. QED
      BY <1>2, <2>1, Lowest
  <1>4. m # 0
    <2>1. h \in Nodes /\ Home(k.next, k.stat, h) = h
      BY Constants DEF Home
    <2>2. QED
      BY <1>1, <1>3, <2>1
  <1>5. m \in 1..n /\ m - 1 \in 0..n /\ m - 1 \notin S
    BY <1>3, <1>4
  <1>6. f[m - 1] \in Nodes /\ Home(k.next, k.stat, f[m - 1]) = h
    BY <1>5
  <1>7. f[m] = k.next[f[m - 1]]
    BY <1>1, <1>5
  <1>8. f[m] \in Nodes /\ Home(k.next, k.stat, f[m]) = h
    BY <1>6, <1>7, Neighbours DEF Linked
  <1>9. QED
    BY <1>3, <1>8

\* In as many steps as there are nodes one comes back to the head: some node is met
\* twice, and the links lead back from it in one way only.
LEMMA TrailReturns ==
  ASSUME IsFiniteSet(Nodes), NEW k, Linked(k), NEW h \in Heads,
         NEW f, Trail(f, Cardinality(Nodes), k.next, h)
  PROVE  \E m \in 1..Cardinality(Nodes) : f[m] = h
  <1>1. PICK n \in Nat : n = Cardinality(Nodes)
    BY FS_CardinalityType
  <1>2. f[0] = h /\ \A i \in 1..n : f[i] = k.next[f[i - 1]]
    BY <1>1, TrailSteps
  <1>3. \A i \in 0..n : f[i] \in Nodes
    BY <1>1, TrailStays
  <1> DEFINE S == { j \in 0..n : \E d \in 1..n : j + d <= n /\ f[j] = f[j + d] }
  <1>4. S # {}
    <2>1. IsFiniteSet(0..n) /\ Cardinality(0..n) = n + 1
      BY FS_Interval
    <2>2. f = [i \in 0..n |-> f[i]]
      BY <1>1 DEF Trail
    <2>3. f \in [0..n -> Nodes]
      BY <1>3, <2>2
    <2>4. PICK i, j \in 0..n : i # j /\ f[i] = f[j]
      BY <1>1, <2>1, <2>3, FS_PigeonHole
    <2>5. CASE i < j
      <3>1. PICK d \in 1..n : i + d = j
        <4>1. j - i \in 1..n /\ i + (j - i) = j
          BY <2>5
        <4>2. QED
          BY <4>1
      <3>2. i \in S
        BY <2>4, <3>1
      <3>3. QED
        BY <3>2
    <2>6. CASE j < i
      <3>1. PICK d \in 1..n : j + d = i
        <4>1. i - j \in 1..n /\ j + (i - j) = i
          BY <2>6
        <4>2. QED
          BY <4>1
      <3>2. j \in S
        BY <2>4, <3>1
      <3>3. QED
        BY <3>2
    <2>7. QED
      BY <2>4, <2>5, <2>6
  <1>5. PICK m \in S : \A y \in S : m <= y
    <2>1. S \in SUBSET Nat
      OBVIOUS
    <2>2. QED
      BY <1>4, <2>1, Lowest
  <1>6. PICK d \in 1..n : m + d <= n /\ f[m] = f[m + d]
    BY <1>5
  <1>7. m = 0
    <2>1. SUFFICES ASSUME m # 0 PROVE FALSE
      OBVIOUS
    <2>2. m \in 1..n /\ m + d \in 1..n /\ m - 1 \in 0..n /\ (m - 1) + d \in 0..n /\ (m + d) - 1 = (m - 1) + d
      BY <1>5, <1>6, <2>1
    <2>3. f[m] = k.next[f[m - 1]] /\ f[m + d] = k.next[f[(m - 1) + d]]
      BY <1>2, <2>2
    <2>4. f[m - 1] \in Nodes /\ f[(m - 1) + d] \in Nodes
      BY <1>3, <2>2
    <2>5. \A a, b \in Nodes : k.next[a] = k.next[b] => a = b
      BY DEF Linked, Whole
    <2>6. f[m - 1] = f[(m - 1) + d]
      BY <1>6, <2>3, <2>4, <2>5
    <2>7. m - 1 \in S
      BY <1>6, <2>2, <2>6
    <2>8. QED
      BY <1>5, <2>1, <2>7
  <1>8. f[d] = h
    BY <1>2, <1>6, <1>7
  <1>9. QED
    BY <1>1, <1>8

\* What is linked to others and belongs to the list of h.
Members(k, h) == { t \in Threads : k.next[t] # t /\ ListOf(t, k.stat[t]) = h }

\* One comes to every member: the first in number one does not come to would follow a
\* node that one comes to.
LEMMA TrailMeets ==
  ASSUME NEW k, Linked(k), NEW h \in Heads, NEW n \in Nat, NEW f, Trail(f, n, k.next, h),
         NEW m \in 1..n, f[m] = h, NEW t \in Members(k, h)
  PROVE  \E i \in 1..n : f[i] = t
  <1>1. f[0] = h /\ \A i \in 1..n : f[i] = k.next[f[i - 1]]
    <2>1. PICK nx : nx = k.next
      OBVIOUS
    <2>2. Trail(f, n, nx, h)
      BY <2>1
    <2>3. QED
      BY <2>1, <2>2, TrailSteps
  <1> DEFINE C == { f[i] : i \in 1..m }
             S == { u \in Members(k, h) : u \notin C }
  <1>2. \A a \in C : k.next[a] \in C
    <2>1. SUFFICES ASSUME NEW i \in 1..m PROVE k.next[f[i]] \in C
      OBVIOUS
    <2>2. CASE i = m
      <3>1. 1 \in 1..n /\ 1 \in 1..m /\ 1 - 1 = 0
        OBVIOUS
      <3>2. f[1] = k.next[h]
        BY <1>1, <3>1
      <3>3. QED
        BY <2>2, <3>1, <3>2
    <2>3. CASE i # m
      <3>1. i + 1 \in 1..n /\ i + 1 \in 1..m /\ (i + 1) - 1 = i
        BY <2>3
      <3>2. f[i + 1] = k.next[f[i]]
        BY <1>1, <3>1
      <3>3. QED
        BY <3>1, <3>2
    <2>4. QED
      BY <2>2, <2>3
  <1>3. h \in C
    OBVIOUS
  <1>4. S = {}
    <2>1. SUFFICES ASSUME S # {} PROVE FALSE
      OBVIOUS
    <2>2. Whole(k.next, k.prev, k.stat)
      BY DEF Linked
    <2>3. PICK r \in [Threads -> Nat] : Numbered(k.next, k.prev, r)
      BY <2>2 DEF Whole
    <2>4. S \subseteq Threads
      BY DEF Members
    <2>5. PICK u \in S : \A w \in S : r[u] <= r[w]
      <3> DEFINE N == { r[w] : w \in S }
      <3>1. N \in SUBSET Nat /\ N # {}
        BY <2>1, <2>3, <2>4
      <3>2. PICK x \in N : \A y \in N : x <= y
        BY <3>1, Lowest
      <3>3. QED
        BY <3>2
    <2>6. /\ u \in Threads /\ u \in Nodes /\ u \notin C
          /\ k.next[u] # u /\ ListOf(u, k.stat[u]) = h
      BY <2>5, Constants DEF Members
    <2> DEFINE p == k.prev[u]
    <2>7. p \in Nodes /\ k.next[p] = u /\ Home(k.next, k.stat, p) = Home(k.next, k.stat, u)
      BY <2>2, <2>6, Neighbours
    <2>8. Home(k.next, k.stat, p) = h
      BY <2>6, <2>7 DEF Home
    <2>9. p \notin C
      BY <1>2, <2>6, <2>7
    <2>10. p # h /\ k.next[p] # p
      BY <1>3, <2>6, <2>7, <2>9
    <2>11. p \in Threads /\ ListOf(p, k.stat[p]) = h
      BY <2>8, <2>10 DEF Home
    <2>12. p \in S
      BY <2>9, <2>10, <2>11 DEF Members
    <2>13. r[p] < r[u]
      BY <2>3, <2>6, <2>11 DEF Numbered
    <2>14. QED
      BY <2>3, <2>5, <2>6, <2>11, <2>12, <2>13
  <1>5. t \in C
    BY <1>4
  <1>6. 1..m \subseteq 1..n
    OBVIOUS
  <1>7. QED
    BY <1>5, <1>6

LEMMA FiniteNodes == IsFiniteSet(Nodes)
  <1> DEFINE T == { PriorityTable[p] : p \in Priorities }
             f == [p \in Priorities |-> PriorityTable[p]]
  <1>1. IsFiniteSet(Priorities)
    BY LifeAssumption, FS_Interval DEF Priorities
  <1>2. f \in Surjection(Priorities, T)
    BY DEF Surjection
  <1>3. IsFiniteSet(T)
    BY <1>1, <1>2, FS_Surjection
  <1>4. IsFiniteSet({Defunct, Waiters})
    <2>1. IsFiniteSet({Defunct})
      BY FS_Singleton
    <2>2. IsFiniteSet({Defunct} \union {Waiters}) /\ {Defunct, Waiters} = {Defunct} \union {Waiters}
      BY <2>1, FS_AddElement
    <2>3. QED
      BY <2>2
  <1>5. IsFiniteSet(Heads)
    BY <1>3, <1>4, FS_Union DEF Heads
  <1>6. QED
    BY <1>5, FiniteAssumption, FS_Union DEF Nodes

\* What Listed lists are the members of the list.
LEMMA ListedMembers ==
  ASSUME Linked(kernel), NEW h \in Heads
  PROVE  Listed(h) = Members(kernel, h)
  <1>1. PICK n \in Nat : n = Cardinality(Nodes)
    BY FiniteNodes, FS_CardinalityType
  <1>2. PICK f : Trail(f, n, kernel.next, h) /\ Listed(h) = { f[i] : i \in 1..n } \ {h}
    <2> DEFINE node == CHOOSE f : Trail(f, Cardinality(Nodes), kernel.next, h)
    <2>1. \E f : Trail(f, Cardinality(Nodes), kernel.next, h)
      BY <1>1, TrailExists
    <2>2. Trail(node, Cardinality(Nodes), kernel.next, h)
      BY <2>1, Zenon
    <2>3. Listed(h) = { node[i] : i \in 1..Cardinality(Nodes) } \ {h}
      BY DEF Listed, Trail
    <2> HIDE DEF node
    <2>4. QED
      BY <1>1, <2>2, <2>3
  <1>3. \A i \in 0..n : f[i] \in Nodes /\ Home(kernel.next, kernel.stat, f[i]) = h
    BY <1>2, TrailStays
  <1>4. ASSUME NEW t \in Listed(h) PROVE t \in Members(kernel, h)
    <2>1. PICK i \in 1..n : t = f[i] /\ t # h
      BY <1>2, <1>4
    <2>2. t \in Nodes /\ Home(kernel.next, kernel.stat, t) = h /\ t # h
      BY <1>3, <2>1
    <2>3. QED
      BY <2>2 DEF Members, Home
  <1>5. PICK m \in 1..n : f[m] = h
    BY <1>1, <1>2, FiniteNodes, TrailReturns
  <1>6. ASSUME NEW t \in Members(kernel, h) PROVE t \in Listed(h)
    <2>1. \E i \in 1..n : f[i] = t
      BY <1>2, <1>5, TrailMeets
    <2>2. t # h
      BY Constants DEF Members
    <2>3. QED
      BY <1>2, <2>1, <2>2
  <1>7. QED
    BY <1>4, <1>6

\* Following the links from its head, every list has the threads its states name and no
\* other, and the priority group and the timers agree with them: for every set of
\* threads and priorities, whatever call was interrupted where.
THEOREM ListsAlwaysSound == Spec => []ListsSound
  <1>1. IInv => ListsSound
    <2>1. SUFFICES ASSUME IInv PROVE ListsSound
      OBVIOUS
    <2>2. /\ Sound(kernel) /\ Linked(kernel) /\ Whole(kernel.next, kernel.prev, kernel.stat)
          /\ mem \in [Threads -> {"live", "stackless", "absent"}]
          /\ \A t \in Threads : kernel.timer[t] \in BOOLEAN
      BY <2>1, Types
    <2>3. \A h \in Heads : Listed(h) = Members(kernel, h)
      BY <2>2, ListedMembers
    <2>4. \A t \in Threads : kernel.next[t] # t => kernel.stat[t] \in {"ready", "suspend", "close"}
      BY <2>2 DEF Whole
    <2>5. \A n \in Nodes : kernel.next[kernel.prev[n]] = n /\ kernel.prev[kernel.next[n]] = n
      BY <2>2 DEF Whole
    <2>6. ASSUME NEW t \in Threads PROVE HalfDeleted(t) => kernel.next[t] = t
      BY <2>1 DEF IInv, ManagerInv, HalfDeleted, Deleting
    <2>7. ASSUME NEW p \in Priorities
          PROVE  Members(kernel, PriorityTable[p]) =
                   { t \in Threads : kernel.stat[t] = "ready" /\ Priority[t] = p /\ ~HalfDeleted(t) }
      <3>1. SUFFICES ASSUME NEW t \in Threads
                     PROVE  (kernel.next[t] # t /\ ListOf(t, kernel.stat[t]) = PriorityTable[p])
                              <=> (kernel.stat[t] = "ready" /\ Priority[t] = p /\ ~HalfDeleted(t))
        BY DEF Members
      <3>2. PriorityTable[p] \notin {Defunct, Waiters}
        BY LifeAssumption
      <3>3. ListOf(t, kernel.stat[t]) = PriorityTable[p] <=> kernel.stat[t] = "ready" /\ Priority[t] = p
        BY <3>2, Constants DEF ListOf, ReadyList
      <3>4. kernel.stat[t] = "ready" => (kernel.next[t] # t <=> ~HalfDeleted(t))
        BY <2>1, <2>6 DEF IInv, ListInv, InList
      <3>5. QED
        BY <3>3, <3>4
    <2>8. ASSUME NEW p \in Priorities
          PROVE  Members(kernel, PriorityTable[p]) # {} <=> p \in kernel.group
      <3>1. p \in kernel.group <=> kernel.next[PriorityTable[p]] # PriorityTable[p]
        BY <2>2 DEF Sound, Grouped
      <3>2. PriorityTable[p] \in Heads /\ PriorityTable[p] \notin {Defunct, Waiters}
        BY LifeAssumption, Constants
      <3>3. ASSUME p \in kernel.group PROVE Members(kernel, PriorityTable[p]) # {}
        BY <2>2, <3>1, <3>2, <3>3, FirstOf DEF Members
      <3>4. ASSUME NEW t \in Members(kernel, PriorityTable[p]) PROVE p \in kernel.group
        <4>1. t \in Threads /\ Runnable(kernel, t) /\ ReadyList(t) = PriorityTable[p]
          BY <3>2 DEF Members, ListOf, Runnable
        <4>2. QED
          BY <2>2, <3>1, <4>1, Filled
      <3>5. QED
        BY <3>3, <3>4
    <2>9. \A t \in Members(kernel, Waiters) : kernel.stat[t] = "suspend"
      BY <2>4, Constants DEF Members, ListOf
    <2>10. Members(kernel, Defunct) =
             { t \in Threads : kernel.stat[t] = "close" /\ mem[t] = "live" /\ ~HalfDeleted(t)
                                 /\ ~(call[Idle].at = "free_stack" /\ call[Idle].on = t) }
      <3>1. SUFFICES ASSUME NEW t \in Threads
                     PROVE  (kernel.next[t] # t /\ ListOf(t, kernel.stat[t]) = Defunct)
                              <=> (kernel.stat[t] = "close" /\ mem[t] = "live"
                                     /\ ~HalfDeleted(t) /\ ~BeingFreed(t))
        BY DEF Members, BeingFreed
      <3>2. kernel.next[t] # t => (ListOf(t, kernel.stat[t]) = Defunct <=> kernel.stat[t] = "close")
        BY <2>4, Constants DEF ListOf
      <3>3. kernel.stat[t] = "close" /\ mem[t] = "live" /\ ~HalfDeleted(t) /\ ~BeingFreed(t)
              => kernel.next[t] # t
        BY <2>1 DEF IInv, ListInv, InList
      <3>4. kernel.next[t] # t => mem[t] = "live"
        BY <2>1 DEF IInv, ThreadInv, ThreadOK
      <3>5. kernel.next[t] # t => ~HalfDeleted(t) /\ ~BeingFreed(t)
        BY <2>1, <2>6 DEF IInv, IdleInv, BeingFreed
      <3>6. QED
        BY <3>2, <3>3, <3>4, <3>5
    <2>11. \A t \in Threads : kernel.timer[t] => kernel.stat[t] = "suspend" /\ mem[t] = "live"
      BY <2>1 DEF IInv, ThreadInv, ThreadOK
    <2>12. Waiters \in Heads /\ Defunct \in Heads /\ \A p \in Priorities : PriorityTable[p] \in Heads
      BY Constants
    <2>13. QED
      BY <2>3, <2>5, <2>7, <2>8, <2>9, <2>10, <2>11, <2>12 DEF ListsSound
  <1>2. QED
    BY <1>1, Invariance, PTL
=============================================================================
