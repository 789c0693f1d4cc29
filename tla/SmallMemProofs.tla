--------------------------- MODULE SmallMemProofs ---------------------------
(***************************************************************************)
(* Theorems about SmallMem for every number of threads, heap, header and    *)
(* block sizes.  The argument: splitting a block and making it absorb the    *)
(* next keep the blocks linked both ways; and at every step of plug_holes    *)
(* one place at most is left where two free blocks can be neighbours.        *)
(***************************************************************************)
EXTENDS SmallMem, WellFoundedInduction, TLAPS

Place == [at : {"idle", "expand", "copied"}, old : Int, size : Int]
Gift == [by : Threads, size : Int]
HeaderType == [used : BOOLEAN, next : Int, prev : Int]

Headers(h) == h \in [DOMAIN h -> HeaderType]

\* The headers are linked to the next ones and back; heap_end's prev is not used.
Linked(h) ==
  /\ DOMAIN h \subseteq 0..End /\ 0 \in DOMAIN h /\ End \in DOMAIN h
  /\ h[End].used /\ h[0].prev = 0
  /\ \A b \in DOMAIN h \ {End} :
       /\ h[b].next \in DOMAIN h /\ b + Header < h[b].next
       /\ \A c \in DOMAIN h : c <= b \/ h[b].next <= c
  /\ \A b \in DOMAIN h \ {0, End} : h[b].prev \in DOMAIN h \ {End} /\ h[h[b].prev].next = b

\* Block b is followed by a free one, and free itself.
Hole(h, b) == b \in Free(h) /\ h[b].next \in Free(h)

NoHoles(h) == \A x \in DOMAIN h : ~Hole(h, x)

\* Only before block b, or on either side of it, can there be two free neighbours.
HoleBefore(h, b) == \A x \in DOMAIN h : h[x].next # b => ~Hole(h, x)
HoleAround(h, b) == \A x \in DOMAIN h \ {b} : h[x].next # b => ~Hole(h, x)

\* lfree is a free block or heap_end.
LfreeIn(m) == m.lfree \in Free(m.heap) \union {End}

\* The allocator's state, its blocks linked and lfree one of the free ones.
Good(m) ==
  /\ m \in [heap : {m.heap}, lfree : Int, used_mem : Int]
  /\ Headers(m.heap) /\ Linked(m.heap) /\ LfreeIn(m)

Typed == pc \in [Threads -> Place] /\ given \in [DOMAIN given -> Gift]

IInv == Good(mem) /\ NoHoles(mem.heap) /\ Typed /\ GivenApart /\ LowestFree
----------------------------------------------------------------------------
LEMMA Numbers ==
  /\ MemSize \in Nat /\ Header \in Nat /\ MinSize \in Nat /\ Header > 0 /\ MinSize > 0
  /\ End \in Nat /\ End > 0 /\ Sizes \subseteq Int /\ \A s \in Sizes : s > 0
  BY SizeAssumption DEF End

\* A set of natural numbers that is not empty has a least element.
LEMMA MinIn ==
  ASSUME NEW S \in SUBSET Nat, S # {}
  PROVE  Min(S) \in S /\ \A y \in S : Min(S) <= y
  <1>1. PICK x \in S : \A y \in S : <<y, x>> \notin OpToRel(<, Nat)
    BY NatLessThanWellFounded, WFMin
  <1>2. \A y \in S : x <= y
    <2>1. ASSUME NEW y \in S, y < x PROVE <<y, x>> \in OpToRel(<, Nat)
      BY <2>1, Zenon DEF OpToRel
    <2>2. \A y \in S : ~(y < x)
      BY <1>1, <2>1, Zenon
    <2>3. QED
      BY <2>2
  <1>3. QED
    BY <1>2 DEF Min

\* What Split makes of each header.
LEMMA SplitAt ==
  ASSUME NEW h, Headers(h), NEW b \in DOMAIN h, b \in Int, NEW size,
         NEW r \in Int, r = b + Header + size, r \notin DOMAIN h,
         h[b].next # b, h[b].next # r,
         NEW g, g = Split(h, b, size)
  PROVE  /\ Headers(g) /\ DOMAIN g = DOMAIN h \union {r}
         /\ g[r] = [used |-> FALSE, next |-> h[b].next, prev |-> b]
         /\ g[b].used = h[b].used /\ g[b].next = r /\ g[b].prev = h[b].prev
         /\ \A a \in DOMAIN h \ {b} :
              /\ g[a].used = h[a].used /\ g[a].next = h[a].next
              /\ g[a].prev = IF a = h[b].next /\ a # End THEN r ELSE h[a].prev
  <1> DEFINE x(a) == CASE a = r -> [used |-> FALSE, next |-> h[b].next, prev |-> b]
                       [] a = b -> [h[b] EXCEPT !.next = r]
                       [] a = h[b].next /\ a # End -> [h[a] EXCEPT !.prev = r]
                       [] OTHER -> h[a]
  <1>1. g = [ a \in DOMAIN h \union {r} |-> x(a) ]
    BY DEF Split
  <1>2. \A a \in DOMAIN h : h[a] \in HeaderType
    BY DEF Headers
  <1>3. x(r) = [used |-> FALSE, next |-> h[b].next, prev |-> b] /\ x(r) \in HeaderType
    <2>1. x(r) = [used |-> FALSE, next |-> h[b].next, prev |-> b] /\ h[b] \in HeaderType
      BY <1>2
    <2>2. QED
      BY <2>1 DEF HeaderType
  <1>4. /\ x(b) \in HeaderType /\ x(b).used = h[b].used /\ x(b).next = r
        /\ x(b).prev = h[b].prev
    <2>1. b # r /\ h[b] \in HeaderType
      BY <1>2
    <2>2. x(b) = [h[b] EXCEPT !.next = r]
      BY <2>1
    <2>3. QED
      BY <2>1, <2>2 DEF HeaderType
  <1>5. ASSUME NEW a \in DOMAIN h \ {b}
        PROVE  /\ x(a) \in HeaderType /\ x(a).used = h[a].used /\ x(a).next = h[a].next
               /\ x(a).prev = IF a = h[b].next /\ a # End THEN r ELSE h[a].prev
    <2>1. h[a] \in HeaderType /\ a # r
      BY <1>2
    <2>2. CASE a = h[b].next /\ a # End
      <3>1. x(a) = [h[a] EXCEPT !.prev = r]
        BY <2>1, <2>2
      <3>2. QED
        BY <2>1, <2>2, <3>1 DEF HeaderType
    <2>3. CASE ~(a = h[b].next /\ a # End)
      <3>1. x(a) = h[a]
        BY <2>1, <2>3
      <3>2. QED
        BY <2>1, <2>3, <3>1 DEF HeaderType
    <2>4. QED
      BY <2>2, <2>3
  <1>6. \A a \in DOMAIN h \union {r} : x(a) \in HeaderType
    BY <1>3, <1>4, <1>5
  <1> HIDE DEF x
  <1>7. DOMAIN g = DOMAIN h \union {r} /\ \A a \in DOMAIN h \union {r} : g[a] = x(a)
    BY <1>1
  <1>8. Headers(g)
    BY <1>1, <1>6, <1>7 DEF Headers
  <1>9. QED
    BY <1>3, <1>4, <1>5, <1>7, <1>8

\* What Absorb makes of each header.
LEMMA AbsorbAt ==
  ASSUME NEW h, Headers(h), NEW b \in DOMAIN h, NEW n \in DOMAIN h, b # n, b \in Int, h[n].next # b,
         NEW g, g = Absorb(h, b, n)
  PROVE  /\ Headers(g) /\ DOMAIN g = DOMAIN h \ {n}
         /\ g[b].used = h[b].used /\ g[b].next = h[n].next /\ g[b].prev = h[b].prev
         /\ \A a \in DOMAIN h \ {b, n} :
              /\ g[a].used = h[a].used /\ g[a].next = h[a].next
              /\ g[a].prev = IF a = h[n].next THEN b ELSE h[a].prev
  <1> DEFINE x(a) == CASE a = b -> [h[b] EXCEPT !.next = h[n].next]
                       [] a = h[n].next -> [h[a] EXCEPT !.prev = b]
                       [] OTHER -> h[a]
  <1>1. g = [ a \in DOMAIN h \ {n} |-> x(a) ]
    BY DEF Absorb
  <1>2. \A a \in DOMAIN h : h[a] \in HeaderType
    BY DEF Headers
  <1>3. /\ x(b) \in HeaderType /\ x(b).used = h[b].used /\ x(b).next = h[n].next
        /\ x(b).prev = h[b].prev
    <2>1. x(b) = [h[b] EXCEPT !.next = h[n].next] /\ h[b] \in HeaderType /\ h[n] \in HeaderType
      BY <1>2
    <2>2. QED
      BY <2>1 DEF HeaderType
  <1>4. ASSUME NEW a \in DOMAIN h \ {b, n}
        PROVE  /\ x(a) \in HeaderType /\ x(a).used = h[a].used /\ x(a).next = h[a].next
               /\ x(a).prev = IF a = h[n].next THEN b ELSE h[a].prev
    <2>1. h[a] \in HeaderType
      BY <1>2
    <2>2. CASE a = h[n].next
      <3>1. x(a) = [h[a] EXCEPT !.prev = b]
        BY <2>2
      <3>2. QED
        BY <2>1, <2>2, <3>1 DEF HeaderType
    <2>3. CASE a # h[n].next
      <3>1. x(a) = h[a]
        BY <2>3
      <3>2. QED
        BY <2>1, <2>3, <3>1 DEF HeaderType
    <2>4. QED
      BY <2>2, <2>3
  <1>5. \A a \in DOMAIN h \ {n} : x(a) \in HeaderType
    BY <1>3, <1>4
  <1> HIDE DEF x
  <1>6. DOMAIN g = DOMAIN h \ {n} /\ \A a \in DOMAIN h \ {n} : g[a] = x(a)
    BY <1>1
  <1>7. Headers(g)
    BY <1>1, <1>5, <1>6 DEF Headers
  <1>8. QED
    BY <1>3, <1>4, <1>6, <1>7

----------------------------------------------------------------------------
\* Addresses are numbers, and the way back is the way there.
LEMMA LinkFacts ==
  ASSUME NEW h, Linked(h)
  PROVE  /\ DOMAIN h \subseteq Int /\ Free(h) \subseteq DOMAIN h \ {End}
         /\ \A b \in DOMAIN h \ {End} : b < h[b].next /\ h[b].next # b /\ h[b].next # 0
         /\ \A b \in DOMAIN h \ {End} : h[b].next # End => h[h[b].next].prev = b
         /\ \A b, c \in DOMAIN h \ {End} : h[b].next = h[c].next => b = c
  <1> USE Numbers
  <1>1. DOMAIN h \subseteq Int /\ DOMAIN h \subseteq 0..End
    BY DEF Linked
  <1>2. Free(h) \subseteq DOMAIN h \ {End}
    BY DEF Linked, Free
  <1>3. \A b \in DOMAIN h \ {End} :
          b < h[b].next /\ h[b].next # b /\ h[b].next # 0 /\ h[b].next \in DOMAIN h
    BY <1>1 DEF Linked
  <1>4. ASSUME NEW b \in DOMAIN h \ {End}, NEW c \in DOMAIN h \ {End}, h[b].next = h[c].next
        PROVE  b = c
    <2>1. c <= b \/ h[b].next <= c
      BY DEF Linked
    <2>2. b <= c \/ h[c].next <= b
      BY DEF Linked
    <2>3. QED
      BY <1>1, <1>3, <1>4, <2>1, <2>2
  <1>5. ASSUME NEW b \in DOMAIN h \ {End}, h[b].next # End
        PROVE  h[h[b].next].prev = b
    <2>1. h[h[b].next].prev \in DOMAIN h \ {End} /\ h[h[h[b].next].prev].next = h[b].next
      BY <1>3, <1>5 DEF Linked
    <2>2. QED
      BY <1>4, <2>1
  <1>6. QED
    BY <1>1, <1>2, <1>3, <1>4, <1>5

\* Block r has been split off b, and is free.
Divided(h, b, r, g) ==
  /\ Headers(g) /\ Linked(g) /\ DOMAIN g = DOMAIN h \union {r}
  /\ r \notin DOMAIN h /\ r \in Int /\ b < r
  /\ Free(g) = Free(h) \union {r}
  /\ g[b].next = r /\ g[r].next = h[b].next
  /\ \A a \in DOMAIN h \ {b} : g[a].next = h[a].next

\* A split leaves the blocks linked, with one more that is free.
LEMMA SplitLinked ==
  ASSUME NEW h, Headers(h), Linked(h), NEW b \in DOMAIN h \ {End}, NEW size \in Int, size > 0,
         NEW r, r = b + Header + size, r + Header < h[b].next,
         NEW g, g = Split(h, b, size)
  PROVE  Divided(h, b, r, g)
  <1> USE Numbers
  <1> DEFINE n == h[b].next
  <1>1. /\ b \in Int /\ r \in Int /\ n \in DOMAIN h /\ n \in Int /\ DOMAIN h \subseteq Int
        /\ b + Header < r /\ r + Header < n /\ n # b /\ n # r
    BY LinkFacts DEF Linked
  <1>2. r \notin DOMAIN h
    BY <1>1 DEF Linked
  <1>3. /\ Headers(g) /\ DOMAIN g = DOMAIN h \union {r}
        /\ g[r] = [used |-> FALSE, next |-> n, prev |-> b]
        /\ g[b].used = h[b].used /\ g[b].next = r /\ g[b].prev = h[b].prev
        /\ \A a \in DOMAIN h \ {b} :
             /\ g[a].used = h[a].used /\ g[a].next = h[a].next
             /\ g[a].prev = IF a = n /\ a # End THEN r ELSE h[a].prev
    <2>1. b \in DOMAIN h /\ h[b].next # b /\ h[b].next # r
      BY <1>1
    <2>2. b \in Int /\ size \in Int /\ r \in Int
      BY <1>1
    <2>3. /\ Headers(g) /\ DOMAIN g = DOMAIN h \union {r}
          /\ g[r] = [used |-> FALSE, next |-> h[b].next, prev |-> b]
          /\ g[b].used = h[b].used /\ g[b].next = r /\ g[b].prev = h[b].prev
          /\ \A a \in DOMAIN h \ {b} :
               /\ g[a].used = h[a].used /\ g[a].next = h[a].next
               /\ g[a].prev = IF a = h[b].next /\ a # End THEN r ELSE h[a].prev
      BY <1>2, <2>1, <2>2, SplitAt
    <2>4. QED
      BY <2>3
  <1>4. Free(g) = Free(h) \union {r}
    BY <1>2, <1>3 DEF Free
  <1> HIDE DEF n
  <1>5. n = h[b].next
    BY DEF n
  <1>6. /\ DOMAIN g \subseteq 0..End /\ 0 \in DOMAIN g /\ End \in DOMAIN g
        /\ g[End].used /\ g[0].prev = 0
    <2>1. DOMAIN h \subseteq 0..End /\ 0 \in DOMAIN h /\ End \in DOMAIN h /\ h[End].used /\ h[0].prev = 0
      BY DEF Linked
    <2>2. r \in 0..End
      BY <1>1, <2>1
    <2>3. n # 0 /\ End # b
      BY <1>1, <1>5, LinkFacts
    <2>4. QED
      BY <1>3, <2>1, <2>2, <2>3
  <1>7. ASSUME NEW x \in DOMAIN g \ {End}
        PROVE  /\ g[x].next \in DOMAIN g /\ x + Header < g[x].next
               /\ \A c \in DOMAIN g : c <= x \/ g[x].next <= c
    <2>0. \A c \in DOMAIN h : c <= b \/ n <= c
      BY <1>5 DEF Linked
    <2>1. CASE x = r
      BY <1>1, <1>3, <2>0, <2>1
    <2>2. CASE x = b
      BY <1>1, <1>3, <2>0, <2>2
    <2>3. CASE x \in DOMAIN h \ {b, End}
      <3>1. h[x].next \in DOMAIN h /\ x + Header < h[x].next
            /\ \A c \in DOMAIN h : c <= x \/ h[x].next <= c
        BY <2>3 DEF Linked
      <3>2. r <= x \/ h[x].next <= r
        BY <1>1, <2>0, <2>3, <3>1
      <3>3. QED
        BY <1>3, <2>3, <3>1, <3>2
    <2>4. QED
      BY <1>3, <2>1, <2>2, <2>3
  <1>8. ASSUME NEW y \in DOMAIN g \ {0, End}
        PROVE  g[y].prev \in DOMAIN g \ {End} /\ g[g[y].prev].next = y
    <2>0. r # End
      BY <1>1, <1>2 DEF Linked
    <2>1. CASE y = r
      BY <1>3, <2>1
    <2>2. CASE y = n
      BY <1>1, <1>2, <1>3, <2>0, <2>2
    <2>3. CASE y \in DOMAIN h \ {0, End, n}
      <3>1. h[y].prev \in DOMAIN h \ {End} /\ h[h[y].prev].next = y
        BY <2>3 DEF Linked
      <3>2. h[y].prev # b /\ h[y].prev # r
        BY <1>2, <1>5, <2>3, <3>1
      <3>3. g[y].prev = h[y].prev
        BY <1>3, <2>3
      <3>4. QED
        BY <1>3, <3>1, <3>2, <3>3
    <2>4. QED
      BY <1>3, <2>1, <2>2, <2>3
  <1>9. Linked(g)
    BY <1>6, <1>7, <1>8 DEF Linked
  <1>10. QED
    BY <1>1, <1>2, <1>3, <1>4, <1>5, <1>9 DEF Divided

\* So does plugging a hole, with one block less.
LEMMA AbsorbLinked ==
  ASSUME NEW h, Headers(h), Linked(h), NEW b \in DOMAIN h \ {End},
         NEW n, n = h[b].next, n # End,
         NEW g, g = Absorb(h, b, n)
  PROVE  /\ Headers(g) /\ Linked(g) /\ DOMAIN g = DOMAIN h \ {n} /\ n \in DOMAIN h /\ b # n
         /\ Free(g) = Free(h) \ {n}
         /\ g[b].next = h[n].next /\ g[b].prev = h[b].prev
         /\ \A a \in DOMAIN h \ {b, n} : g[a].next = h[a].next
  <1> USE Numbers
  <1> DEFINE m == h[n].next
  <1>1. /\ b \in Int /\ n \in DOMAIN h \ {0, End} /\ n \in Int /\ DOMAIN h \subseteq Int
        /\ m \in DOMAIN h /\ b + Header < n /\ n + Header < m /\ b < n /\ n < m /\ m # 0
    BY LinkFacts DEF Linked
  <1>2. /\ Headers(g) /\ DOMAIN g = DOMAIN h \ {n}
        /\ g[b].used = h[b].used /\ g[b].next = m /\ g[b].prev = h[b].prev
        /\ \A a \in DOMAIN h \ {b, n} :
             /\ g[a].used = h[a].used /\ g[a].next = h[a].next
             /\ g[a].prev = IF a = m THEN b ELSE h[a].prev
    BY <1>1, AbsorbAt
  <1>3. Free(g) = Free(h) \ {n}
    BY <1>1, <1>2 DEF Free
  <1> HIDE DEF m
  <1>4. m = h[n].next
    BY DEF m
  <1>5. /\ DOMAIN g \subseteq 0..End /\ 0 \in DOMAIN g /\ End \in DOMAIN g
        /\ g[End].used /\ g[0].prev = 0
    <2>1. DOMAIN h \subseteq 0..End /\ 0 \in DOMAIN h /\ End \in DOMAIN h /\ h[End].used /\ h[0].prev = 0
      BY DEF Linked
    <2>2. QED
      BY <1>1, <1>2, <2>1
  <1>6. ASSUME NEW x \in DOMAIN g \ {End}
        PROVE  /\ g[x].next \in DOMAIN g /\ x + Header < g[x].next
               /\ \A c \in DOMAIN g : c <= x \/ g[x].next <= c
    <2>1. CASE x = b
      <3>1. \A c \in DOMAIN h : (c <= b \/ n <= c) /\ (c <= n \/ m <= c)
        BY <1>1, <1>4 DEF Linked
      <3>2. QED
        BY <1>1, <1>2, <2>1, <3>1
    <2>2. CASE x # b
      <3>1. h[x].next \in DOMAIN h /\ x + Header < h[x].next
            /\ \A c \in DOMAIN h : c <= x \/ h[x].next <= c
        BY <1>2 DEF Linked
      <3>2. h[x].next # n
        BY <1>2, <2>2, LinkFacts
      <3>3. QED
        BY <1>2, <2>2, <3>1, <3>2
    <2>3. QED
      BY <2>1, <2>2
  <1>7. ASSUME NEW y \in DOMAIN g \ {0, End}
        PROVE  g[y].prev \in DOMAIN g \ {End} /\ g[g[y].prev].next = y
    <2>1. CASE y = m
      BY <1>1, <1>2, <2>1
    <2>2. CASE y # m
      <3>1. h[y].prev \in DOMAIN h \ {End} /\ h[h[y].prev].next = y
        BY <1>2 DEF Linked
      <3>2. h[y].prev # n /\ h[y].prev # b
        BY <1>2, <1>4, <2>2, <3>1
      <3>3. g[y].prev = h[y].prev
        BY <1>2, <2>2
      <3>4. QED
        BY <1>2, <3>1, <3>2, <3>3
    <2>3. QED
      BY <2>1, <2>2
  <1>8. Linked(g)
    BY <1>5, <1>6, <1>7 DEF Linked
  <1>9. QED
    BY <1>1, <1>2, <1>3, <1>4, <1>8

----------------------------------------------------------------------------
\* Between m and k the used blocks are left alone, the free ones are not more, and
\* lfree has not moved up.
Plugs(m, k) ==
  /\ Free(k.heap) \subseteq Free(m.heap) /\ k.lfree <= m.lfree
  /\ DOMAIN k.heap \ Free(k.heap) = DOMAIN m.heap \ Free(m.heap)
  /\ \A a \in DOMAIN m.heap \ (Free(m.heap) \union {End}) :
       k.heap[a].next = m.heap[a].next

\* Block n has become part of b.
Joined(m, b, n, k) ==
  /\ Good(k) /\ Plugs(m, k) /\ Free(k.heap) = Free(m.heap) \ {n} /\ b # n
  /\ k.heap[b].next = m.heap[n].next
  /\ \A a \in DOMAIN m.heap \ {b, n} : k.heap[a].next = m.heap[a].next

LEMMA MergedKeeps ==
  ASSUME NEW m, Good(m), NEW b \in Free(m.heap), NEW n \in Free(m.heap),
         n = m.heap[b].next, NEW k, k = Merged(m, b, n)
  PROVE  Joined(m, b, n, k)
  <1> DEFINE h == m.heap
             g == Absorb(h, b, n)
  <1>1. k.heap = g /\ k.lfree = (IF m.lfree = n THEN b ELSE m.lfree)
        /\ k.used_mem = m.used_mem /\ k \in [heap : {k.heap}, lfree : {k.lfree}, used_mem : {m.used_mem}]
    BY DEF Merged, Good
  <1>2. Linked(h) /\ Headers(h) /\ LfreeIn(m) /\ m.lfree \in Int /\ m.used_mem \in Int
    BY DEF Good
  <1>3. DOMAIN h \subseteq Int /\ b \in DOMAIN h \ {End} /\ n \in DOMAIN h \ {End} /\ b < n
    BY <1>2, LinkFacts
  <1>4. /\ Headers(g) /\ Linked(g) /\ DOMAIN g = DOMAIN h \ {n}
        /\ Free(g) = Free(h) \ {n}
        /\ g[b].next = h[n].next
        /\ \A a \in DOMAIN h \ {b, n} : g[a].next = h[a].next
    BY <1>2, <1>3, AbsorbLinked
  <1> HIDE DEF g
  <1>5. k.lfree \in Int /\ k.lfree <= m.lfree /\ LfreeIn(k)
    BY <1>1, <1>2, <1>3, <1>4 DEF LfreeIn
  <1>6. Good(k)
    BY <1>1, <1>2, <1>4, <1>5 DEF Good
  <1>7. Plugs(m, k)
    BY <1>1, <1>3, <1>4, <1>5 DEF Plugs
  <1>8. QED
    BY <1>1, <1>3, <1>4, <1>6, <1>7 DEF Joined

\* Plugging nothing.
LEMMA PlugsNothing ==
  ASSUME NEW m, Good(m)
  PROVE  Plugs(m, m)
  BY DEF Plugs, Good

LEMMA PlugsTwice ==
  ASSUME NEW m, NEW k, NEW l, Good(m), Good(k), Good(l), Plugs(m, k), Plugs(k, l)
  PROVE  Plugs(m, l)
  <1>1. m.lfree \in Int /\ k.lfree \in Int /\ l.lfree \in Int
    BY DEF Good
  <1>2. l.lfree <= m.lfree
    BY <1>1 DEF Plugs
  <1>3. QED
    BY <1>2 DEF Plugs

\* plug_holes forward: a hole can be left before the block only.
LEMMA ForwardKeeps ==
  ASSUME NEW m, Good(m), NEW b \in Free(m.heap), HoleAround(m.heap, b),
         NEW k, k = Forward(m, b)
  PROVE  Good(k) /\ Plugs(m, k) /\ b \in Free(k.heap) /\ HoleBefore(k.heap, b)
  <1> DEFINE n == m.heap[b].next
  <1>1. Linked(m.heap)
    BY DEF Good
  <1>0. n = m.heap[b].next
    OBVIOUS
  <1>2. /\ b \in DOMAIN m.heap \ {End} /\ n \in DOMAIN m.heap /\ End \notin Free(m.heap)
        /\ n # End => m.heap[n].next # b
        /\ Free(m.heap) \subseteq DOMAIN m.heap
    <2>1. b \in DOMAIN m.heap \ {End} /\ n \in DOMAIN m.heap /\ End \notin Free(m.heap)
      BY <1>1, LinkFacts DEF Linked
    <2>2. ASSUME n # End PROVE m.heap[n].next # b
      <3>1. b < n /\ n < m.heap[n].next /\ b \in Int /\ n \in Int
        BY <1>1, <2>1, <2>2, LinkFacts
      <3>2. m.heap[n].next \in Int
        BY <1>1, <2>1, <2>2, LinkFacts DEF Linked
      <3>3. QED
        BY <3>1, <3>2
    <2>3. QED
      BY <2>1, <2>2, <1>1, LinkFacts
  <1> HIDE DEF n
  <1>3. CASE n # End /\ ~m.heap[n].used
    <2>1. n \in Free(m.heap) /\ k = Merged(m, b, n) /\ n = m.heap[b].next
      BY <1>0, <1>2, <1>3 DEF Free, Forward
    <2>2. /\ Good(k) /\ Plugs(m, k) /\ Free(k.heap) = Free(m.heap) \ {n} /\ b # n
          /\ k.heap[b].next = m.heap[n].next
          /\ \A a \in DOMAIN m.heap \ {b, n} : k.heap[a].next = m.heap[a].next
      <3>1. Joined(m, b, n, k)
        BY <2>1, MergedKeeps
      <3>2. QED
        BY <3>1 DEF Joined
    <2>3. SUFFICES ASSUME NEW x, Hole(k.heap, x), k.heap[x].next # b PROVE FALSE
      BY <2>2 DEF HoleBefore
    <2>4. x \in Free(m.heap) \ {n} /\ k.heap[x].next \in Free(m.heap)
      BY <2>2, <2>3 DEF Hole
    <2>5. CASE x = b
      BY <1>0, <1>2, <1>3, <2>1, <2>2, <2>4, <2>5 DEF HoleAround, Hole
    <2>6. CASE x # b
      BY <1>2, <2>2, <2>3, <2>4, <2>6 DEF HoleAround, Hole
    <2>7. QED
      BY <2>5, <2>6
  <1>4. CASE ~(n # End /\ ~m.heap[n].used)
    <2>1. k = m /\ n \notin Free(m.heap)
      BY <1>0, <1>2, <1>4 DEF Forward, Free
    <2>2. HoleBefore(k.heap, b)
      BY <1>0, <2>1 DEF HoleAround, HoleBefore, Hole
    <2>3. QED
      BY <2>1, <2>2, PlugsNothing
  <1>5. QED
    BY <1>3, <1>4

\* plug_holes backward: then none is left.
LEMMA BackwardKeeps ==
  ASSUME NEW m, Good(m), NEW b \in Free(m.heap), HoleBefore(m.heap, b),
         NEW k, k = Backward(m, b)
  PROVE  Good(k) /\ Plugs(m, k) /\ NoHoles(k.heap)
  <1> DEFINE p == m.heap[b].prev
  <1>1. Linked(m.heap)
    BY DEF Good
  <1>2. /\ b \in DOMAIN m.heap \ {End} /\ Free(m.heap) \subseteq DOMAIN m.heap \ {End}
        /\ b = 0 => p = b
        /\ b # 0 => p \in DOMAIN m.heap \ {End} /\ m.heap[p].next = b
    BY <1>1, LinkFacts DEF Linked
  <1>3. CASE p # b /\ ~m.heap[p].used
    <2>1. p \in Free(m.heap) /\ k = Merged(m, p, b) /\ m.heap[p].next = b
      BY <1>2, <1>3 DEF Free, Backward
    <2>2. /\ Good(k) /\ Plugs(m, k) /\ Free(k.heap) = Free(m.heap) \ {b}
          /\ k.heap[p].next = m.heap[b].next
          /\ \A a \in DOMAIN m.heap \ {p, b} : k.heap[a].next = m.heap[a].next
      <3>1. Joined(m, p, b, k)
        BY <2>1, MergedKeeps
      <3>2. QED
        BY <3>1 DEF Joined
    <2>3. SUFFICES ASSUME NEW x, Hole(k.heap, x) PROVE FALSE
      BY <2>2 DEF NoHoles
    <2>4. x \in Free(m.heap) \ {b} /\ k.heap[x].next \in Free(m.heap) \ {b}
      BY <2>2, <2>3 DEF Hole
    <2>5. CASE x = p
      BY <1>2, <2>2, <2>4, <2>5 DEF HoleBefore, Hole
    <2>6. CASE x # p
      BY <1>2, <2>2, <2>4, <2>6 DEF HoleBefore, Hole
    <2>7. QED
      BY <2>5, <2>6
  <1>4. CASE ~(p # b /\ ~m.heap[p].used)
    <2>1. k = m
      BY <1>4 DEF Backward
    <2>2. ASSUME NEW x, Hole(m.heap, x), m.heap[x].next = b PROVE FALSE
      <3>1. x \in DOMAIN m.heap \ {End} /\ ~m.heap[x].used
        BY <1>2, <2>2 DEF Hole, Free
      <3>2. b # 0 /\ x # b
        BY <1>1, <2>2, <3>1, LinkFacts
      <3>3. x = p
        BY <1>1, <1>2, <2>2, <3>1, <3>2, LinkFacts
      <3>4. QED
        BY <1>4, <3>1, <3>2, <3>3
    <2>3. NoHoles(m.heap)
      BY <2>2 DEF HoleBefore, NoHoles
    <2>4. QED
      BY <2>1, <2>3, PlugsNothing
  <1>5. QED
    BY <1>3, <1>4

\* plug_holes, where two free blocks can be neighbours only if b is one of them.
LEMMA PlugHolesKeeps ==
  ASSUME NEW m, Good(m), NEW b \in Free(m.heap), HoleAround(m.heap, b),
         NEW k, k = PlugHoles(m, b)
  PROVE  Good(k) /\ Plugs(m, k) /\ NoHoles(k.heap)
  <1> DEFINE l == Forward(m, b)
  <1>1. Good(l) /\ Plugs(m, l) /\ b \in Free(l.heap) /\ HoleBefore(l.heap, b)
    BY ForwardKeeps
  <1>2. k = Backward(l, b)
    BY DEF PlugHoles
  <1> HIDE DEF l
  <1>3. Good(k) /\ Plugs(l, k) /\ NoHoles(k.heap)
    BY <1>1, <1>2, BackwardKeeps
  <1>4. QED
    BY <1>1, <1>3, PlugsTwice

----------------------------------------------------------------------------
Used(h) == DOMAIN h \ (Free(h) \union {End})

\* Block b has got the used flag, or lost it.
Marked(h, b, flag, g) ==
  /\ Headers(g) /\ Linked(g) /\ DOMAIN g = DOMAIN h
  /\ \A a \in DOMAIN h : g[a].next = h[a].next
  /\ Free(g) = IF flag THEN Free(h) \ {b} ELSE Free(h) \union {b}

LEMMA MarkAt ==
  ASSUME NEW h, Headers(h), Linked(h), NEW b \in DOMAIN h \ {End}, NEW flag \in BOOLEAN,
         NEW g, g = [h EXCEPT ![b].used = flag]
  PROVE  Marked(h, b, flag, g)
  <1>1. \A a \in DOMAIN h : h[a] \in HeaderType
    BY DEF Headers
  <1>2. DOMAIN g = DOMAIN h /\ \A a \in DOMAIN h \ {b} : g[a] = h[a]
    OBVIOUS
  <1>3. g[b] = [h[b] EXCEPT !.used = flag]
    OBVIOUS
  <1>4. /\ g[b] \in HeaderType /\ g[b].used = flag /\ g[b].next = h[b].next
        /\ g[b].prev = h[b].prev
    BY <1>1, <1>3 DEF HeaderType
  <1>5. \A a \in DOMAIN h : g[a].next = h[a].next /\ g[a].prev = h[a].prev
    BY <1>2, <1>4
  <1>6. Headers(g)
    BY <1>1, <1>2, <1>4 DEF Headers
  <1>7. g[End].used /\ g[0].prev = 0
    BY <1>2, <1>5 DEF Linked
  <1>8. Linked(g)
    BY <1>2, <1>5, <1>7 DEF Linked
  <1>9. Free(g) = IF flag THEN Free(h) \ {b} ELSE Free(h) \union {b}
    BY <1>2, <1>4 DEF Free
  <1>10. QED
    BY <1>2, <1>5, <1>6, <1>8, <1>9 DEF Marked

\* What rt_free makes of the heap.
FreedResult(m, b, k) ==
  /\ Good(k) /\ NoHoles(k.heap)
  /\ Used(k.heap) = Used(m.heap) \ {b}
  /\ \A a \in Used(k.heap) : k.heap[a].next = m.heap[a].next
  /\ Free(k.heap) \subseteq Free(m.heap) \union {b}
  /\ k.lfree <= m.lfree /\ k.lfree <= b

LEMMA FreedKeeps ==
  ASSUME NEW m, Good(m), NoHoles(m.heap), NEW b \in Used(m.heap), NEW k, k = Freed(m, b)
  PROVE  FreedResult(m, b, k)
  <1> DEFINE g == [m.heap EXCEPT ![b].used = FALSE]
             l == [ heap |-> g, lfree |-> Lowered(m, b), used_mem |-> m.used_mem - Counted(m, b) ]
  <1>1. /\ Headers(m.heap) /\ Linked(m.heap) /\ m.lfree \in Int /\ m.used_mem \in Int
        /\ LfreeIn(m)
    BY DEF Good
  <1>2. b \in DOMAIN m.heap \ {End} /\ b \in Int /\ DOMAIN m.heap \subseteq Int /\ b \notin Free(m.heap)
    BY <1>1, LinkFacts DEF Used
  <1>3. /\ Headers(g) /\ Linked(g) /\ DOMAIN g = DOMAIN m.heap
        /\ \A a \in DOMAIN m.heap : g[a].next = m.heap[a].next
        /\ Free(g) = Free(m.heap) \union {b}
    <2>1. FALSE \in BOOLEAN
      OBVIOUS
    <2>2. Marked(m.heap, b, FALSE, g)
      BY <1>1, <1>2, <2>1, MarkAt
    <2>3. QED
      BY <2>2 DEF Marked
  <1>4. Counted(m, b) \in Int
    BY <1>1, <1>2 DEF Counted, Linked
  <1>5. Lowered(m, b) \in Int /\ Lowered(m, b) <= m.lfree /\ Lowered(m, b) <= b
        /\ Lowered(m, b) \in {m.lfree, b}
    BY <1>1, <1>2 DEF Lowered
  <1> HIDE DEF g
  <1>6. Good(l)
    <2>1. LfreeIn(l)
      BY <1>1, <1>3, <1>5 DEF LfreeIn
    <2>2. QED
      BY <1>1, <1>3, <1>4, <1>5, <2>1 DEF Good
  <1>7. HoleAround(g, b) /\ b \in Free(g)
    BY <1>3 DEF HoleAround, NoHoles, Hole
  <1>8. k = PlugHoles(l, b)
    BY DEF Freed, g
  <1>9. l.heap = g /\ l.lfree = Lowered(m, b)
    OBVIOUS
  <1> HIDE DEF l
  <1>10. Good(k) /\ Plugs(l, k) /\ NoHoles(k.heap)
    BY <1>6, <1>7, <1>8, <1>9, PlugHolesKeeps
  <1>11. k.lfree \in Int /\ l.lfree \in Int
    BY <1>6, <1>10 DEF Good
  <1>12. k.lfree <= m.lfree /\ k.lfree <= b
    BY <1>1, <1>2, <1>5, <1>9, <1>10, <1>11 DEF Plugs
  <1>13. Used(k.heap) = Used(m.heap) \ {b}
    BY <1>2, <1>3, <1>9, <1>10 DEF Plugs, Used
  <1>14. \A a \in Used(k.heap) : k.heap[a].next = m.heap[a].next
    BY <1>2, <1>3, <1>9, <1>10, <1>13 DEF Plugs, Used
  <1>15. Free(k.heap) \subseteq Free(m.heap) \union {b}
    BY <1>3, <1>9, <1>10 DEF Plugs
  <1>16. QED
    BY <1>10, <1>12, <1>13, <1>14, <1>15 DEF FreedResult

\* What rt_realloc makes of it by shrinking block b to end at r.
ShrunkResult(m, b, r, k) ==
  /\ Good(k) /\ NoHoles(k.heap)
  /\ Used(k.heap) = Used(m.heap)
  /\ k.heap[b].next = r
  /\ \A a \in Used(m.heap) \ {b} : k.heap[a].next = m.heap[a].next
  /\ Free(k.heap) \subseteq Free(m.heap) \union {r}
  /\ k.lfree <= m.lfree

LEMMA ShrunkKeeps ==
  ASSUME NEW m, Good(m), NoHoles(m.heap), NEW b \in Used(m.heap), NEW size \in Int, size > 0,
         size + Header + MinSize < Data(m.heap, b),
         NEW r, r = b + Header + size, NEW k, k = Shrunk(m, b, size)
  PROVE  ShrunkResult(m, b, r, k)
  <1> USE Numbers
  <1> DEFINE g == Split(m.heap, b, size)
             l == [ m EXCEPT !.heap = g, !.used_mem = m.used_mem - (Data(m.heap, b) - size) ]
  <1>1. /\ Headers(m.heap) /\ Linked(m.heap) /\ m.lfree \in Int /\ m.used_mem \in Int
        /\ LfreeIn(m)
    BY DEF Good
  <1>2. /\ b \in DOMAIN m.heap \ {End} /\ b \in Int /\ DOMAIN m.heap \subseteq Int
        /\ b \notin Free(m.heap) /\ m.heap[b].next \in Int
    BY <1>1, LinkFacts DEF Used, Linked
  <1>3. r + Header < m.heap[b].next /\ Data(m.heap, b) \in Int
    BY <1>2 DEF Data
  <1>4. /\ Headers(g) /\ Linked(g) /\ DOMAIN g = DOMAIN m.heap \union {r}
        /\ r \notin DOMAIN m.heap /\ r \in Int /\ b < r
        /\ Free(g) = Free(m.heap) \union {r}
        /\ g[b].next = r
        /\ \A a \in DOMAIN m.heap \ {b} : g[a].next = m.heap[a].next
    <2>1. Divided(m.heap, b, r, g)
      BY <1>1, <1>2, <1>3, SplitLinked
    <2>2. QED
      BY <2>1 DEF Divided
  <1> HIDE DEF g
  <1>5. l.heap = g /\ l.lfree = m.lfree
        /\ l \in [heap : {l.heap}, lfree : Int, used_mem : Int]
    <2> DEFINE u == m.used_mem - (Data(m.heap, b) - size)
    <2>1. u \in Int
      BY <1>1, <1>3
    <2> HIDE DEF u
    <2>2. m \in [heap : {m.heap}, lfree : Int, used_mem : Int]
      BY DEF Good
    <2>3. l = [m EXCEPT !.heap = g, !.used_mem = u]
      BY DEF u
    <2> HIDE DEF l
    <2>4. l.heap = g /\ l.lfree = m.lfree /\ l \in [heap : {g}, lfree : {m.lfree}, used_mem : {u}]
      BY <2>2, <2>3
    <2>5. QED
      BY <1>1, <2>1, <2>4
  <1>6. k = PlugHoles(l, r)
    BY DEF Shrunk, g
  <1> HIDE DEF l
  <1>7. Good(l)
    <2>1. LfreeIn(l)
      BY <1>1, <1>4, <1>5 DEF LfreeIn
    <2>2. QED
      BY <1>4, <1>5, <2>1 DEF Good
  <1>8. HoleAround(g, r) /\ r \in Free(g)
    <2>1. SUFFICES ASSUME NEW x \in DOMAIN g \ {r}, g[x].next # r, Hole(g, x) PROVE FALSE
      BY <1>4 DEF HoleAround
    <2>2. x \in DOMAIN m.heap \ {b} /\ g[x].next = m.heap[x].next
      BY <1>4, <2>1
    <2>3. QED
      BY <1>4, <2>1, <2>2 DEF Hole, NoHoles
  <1>9. Good(k) /\ Plugs(l, k) /\ NoHoles(k.heap)
    BY <1>5, <1>6, <1>7, <1>8, PlugHolesKeeps
  <1>10. Used(k.heap) = Used(m.heap)
    BY <1>4, <1>5, <1>9 DEF Plugs, Used
  <1>11. k.heap[b].next = r /\ \A a \in Used(m.heap) \ {b} : k.heap[a].next = m.heap[a].next
    BY <1>2, <1>4, <1>5, <1>9 DEF Plugs, Used
  <1>12. Free(k.heap) \subseteq Free(m.heap) \union {r} /\ k.lfree <= m.lfree
    BY <1>4, <1>5, <1>9 DEF Plugs
  <1>13. QED
    BY <1>9, <1>10, <1>11, <1>12 DEF ShrunkResult

\* What rt_malloc makes of it by giving away block b.
TakenResult(m, b, size, k) ==
  /\ Good(k) /\ NoHoles(k.heap)
  /\ b \in Free(m.heap) /\ Used(k.heap) = Used(m.heap) \union {b}
  /\ \A a \in Used(m.heap) : k.heap[a].next = m.heap[a].next
  /\ size <= Data(k.heap, b)
  /\ \A x \in Free(k.heap) :
       /\ x \in Free(m.heap) \/ b < x
       /\ m.lfree <= x => k.lfree <= x

LEMMA TakenKeeps ==
  ASSUME NEW m, Good(m), NoHoles(m.heap), NEW size \in Int, size > 0,
         NEW b \in Fits(m, size), NEW k, k = Taken(m, b, size)
  PROVE  TakenResult(m, b, size, k)
  <1> USE Numbers
  <1> DEFINE r == b + Header + size
             h == IF Splits(m, b, size) THEN Split(m.heap, b, size) ELSE m.heap
             g == [h EXCEPT ![b].used = TRUE]
             lf == IF b = m.lfree THEN LfreeFrom(g, m.lfree) ELSE m.lfree
  <1>1. /\ Headers(m.heap) /\ Linked(m.heap) /\ m.lfree \in Int /\ m.used_mem \in Int
        /\ LfreeIn(m)
    BY DEF Good
  <1>2. /\ b \in Free(m.heap) /\ m.lfree <= b /\ size <= Data(m.heap, b)
        /\ b \in DOMAIN m.heap \ {End} /\ b \in Int /\ DOMAIN m.heap \subseteq Int
        /\ m.heap[b].next \in DOMAIN m.heap /\ m.heap[b].next \in Int
    BY <1>1, LinkFacts DEF Fits, Linked, Data
  <1>3. /\ Headers(h) /\ Linked(h) /\ b \in DOMAIN h \ {End} /\ NoHoles([h EXCEPT ![b].used = TRUE])
        /\ DOMAIN m.heap \subseteq DOMAIN h
        /\ \A x \in Free(h) : x \in Free(m.heap) \/ b < x
        /\ Free(m.heap) \subseteq Free(h)
        /\ DOMAIN h \ Free(h) = DOMAIN m.heap \ Free(m.heap)
        /\ size <= Data(h, b) /\ h[b].next \in Int
        /\ \A a \in DOMAIN m.heap \ {b} : h[a].next = m.heap[a].next
    <2>1. CASE Splits(m, b, size)
      <3>1. h = Split(m.heap, b, size) /\ r + Header < m.heap[b].next
        BY <1>2, <2>1 DEF Splits, Data
      <3>2. /\ Headers(h) /\ Linked(h) /\ DOMAIN h = DOMAIN m.heap \union {r}
            /\ r \notin DOMAIN m.heap /\ r \in Int /\ b < r
            /\ Free(h) = Free(m.heap) \union {r}
            /\ h[b].next = r /\ h[r].next = m.heap[b].next
            /\ \A a \in DOMAIN m.heap \ {b} : h[a].next = m.heap[a].next
        <4>1. Divided(m.heap, b, r, h)
          BY <1>1, <1>2, <3>1, SplitLinked
        <4>2. QED
          BY <4>1 DEF Divided
      <3> HIDE DEF h, r
      <3>3. size <= Data(h, b)
        BY <1>2, <3>2 DEF Data, r
      <3>4. NoHoles([h EXCEPT ![b].used = TRUE])
        <4>1. /\ DOMAIN g = DOMAIN h /\ Free(g) = Free(h) \ {b}
              /\ \A a \in DOMAIN h : g[a].next = h[a].next
          <5>1. TRUE \in BOOLEAN
            OBVIOUS
          <5>2. Marked(h, b, TRUE, g)
            BY <1>2, <3>2, <5>1, MarkAt
          <5>3. QED
            BY <5>2 DEF Marked
        <4>2. SUFFICES ASSUME NEW x, Hole(g, x) PROVE FALSE
          BY DEF NoHoles
        <4>3. x \in Free(m.heap) \union {r} /\ x # b /\ x \in DOMAIN h
              /\ h[x].next \in (Free(m.heap) \union {r}) \ {b}
          BY <1>2, <3>2, <4>1, <4>2 DEF Hole, Free
        <4>4. CASE x = r
          BY <1>2, <3>2, <4>3, <4>4 DEF NoHoles, Hole
        <4>5. CASE x # r
          BY <1>2, <3>2, <4>3, <4>5, LinkFacts DEF NoHoles, Hole, Linked
        <4>6. QED
          BY <4>4, <4>5
      <3>5. QED
        BY <1>2, <3>2, <3>3, <3>4
    <2>2. CASE ~Splits(m, b, size)
      <3>1. h = m.heap
        BY <2>2
      <3> HIDE DEF h
      <3>2. NoHoles([h EXCEPT ![b].used = TRUE])
        <4>1. /\ DOMAIN g = DOMAIN h /\ Free(g) = Free(h) \ {b}
              /\ \A a \in DOMAIN h : g[a].next = h[a].next
          <5>1. TRUE \in BOOLEAN
            OBVIOUS
          <5>2. Marked(h, b, TRUE, g)
            BY <1>1, <1>2, <3>1, <5>1, MarkAt
          <5>3. QED
            BY <5>2 DEF Marked
        <4>2. QED
          BY <3>1, <4>1 DEF NoHoles, Hole, Free
      <3>3. QED
        BY <1>1, <1>2, <3>1, <3>2
    <2>3. QED
      BY <2>1, <2>2
  <1>4. /\ k.heap = g /\ k.lfree = lf
        /\ k = [heap |-> g, lfree |-> lf, used_mem |-> m.used_mem + (h[b].next - b)]
    BY DEF Taken
  <1> HIDE DEF h, r
  <1>5. /\ Headers(g) /\ Linked(g) /\ DOMAIN g = DOMAIN h
        /\ \A a \in DOMAIN h : g[a].next = h[a].next
        /\ Free(g) = Free(h) \ {b}
    <2>1. TRUE \in BOOLEAN
      OBVIOUS
    <2>2. Marked(h, b, TRUE, g)
      BY <1>3, <2>1, MarkAt
    <2>3. QED
      BY <2>2 DEF Marked
  <1> HIDE DEF g
  <1>6. /\ lf \in Free(g) \union {End}
        /\ \A x \in Free(g) : m.lfree <= x => lf <= x
    <2>1. CASE b = m.lfree
      <3> DEFINE S == { c \in Free(g) \union {End} : m.lfree <= c }
      <3>1. m.lfree >= 0 /\ Free(g) \subseteq DOMAIN g /\ DOMAIN g \subseteq 0..End
            /\ m.lfree <= End
        BY <1>2, <1>1, <1>5, <2>1 DEF Linked, Free
      <3>2. S \in SUBSET Nat /\ End \in S
        BY <3>1
      <3>3. Min(S) \in S /\ \A y \in S : Min(S) <= y
        BY <3>2, MinIn
      <3>4. lf = Min(S)
        BY <2>1 DEF LfreeFrom
      <3>5. QED
        BY <3>3, <3>4
    <2>2. CASE b # m.lfree
      BY <1>1, <1>2, <1>3, <1>5, <2>2 DEF LfreeIn
    <2>3. QED
      BY <2>1, <2>2
  <1>7. lf \in Int
    BY <1>5, <1>6, LinkFacts
  <1> HIDE DEF lf
  <1>8. Good(k)
    <2>1. LfreeIn(k)
      BY <1>4, <1>6 DEF LfreeIn
    <2>2. k \in [heap : {k.heap}, lfree : Int, used_mem : Int]
      BY <1>1, <1>2, <1>3, <1>4, <1>7
    <2>3. QED
      BY <1>4, <1>5, <2>1, <2>2 DEF Good
  <1>9. NoHoles(k.heap)
    BY <1>3, <1>4 DEF g
  <1>10. Used(k.heap) = Used(m.heap) \union {b}
    BY <1>2, <1>3, <1>4, <1>5 DEF Used
  <1>11. \A a \in Used(m.heap) : k.heap[a].next = m.heap[a].next
    BY <1>2, <1>3, <1>4, <1>5 DEF Used
  <1>12. size <= Data(k.heap, b)
    BY <1>3, <1>4, <1>5 DEF Data
  <1>13. \A x \in Free(k.heap) : (x \in Free(m.heap) \/ b < x) /\ (m.lfree <= x => k.lfree <= x)
    BY <1>3, <1>4, <1>5, <1>6
  <1>14. QED
    BY <1>2, <1>8, <1>9, <1>10, <1>11, <1>12, <1>13 DEF TakenResult

----------------------------------------------------------------------------
LEMMA IdlePlace == Idle \in Place
  BY DEF Idle, Place, Null

\* The initial state satisfies the invariant.
LEMMA InvStarts ==
  ASSUME Init
  PROVE  IInv
  <1> USE Numbers
  <1> DEFINE h == mem.heap
  <1>1. /\ DOMAIN h = {0, End} /\ h[0] = [used |-> FALSE, next |-> End, prev |-> 0]
        /\ h[End] = [used |-> TRUE, next |-> End, prev |-> End]
        /\ h \in [{0, End} -> HeaderType]
        /\ mem.lfree = 0 /\ mem = [heap |-> h, lfree |-> 0, used_mem |-> 0]
    BY DEF Init, HeaderType
  <1> HIDE DEF h
  <1>2. Free(h) = {0} /\ End = MemSize + Header
    BY <1>1 DEF Free, End
  <1>3. Header < End
    BY <1>2, SizeAssumption
  <1>4. Linked(h) /\ Headers(h)
    BY <1>1, <1>3 DEF Linked, Headers
  <1>5. Good(mem)
    BY <1>1, <1>2, <1>4 DEF Good, LfreeIn, h
  <1>6. NoHoles(mem.heap)
    BY <1>1, <1>2 DEF NoHoles, Hole, h
  <1>7. Typed
    BY IdlePlace DEF Init, Typed
  <1>8. DOMAIN given = {} /\ pc = [t \in Threads |-> Idle]
    BY DEF Init
  <1>9. GivenApart
    BY <1>1, <1>2, <1>8 DEF GivenApart, Blocks, h
  <1>10. LowestFree
    BY <1>1, <1>2 DEF LowestFree, h
  <1>11. QED
    BY <1>5, <1>6, <1>7, <1>9, <1>10 DEF IInv

\* A call of rt_malloc, of a thread or of its rt_realloc.
LEMMA MallocKeeps ==
  ASSUME IInv, NEW t \in Threads, NEW asked \in Int, NEW then \in Place,
         then = Idle \/ then.old \in Held(t),
         MallocSection(t, asked, then)
  PROVE  IInv'
  <1> USE Numbers
  <1>0. Good(mem) /\ NoHoles(mem.heap) /\ Typed /\ GivenApart /\ LowestFree
    BY DEF IInv
  <1>1. CASE pc' = [pc EXCEPT ![t] = Idle] /\ UNCHANGED <<mem, given, shrunk>>
    <2>1. Typed'
      BY <1>0, <1>1, IdlePlace DEF Typed
    <2>2. GivenApart'
      BY <1>0, <1>1 DEF Typed, GivenApart, Blocks, Held
    <2>3. QED
      BY <1>0, <1>1, <2>1, <2>2 DEF IInv, LowestFree
  <1>2. CASE ~(pc' = [pc EXCEPT ![t] = Idle] /\ UNCHANGED <<mem, given, shrunk>>)
    <2> DEFINE size == AtLeast(asked)
               b == Min(Fits(mem, size))
    <2>1. /\ Fits(mem, size) # {}
          /\ mem' = Taken(mem, b, size) /\ given' = Give(b, t, asked)
          /\ shrunk' = shrunk \intersect Free(mem'.heap) /\ pc' = [pc EXCEPT ![t] = then]
      BY <1>2 DEF MallocSection, StillFree
    <2>2. size \in Int /\ size > 0 /\ asked <= size
      BY DEF AtLeast
    <2>3. Linked(mem.heap) /\ mem.lfree \in Int
      BY <1>0 DEF Good
    <2>4. Free(mem.heap) \subseteq Nat
      BY <2>3 DEF Linked, Free
    <2>5. b \in Fits(mem, size)
      <3>1. Fits(mem, size) \in SUBSET Nat
        BY <2>4 DEF Fits
      <3>2. QED
        BY <2>1, <3>1, MinIn
    <2> HIDE DEF b, size
    <2>6. TakenResult(mem, b, size, mem')
      BY <1>0, <2>1, <2>2, <2>5, TakenKeeps
    <2>7. /\ Good(mem') /\ NoHoles(mem'.heap) /\ b \in Free(mem.heap)
          /\ Used(mem'.heap) = Used(mem.heap) \union {b}
          /\ \A a \in Used(mem.heap) : mem'.heap[a].next = mem.heap[a].next
          /\ size <= Data(mem'.heap, b)
          /\ \A x \in Free(mem'.heap) :
               (x \in Free(mem.heap) \/ b < x) /\ (mem.lfree <= x => mem'.lfree <= x)
      BY <2>6 DEF TakenResult
    <2>8. /\ DOMAIN given = Used(mem.heap) /\ b \notin DOMAIN given
          /\ DOMAIN given' = DOMAIN given \union {b}
          /\ given'[b] = [by |-> t, size |-> asked]
          /\ \A a \in DOMAIN given : given'[a] = given[a]
      BY <1>0, <2>1, <2>7 DEF GivenApart, Blocks, Used, Give
    <2>9. Typed'
      <3>1. given' \in [DOMAIN given' -> Gift]
        <4>1. [by |-> t, size |-> asked] \in Gift
          BY DEF Gift
        <4>2. \A a \in DOMAIN given' : given'[a] \in Gift
          BY <1>0, <2>8, <4>1 DEF Typed
        <4>3. given' = [a \in DOMAIN given' |-> given'[a]]
          BY <2>1 DEF Give
        <4>4. QED
          BY <4>2, <4>3
      <3>2. QED
        BY <1>0, <2>1, <3>1 DEF Typed
    <2>10. GivenApart'
      <3>1. DOMAIN given' = Used(mem'.heap)
        BY <2>7, <2>8
      <3>2. ASSUME NEW a \in DOMAIN given' PROVE given'[a].size <= Data(mem'.heap, a)
        <4>1. CASE a = b
          <5>1. Data(mem'.heap, b) \in Int
            <6>1. Linked(mem'.heap) /\ b \in DOMAIN mem'.heap \ {End}
              BY <2>7 DEF Good, Used
            <6>2. b \in Int /\ mem'.heap[b].next \in Int
              BY <6>1, LinkFacts DEF Linked
            <6>3. QED
              BY <6>2 DEF Data
          <5>2. QED
            BY <2>2, <2>7, <2>8, <4>1, <5>1
        <4>2. CASE a # b
          BY <1>0, <2>7, <2>8, <4>2 DEF GivenApart, Data
        <4>3. QED
          BY <4>1, <4>2
      <3>3. \A u \in Threads : Held(u) \subseteq Held(u)'
        BY <2>8 DEF Held
      <3>4. \A u \in Threads : pc'[u] # Idle => pc'[u].old \in Held(u)'
        BY <1>0, <2>1, <3>3 DEF GivenApart, Typed
      <3>5. QED
        BY <3>1, <3>2, <3>4 DEF GivenApart, Blocks, Used
    <2>11. LowestFree'
      <3>1. SUFFICES ASSUME NEW x \in Free(mem'.heap), ~(mem.lfree <= x)
                     PROVE  x \in shrunk'
        BY <2>7 DEF LowestFree
      <3>2. b \in Int /\ mem.lfree <= b
        BY <2>3, <2>5, LinkFacts DEF Fits
      <3>3. x \in Int
        BY <2>7, <3>1, LinkFacts DEF Good
      <3>4. x \in Free(mem.heap)
        BY <2>3, <2>7, <3>1, <3>2, <3>3
      <3>5. QED
        BY <1>0, <2>1, <3>1, <3>4 DEF LowestFree
    <2>12. QED
      BY <2>7, <2>9, <2>10, <2>11 DEF IInv
  <1>3. QED
    BY <1>1, <1>2

\* A call of rt_free, of a thread or of its rt_realloc.
LEMMA FreeKeeps ==
  ASSUME IInv, NEW t \in Threads, NEW b \in Held(t), FreeSection(b),
         pc' = [pc EXCEPT ![t] = Idle]
  PROVE  IInv'
  <1>0. Good(mem) /\ NoHoles(mem.heap) /\ Typed /\ GivenApart /\ LowestFree
    BY DEF IInv
  <1>1. /\ mem' = Freed(mem, b) /\ given' = Ungive(b)
        /\ shrunk' = shrunk \intersect Free(mem'.heap)
    BY DEF FreeSection, StillFree
  <1>2. DOMAIN given = Used(mem.heap) /\ b \in DOMAIN given /\ given[b].by = t
    BY <1>0 DEF GivenApart, Blocks, Used, Held
  <1>3. FreedResult(mem, b, mem')
    BY <1>0, <1>1, <1>2, FreedKeeps
  <1>4. /\ Good(mem') /\ NoHoles(mem'.heap)
        /\ Used(mem'.heap) = Used(mem.heap) \ {b}
        /\ \A a \in Used(mem'.heap) : mem'.heap[a].next = mem.heap[a].next
        /\ Free(mem'.heap) \subseteq Free(mem.heap) \union {b}
        /\ mem'.lfree <= mem.lfree /\ mem'.lfree <= b
    BY <1>3 DEF FreedResult
  <1>5. DOMAIN given' = DOMAIN given \ {b} /\ \A a \in DOMAIN given' : given'[a] = given[a]
    BY <1>1 DEF Ungive
  <1>6. Typed'
    <2>1. given' = [a \in DOMAIN given' |-> given'[a]]
      BY <1>1 DEF Ungive
    <2>2. \A a \in DOMAIN given' : given'[a] \in Gift
      BY <1>0, <1>5 DEF Typed
    <2>3. given' \in [DOMAIN given' -> Gift]
      BY <2>1, <2>2
    <2>4. QED
      BY <1>0, <2>3, IdlePlace DEF Typed
  <1>7. GivenApart'
    <2>1. DOMAIN given' = Used(mem'.heap)
      BY <1>2, <1>4, <1>5
    <2>2. \A a \in DOMAIN given' : given'[a].size <= Data(mem'.heap, a)
      BY <1>0, <1>4, <1>5, <2>1 DEF GivenApart, Data
    <2>3. ASSUME NEW u \in Threads, pc'[u] # Idle PROVE pc'[u].old \in Held(u)'
      <3>1. u # t /\ pc'[u] = pc[u]
        BY <1>0, <2>3 DEF Typed
      <3>2. pc[u].old \in Held(u)
        BY <1>0, <2>3, <3>1 DEF GivenApart
      <3>3. pc[u].old # b
        BY <1>2, <3>1, <3>2 DEF Held
      <3>4. QED
        BY <1>5, <3>1, <3>2, <3>3 DEF Held
    <2>4. QED
      BY <2>1, <2>2, <2>3 DEF GivenApart, Blocks, Used
  <1>8. LowestFree'
    <2>1. mem.lfree \in Int /\ mem'.lfree \in Int /\ Free(mem'.heap) \subseteq Int
      BY <1>0, <1>4, LinkFacts DEF Good
    <2>2. SUFFICES ASSUME NEW x \in Free(mem'.heap), ~(mem'.lfree <= x)
                   PROVE  x \in shrunk'
      BY DEF LowestFree
    <2>3. x \in Free(mem.heap) /\ ~(mem.lfree <= x)
      BY <1>4, <2>1, <2>2
    <2>4. QED
      BY <1>0, <1>1, <2>3 DEF LowestFree
  <1>9. QED
    BY <1>4, <1>6, <1>7, <1>8 DEF IInv

\* The first section of rt_realloc, where the block is shrunk.
LEMMA ShrinkKeeps ==
  ASSUME IInv, NEW t \in Threads, NEW b \in Held(t), NEW asked \in Sizes,
         asked + Header + MinSize < Data(mem.heap, b),
         mem' = Shrunk(mem, b, asked), given' = [given EXCEPT ![b].size = asked],
         shrunk' = (shrunk \union {b + Header + asked}) \intersect Free(mem'.heap),
         UNCHANGED pc
  PROVE  IInv'
  <1> USE Numbers
  <1> DEFINE r == b + Header + asked
  <1>0. Good(mem) /\ NoHoles(mem.heap) /\ Typed /\ GivenApart /\ LowestFree
    BY DEF IInv
  <1>1. asked \in Int /\ asked > 0
    OBVIOUS
  <1>2. DOMAIN given = Used(mem.heap) /\ b \in DOMAIN given
    BY <1>0 DEF GivenApart, Blocks, Used, Held
  <1>3. ShrunkResult(mem, b, r, mem')
    BY <1>0, <1>1, <1>2, ShrunkKeeps
  <1>4. b \in Int
    BY <1>0, <1>2, LinkFacts DEF Good, Used
  <1>5. r - (b + Header) = asked
    BY <1>1, <1>4
  <1>6. shrunk' = (shrunk \union {r}) \intersect Free(mem'.heap)
    OBVIOUS
  <1> HIDE DEF r
  <1>7. /\ Good(mem') /\ NoHoles(mem'.heap)
        /\ Used(mem'.heap) = Used(mem.heap)
        /\ mem'.heap[b].next = r
        /\ \A a \in Used(mem.heap) \ {b} : mem'.heap[a].next = mem.heap[a].next
        /\ Free(mem'.heap) \subseteq Free(mem.heap) \union {r}
        /\ mem'.lfree <= mem.lfree
    BY <1>3 DEF ShrunkResult
  <1>8. /\ DOMAIN given' = DOMAIN given
        /\ given'[b].size = asked /\ given'[b].by = given[b].by /\ given'[b] \in Gift
        /\ \A a \in DOMAIN given \ {b} : given'[a] = given[a]
    <2>1. given[b] \in Gift
      BY <1>0, <1>2 DEF Typed
    <2>2. given'[b] = [given[b] EXCEPT !.size = asked]
      BY <1>2
    <2>3. QED
      BY <1>1, <2>1, <2>2 DEF Gift
  <1>9. Typed'
    <2>1. \A a \in DOMAIN given' : given'[a] \in Gift
      BY <1>0, <1>8 DEF Typed
    <2>2. given' = [a \in DOMAIN given' |-> given'[a]]
      OBVIOUS
    <2>3. given' \in [DOMAIN given' -> Gift]
      BY <2>1, <2>2
    <2>4. QED
      BY <1>0, <2>3 DEF Typed
  <1>10. GivenApart'
    <2>1. DOMAIN given' = Used(mem'.heap)
      BY <1>2, <1>7, <1>8
    <2>2. ASSUME NEW a \in DOMAIN given' PROVE given'[a].size <= Data(mem'.heap, a)
      <3>1. CASE a = b
        BY <1>1, <1>5, <1>7, <1>8, <3>1 DEF Data
      <3>2. CASE a # b
        BY <1>0, <1>2, <1>7, <1>8, <3>2 DEF GivenApart, Data
      <3>3. QED
        BY <3>1, <3>2
    <2>3. \A u \in Threads : Held(u) = Held(u)'
      BY <1>8 DEF Held
    <2>4. \A u \in Threads : pc'[u] # Idle => pc'[u].old \in Held(u)'
      BY <1>0, <2>3 DEF GivenApart
    <2>5. QED
      BY <2>1, <2>2, <2>4 DEF GivenApart, Blocks, Used
  <1>11. LowestFree'
    <2>1. mem.lfree \in Int /\ mem'.lfree \in Int /\ Free(mem'.heap) \subseteq Int
      BY <1>0, <1>7, LinkFacts DEF Good
    <2>2. SUFFICES ASSUME NEW x \in Free(mem'.heap), ~(mem'.lfree <= x), x # r
                   PROVE  x \in shrunk'
      BY <1>6 DEF LowestFree
    <2>3. x \in Free(mem.heap) /\ ~(mem.lfree <= x)
      BY <1>7, <2>1, <2>2
    <2>4. QED
      BY <1>0, <1>6, <2>3 DEF LowestFree
  <1>12. QED
    BY <1>7, <1>9, <1>10, <1>11 DEF IInv

\* The first section of rt_realloc, where the block is to be moved.
LEMMA LeaveKeeps ==
  ASSUME IInv, NEW t \in Threads, NEW b \in Held(t), NEW asked \in Sizes,
         pc' = [pc EXCEPT ![t] = [at |-> "expand", old |-> b, size |-> asked]],
         UNCHANGED <<mem, given, shrunk>>
  PROVE  IInv'
  <1>0. Good(mem) /\ NoHoles(mem.heap) /\ Typed /\ GivenApart /\ LowestFree
    BY DEF IInv
  <1>1. b \in Int /\ asked \in Int
    <2>1. b \in Used(mem.heap) /\ Linked(mem.heap)
      BY <1>0 DEF GivenApart, Blocks, Used, Held, Good
    <2>2. QED
      BY <2>1, LinkFacts, Numbers DEF Used
  <1>2. Typed'
    BY <1>0, <1>1 DEF Typed, Place
  <1>3. GivenApart'
    BY <1>0 DEF Typed, GivenApart, Blocks, Held
  <1>4. QED
    BY <1>0, <1>2, <1>3 DEF IInv, LowestFree

\* Every step, and stuttering, keeps the invariant.
LEMMA InvKept ==
  ASSUME IInv, [Next]_vars
  PROVE  IInv'
  <1> USE Numbers
  <1>0. Typed /\ GivenApart
    BY DEF IInv
  <1>1. ASSUME NEW t \in Threads, Malloc(t) PROVE IInv'
    BY <1>1, IdlePlace, MallocKeeps DEF Malloc
  <1>2. ASSUME NEW t \in Threads, FreeCall(t) PROVE IInv'
    <2>1. PICK b \in Held(t) : FreeSection(b)
      BY <1>2 DEF FreeCall
    <2>2. pc' = [pc EXCEPT ![t] = Idle]
      BY <1>0, <1>2 DEF FreeCall, Typed
    <2>3. QED
      BY <2>1, <2>2, FreeKeeps
  <1>3. ASSUME NEW t \in Threads, Realloc(t) PROVE IInv'
    <2>1. PICK b \in Held(t), asked \in Sizes :
            \/ /\ asked + Header + MinSize < Data(mem.heap, b)
               /\ mem' = Shrunk(mem, b, asked) /\ given' = [given EXCEPT ![b].size = asked]
               /\ shrunk' = (shrunk \union {b + Header + asked}) \intersect Free(mem'.heap)
               /\ UNCHANGED pc
            \/ /\ pc' = [pc EXCEPT ![t] = [at |-> "expand", old |-> b, size |-> asked]]
               /\ UNCHANGED <<mem, given, shrunk>>
      BY <1>3 DEF Realloc
    <2>2. QED
      BY <2>1, ShrinkKeeps, LeaveKeeps
  <1>4. ASSUME NEW t \in Threads, Expand(t) PROVE IInv'
    <2> DEFINE then == [pc[t] EXCEPT !.at = "copied"]
    <2>1. pc[t] \in Place /\ pc[t] # Idle
      BY <1>0, <1>4 DEF Typed, Expand, Idle
    <2>2. then \in Place /\ then.old = pc[t].old /\ pc[t].size \in Int
      BY <2>1 DEF Place
    <2>3. then.old \in Held(t)
      BY <1>0, <2>1, <2>2 DEF GivenApart
    <2>4. QED
      BY <1>4, <2>2, <2>3, MallocKeeps DEF Expand
  <1>5. ASSUME NEW t \in Threads, Moved(t) PROVE IInv'
    <2>1. pc[t] # Idle
      BY <1>5 DEF Moved, Idle
    <2>2. pc[t].old \in Held(t)
      BY <1>0, <2>1 DEF GivenApart
    <2>3. QED
      BY <1>5, <2>2, FreeKeeps DEF Moved
  <1>6. CASE UNCHANGED vars
    BY <1>6 DEF vars, IInv, Typed, GivenApart, Blocks, Held, LowestFree
  <1>7. QED
    BY <1>1, <1>2, <1>3, <1>4, <1>5, <1>6 DEF Next

\* The invariant holds in every reachable state.
THEOREM Invariance == Spec => []IInv
  BY InvStarts, InvKept, PTL DEF Spec

\* The blocks tile the heap, linked both ways, and no two free ones are
\* neighbours, whatever is allocated, freed and moved, and in which order.
THEOREM Tiled == Spec => []HeapTiles
  <1>1. ASSUME IInv PROVE HeapTiles
    <2>1. Linked(mem.heap) /\ LfreeIn(mem) /\ NoHoles(mem.heap)
      BY <1>1 DEF IInv, Good
    <2>2. \A b \in DOMAIN mem.heap \ {End} :
            /\ mem.heap[b].next # End => mem.heap[mem.heap[b].next].prev = b
            /\ mem.heap[b].next # End /\ ~mem.heap[b].used => mem.heap[mem.heap[b].next].used
      BY <2>1, LinkFacts DEF NoHoles, Hole, Free, Linked
    <2>3. QED
      BY <2>1, <2>2 DEF HeapTiles, Linked, LfreeIn, Blocks
  <1>2. QED
    BY <1>1, Invariance, PTL

\* No two callers hold the same memory, and each has at least what it asked for,
\* while rt_realloc moves its block as well.
THEOREM Apart == Spec => []GivenApart
  <1>1. IInv => GivenApart
    BY DEF IInv
  <1>2. QED
    BY <1>1, Invariance, PTL

\* The walk from lfree misses no free block but those rt_realloc has shrunk off.
THEOREM Lowest == Spec => []LowestFree
  <1>1. IInv => LowestFree
    BY DEF IInv
  <1>2. QED
    BY <1>1, Invariance, PTL
=============================================================================
