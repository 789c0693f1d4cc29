------------------------------ MODULE SmallMem ------------------------------
(***************************************************************************)
(* The heap of the kernel (mem.c): blocks that lie one behind the other,     *)
(* each with a header that links its neighbours, first fit from the lowest   *)
(* free block.  Sizes and addresses count words of RT_ALIGN_SIZE, to which   *)
(* every call rounds them up.  What a call does between taking and releasing *)
(* heap_sem is one step: no other thread is in such a section meanwhile.     *)
(* rt_realloc that moves a block has three of them, and other threads' calls *)
(* come between.                                                             *)
(***************************************************************************)
EXTENDS Integers, FiniteSets, FiniteSetsExt

CONSTANTS
  Threads,
  MemSize,   \* mem_size_aligned
  Header,    \* SIZEOF_STRUCT_MEM
  MinSize,   \* MIN_SIZE_ALIGNED
  Sizes      \* the sizes that are asked for

ASSUME SizeAssumption ==
  /\ MemSize \in Nat /\ Header \in Nat \ {0} /\ MinSize \in Nat \ {0}
  /\ MinSize <= MemSize /\ Sizes \subseteq 1..MemSize

End == MemSize + Header   \* heap_end, the last header: always used

VARIABLES
  mem,      \* heap: the headers, by address; lfree: the lowest free block; used_mem
  pc,       \* where each thread is in rt_realloc
  given,    \* history: the blocks callers hold, with the holder and the size asked for
  shrunk    \* history: the free blocks that shrinking another left below lfree

vars == <<mem, pc, given, shrunk>>

Null == -1
Idle == [at |-> "idle", old |-> Null, size |-> 0]
----------------------------------------------------------------------------
Free(h) == { b \in DOMAIN h : ~h[b].used }

\* The user data size of a block.
Data(h, b) == h[b].next - (b + Header)

\* Block b keeps `size' words; a free block is made of the rest.
Split(h, b, size) ==
  LET rest == b + Header + size IN
  [ a \in DOMAIN h \union {rest} |->
      CASE a = rest -> [used |-> FALSE, next |-> h[b].next, prev |-> b]
        [] a = b -> [h[b] EXCEPT !.next = rest]
        [] a = h[b].next /\ a # End -> [h[a] EXCEPT !.prev = rest]
        [] OTHER -> h[a] ]

\* Block n, the next of b, becomes part of b.  Nothing reads its header again.
Absorb(h, b, n) ==
  [ a \in DOMAIN h \ {n} |->
      CASE a = b -> [h[b] EXCEPT !.next = h[n].next]
        [] a = h[n].next -> [h[a] EXCEPT !.prev = b]
        [] OTHER -> h[a] ]

Merged(m, b, n) ==
  [m EXCEPT !.heap = Absorb(m.heap, b, n), !.lfree = IF @ = n THEN b ELSE @]

\* plug_holes, forward and backward.
Forward(m, b) ==
  LET n == m.heap[b].next IN
  IF n # End /\ ~m.heap[n].used THEN Merged(m, b, n) ELSE m

Backward(m, b) ==
  LET p == m.heap[b].prev IN
  IF p # b /\ ~m.heap[p].used THEN Merged(m, p, b) ELSE m

\* Mutant: holes are plugged forward only.
PlugForward(m, b) == Forward(m, b)

PlugHoles(m, b) == Backward(Forward(m, b), b)
----------------------------------------------------------------------------
\* Mutant: a block's header counts as room for data.
FitsWithHeader(m, size) ==
  { b \in Free(m.heap) : m.lfree <= b /\ b < MemSize - size /\ m.heap[b].next - b >= size }

\* The free blocks rt_malloc's walk from lfree accepts for `size' words.  Each
\* header's next is the header that follows, so the walk meets them in order.
Fits(m, size) ==
  { b \in Free(m.heap) : m.lfree <= b /\ b < MemSize - size /\ Data(m.heap, b) >= size }

Splits(m, b, size) == Data(m.heap, b) >= size + Header + MinSize

\* lfree moves on to the next free block, or to heap_end.
LfreeFrom(h, lfree) == Min({ b \in Free(h) \union {End} : lfree <= b })

\* rt_malloc between taking and releasing heap_sem, where block b fits.
Taken(m, b, size) ==
  LET split == Splits(m, b, size)
      h == IF split THEN Split(m.heap, b, size) ELSE m.heap
      marked == [h EXCEPT ![b].used = TRUE]
  IN [ heap |-> marked,
       lfree |-> IF b = m.lfree THEN LfreeFrom(marked, m.lfree) ELSE m.lfree,
       used_mem |-> m.used_mem + (h[b].next - b) ]

\* Mutant: lfree stays above the block that is freed.
LoweredNot(m, b) == m.lfree

Lowered(m, b) == IF b < m.lfree THEN b ELSE m.lfree
Counted(m, b) == m.heap[b].next - b

\* rt_free between taking and releasing heap_sem.
Freed(m, b) ==
  PlugHoles([ heap |-> [m.heap EXCEPT ![b].used = FALSE], lfree |-> Lowered(m, b),
              used_mem |-> m.used_mem - Counted(m, b) ], b)

\* rt_realloc where the block is large enough to be split.  lfree stays where it
\* is, below or above the rest, unless the rest joins the block it points to.
Shrunk(m, b, size) ==
  PlugHoles([ m EXCEPT !.heap = Split(@, b, size), !.used_mem = @ - (Data(m.heap, b) - size) ],
            b + Header + size)

\* rt_malloc's lower limit of a size.
AtLeast(size) == IF size < MinSize THEN MinSize ELSE size
----------------------------------------------------------------------------
Init ==
  /\ mem = [ heap |-> [ a \in {0, End} |->
                          IF a = 0 THEN [used |-> FALSE, next |-> End, prev |-> 0]
                          ELSE [used |-> TRUE, next |-> End, prev |-> End] ],
             lfree |-> 0, used_mem |-> 0 ]
  /\ pc = [t \in Threads |-> Idle]
  /\ given = << >> /\ shrunk = {}

Give(b, t, size) ==
  [ a \in DOMAIN given \union {b} |-> IF a = b THEN [by |-> t, size |-> size] ELSE given[a] ]

Ungive(b) == [ a \in DOMAIN given \ {b} |-> given[a] ]

StillFree(m) == shrunk \intersect Free(m.heap)

\* The section of rt_malloc: the lowest block that fits, or none.  The caller is a
\* thread, or its rt_realloc, which goes on `then' with the block.
MallocSection(t, asked, then) ==
  LET size == AtLeast(asked)
      fits == Fits(mem, size)
      b == Min(fits)
  IN \/ /\ fits = {} /\ pc' = [pc EXCEPT ![t] = Idle] /\ UNCHANGED <<mem, given, shrunk>>
     \/ /\ fits # {}
        /\ mem' = Taken(mem, b, size) /\ given' = Give(b, t, asked)
        /\ shrunk' = StillFree(mem') /\ pc' = [pc EXCEPT ![t] = then]

\* rt_malloc; also rt_calloc, and rt_realloc of RT_NULL.
Malloc(t) ==
  /\ pc[t] = Idle
  /\ \E asked \in Sizes : MallocSection(t, asked, Idle)

FreeSection(b) ==
  /\ mem' = Freed(mem, b) /\ given' = Ungive(b) /\ shrunk' = StillFree(mem')

Held(t) == { b \in DOMAIN given : given[b].by = t }

\* rt_free; also rt_realloc to the size 0.
FreeCall(t) ==
  /\ pc[t] = Idle /\ UNCHANGED pc
  /\ \E b \in Held(t) : FreeSection(b)

\* rt_realloc, its first section.  A block that would leave too small a rest is
\* moved as one that is too small.
Realloc(t) ==
  /\ pc[t] = Idle
  /\ \E b \in Held(t), asked \in Sizes :
       \/ /\ asked + Header + MinSize < Data(mem.heap, b)
          /\ mem' = Shrunk(mem, b, asked) /\ given' = [given EXCEPT ![b].size = asked]
          /\ shrunk' = (shrunk \union {b + Header + asked}) \intersect Free(mem'.heap)
          /\ UNCHANGED pc
       \/ /\ asked + Header + MinSize >= Data(mem.heap, b) /\ asked # Data(mem.heap, b)
          /\ pc' = [pc EXCEPT ![t] = [at |-> "expand", old |-> b, size |-> asked]]
          /\ UNCHANGED <<mem, given, shrunk>>

\* Its call of rt_malloc; without memory it leaves the old block as it is.
Expand(t) ==
  /\ pc[t].at = "expand"
  /\ MallocSection(t, pc[t].size, [pc[t] EXCEPT !.at = "copied"])

\* It has copied the smaller of both sizes, and frees the old block.
Moved(t) ==
  /\ pc[t].at = "copied" /\ FreeSection(pc[t].old) /\ pc' = [pc EXCEPT ![t] = Idle]

Next == \E t \in Threads : Malloc(t) \/ FreeCall(t) \/ Realloc(t) \/ Expand(t) \/ Moved(t)

Spec == Init /\ [][Next]_vars
----------------------------------------------------------------------------
Blocks == DOMAIN mem.heap

\* The blocks tile the heap: each header's next is the header that follows, after
\* room for data; prev leads back, except in heap_end; no two free blocks are
\* neighbours, as rt_malloc's comment on a near fit relies on; and lfree is a
\* header in use by nobody, or heap_end.
HeapTiles ==
  /\ Blocks \subseteq 0..End /\ {0, End} \subseteq Blocks
  /\ mem.heap[End].used /\ mem.heap[0].prev = 0
  /\ \A b \in Blocks \ {End} :
       LET n == mem.heap[b].next IN
       /\ n \in Blocks /\ b + Header < n
       /\ \A c \in Blocks : c <= b \/ n <= c
       /\ n # End => mem.heap[n].prev = b
       /\ n # End /\ ~mem.heap[b].used => mem.heap[n].used
  /\ mem.lfree \in Free(mem.heap) \union {End}

\* The blocks callers hold are the used ones, each with room for what was asked
\* for before the next header, while a block is moved as well.
GivenApart ==
  /\ DOMAIN given = Blocks \ (Free(mem.heap) \union {End})
  /\ \A b \in DOMAIN given : given[b].size <= Data(mem.heap, b)
  /\ \A t \in Threads : pc[t] # Idle => pc[t].old \in Held(t)

\* lfree is the lowest free block, as its declaration says, but for the blocks that
\* rt_realloc leaves below it when it shrinks one.
LowestFree == \A b \in Free(mem.heap) : mem.lfree <= b \/ b \in shrunk
=============================================================================
