---------------------------- MODULE KernelTimer ----------------------------
(***************************************************************************)
(* The kernel's timers (timer.c, clock.c): a list sorted by wrapping tick    *)
(* values, started and stopped by threads in several steps, between which    *)
(* the tick interrupt may come, and expired by the tick interrupt.  One      *)
(* thread makes the calls for a timer; the timer's own callback makes them   *)
(* too.                                                                     *)
(***************************************************************************)
EXTENDS Integers, Sequences, SequencesExt

CONSTANTS
  Timers,
  TickMax,      \* RT_TICK_MAX
  Delays,       \* init_tick of the timers
  MaxPreempt    \* bound: ticks that pass in the middle of a start

\* rt_timer_start asserts that a delay is less than half the ticks; that a start
\* is not held up for the rest of that half is assumed, nor, for a timer of no
\* ticks, until the tick that finds it due.
ASSUME TickAssumption ==
  /\ TickMax \in Nat \ {0} /\ MaxPreempt \in Nat /\ Delays \subseteq Nat
  /\ \A d \in Delays : d + MaxPreempt < TickMax \div 2
  /\ MaxPreempt + 1 < TickMax \div 2

VARIABLES
  rt_tick,
  list,         \* rt_timer_list
  timer,        \* timeout_tick, init_tick and the flags of each timer
  pc,           \* where the call for each timer is
  checking,     \* rt_timer_check is running
  left          \* history: ticks until each started timer is due

vars == <<rt_tick, list, timer, pc, checking, left>>
----------------------------------------------------------------------------
Modulus == TickMax + 1

\* Mutants: a timer is due on its tick only; ticks are compared as numbers; a timer
\* is started again for its old timeout.
DueExactly(t, now) == now = timer[t].timeout_tick
IsAfterUnwrapped(a, b) == a > b
RestartStale(s, now, t) == s

\* Unsigned arithmetic of rt_tick_t.
Plus(a, b)  == (a + b) % Modulus
Minus(a, b) == (a - b) % Modulus

Due(t, now) == Minus(now, timer[t].timeout_tick) < TickMax \div 2

\* Timeout a comes after b.
IsAfter(a, b) == Minus(a, b) # 0 /\ Minus(a, b) < TickMax \div 2

Listed(t) == t \in ToSet(list)

\* The list without t, whose one node is at one place in it.
Unlinked(l, t) ==
  IF t \in ToSet(l) THEN RemoveAt(l, CHOOSE i \in DOMAIN l : l[i] = t) ELSE l

\* The list with t before the first timer that comes after it.
Linked(l, t, tm) ==
  LET after == { i \in 1..Len(l) : IsAfter(tm[l[i]].timeout_tick, tm[t].timeout_tick) }
      at == IF after = {} THEN Len(l) + 1 ELSE CHOOSE i \in after : \A j \in after : i <= j
  IN InsertAt(l, at, t)

\* What the functions work on.
Here == [list |-> list, timer |-> timer, left |-> left]

Stamped(s, now, t) ==
  [s EXCEPT !.timer[t].timeout_tick = Plus(now, s.timer[t].init_tick), !.left[t] = s.timer[t].init_tick]

Inserted(s, t) ==
  [s EXCEPT !.list = Linked(s.list, t, s.timer), !.timer[t].activated = TRUE]

Removed(s, t) == [s EXCEPT !.list = Unlinked(s.list, t), !.timer[t].activated = FALSE]

Restart(s, now, t) == Stamped(s, now, t)

\* rt_timer_start where nothing can come between.
Started(s, now, t) == Inserted(Restart(Removed(s, t), now, t), t)

\* rt_timer_stop where nothing can come between.
Stopped(s, t) == IF s.timer[t].activated THEN Removed(s, t) ELSE s

Becomes(s) == list' = s.list /\ timer' = s.timer /\ left' = s.left
----------------------------------------------------------------------------
\* _rt_timer_init
Fresh(d, p) == [timeout_tick |-> 0, init_tick |-> d, periodic |-> p, activated |-> FALSE]

\* External: a period of no ticks is asked for by nobody.
Sensible(d, p) == p => d > 0

Init ==
  /\ rt_tick = 0 /\ list = <<>>
  /\ timer \in [Timers -> { Fresh(d, FALSE) : d \in Delays }]
  /\ pc = [t \in Timers |-> "idle"] /\ checking = FALSE
  /\ left = [t \in Timers |-> 0]

\* rt_timer_start: the timer is removed, its timeout computed, the timer inserted.
StartRemove(t) ==
  /\ pc[t] = "idle" /\ pc' = [pc EXCEPT ![t] = "removed"]
  /\ Becomes([Removed(Here, t) EXCEPT !.left[t] = 0])

StartStamp(t) ==
  /\ pc[t] = "removed" /\ pc' = [pc EXCEPT ![t] = "stamped"]
  /\ Becomes(Stamped(Here, rt_tick, t))

StartInsert(t) ==
  /\ pc[t] = "stamped" /\ pc' = [pc EXCEPT ![t] = "idle"]
  /\ Becomes(Inserted(Here, t))

\* rt_timer_stop: the flag is read, the timer removed, the flag cleared.
StopBegin(t) ==
  /\ pc[t] = "idle" /\ timer[t].activated
  /\ pc' = [pc EXCEPT ![t] = "stopping"]
  /\ UNCHANGED <<list, timer, left>>

StopRemove(t) ==
  /\ pc[t] = "stopping" /\ pc' = [pc EXCEPT ![t] = "unlinked"]
  /\ list' = Unlinked(list, t) /\ left' = [left EXCEPT ![t] = 0]
  /\ UNCHANGED timer

Unflagged(t) == [timer EXCEPT ![t].activated = FALSE]

StopFlag(t) ==
  /\ pc[t] = "unlinked" /\ pc' = [pc EXCEPT ![t] = "idle"]
  /\ timer' = Unflagged(t)
  /\ UNCHANGED <<list, left>>

\* rt_timer_control
Control(t) ==
  /\ pc[t] = "idle"
  /\ \E d \in Delays, p \in BOOLEAN :
       /\ Sensible(d, p)
       /\ timer' = [timer EXCEPT ![t].init_tick = d, ![t].periodic = p]
  /\ UNCHANGED <<list, pc, left>>

\* rt_timer_detach, then rt_timer_init: the flag is cleared by the second.
Detach(t) ==
  /\ pc[t] = "idle" /\ pc' = [pc EXCEPT ![t] = "detached"]
  /\ list' = Unlinked(list, t) /\ left' = [left EXCEPT ![t] = 0]
  /\ UNCHANGED timer

InitTimer(t) ==
  /\ pc[t] = "detached" /\ pc' = [pc EXCEPT ![t] = "idle"]
  /\ \E d \in Delays, p \in BOOLEAN :
       Sensible(d, p) /\ timer' = [timer EXCEPT ![t] = Fresh(d, p)]
  /\ UNCHANGED <<list, left>>

Thread(t) ==
  /\ ~checking
  /\ \/ StartRemove(t) \/ StartStamp(t) \/ StartInsert(t)
     \/ StopBegin(t) \/ StopRemove(t) \/ StopFlag(t)
     \/ Control(t) \/ Detach(t) \/ InitTimer(t)
  /\ UNCHANGED <<rt_tick, checking>>
----------------------------------------------------------------------------
\* rt_tick_increase
Tick ==
  /\ ~checking /\ checking' = TRUE
  /\ \A t \in Timers : pc[t] = "stamped" => timer[t].init_tick - left[t] < MaxPreempt
  /\ rt_tick' = Plus(rt_tick, 1)
  /\ left' = [t \in Timers |-> IF Listed(t) \/ pc[t] = "stamped" THEN left[t] - 1 ELSE left[t]]
  /\ UNCHANGED <<list, timer, pc>>

\* What a timer's callback does with the timer itself.
CalledBack(s, t) ==
  {s, Stopped(s, t)} \union (IF s.timer[t].init_tick > 0 THEN {Started(s, rt_tick, t)} ELSE {})

\* One pass of rt_timer_check's loop.
Expire ==
  /\ checking /\ list # <<>> /\ Due(Head(list), rt_tick)
  /\ LET t == Head(list)
         s0 == [Here EXCEPT !.list = Unlinked(list, t), !.left[t] = 0]
     IN \E s \in CalledBack(s0, t) :
          Becomes(IF s.timer[t].periodic /\ s.timer[t].activated
                  THEN Started(s, rt_tick, t)
                  ELSE [s EXCEPT !.timer[t].activated = FALSE])
  /\ UNCHANGED <<rt_tick, pc, checking>>

CheckEnd ==
  /\ checking /\ checking' = FALSE
  /\ list # <<>> => ~Due(Head(list), rt_tick)
  /\ UNCHANGED <<rt_tick, list, timer, pc, left>>

Isr == Tick \/ Expire \/ CheckEnd

Next == Isr \/ \E t \in Timers : Thread(t)

Spec == Init /\ [][Next]_vars

\* The tick interrupt comes, and ends if it can.
FairSpec == Spec /\ WF_vars(Isr)
----------------------------------------------------------------------------
\* The list is sorted by the time that is really left, though it is ordered by
\* comparing ticks that wrap and takes timers whose start was held up until after
\* they were due.
SortedByDue ==
  \A i, j \in 1..Len(list) : i < j => left[list[i]] <= left[list[j]]

\* The check of every tick ends.
CheckEnds == checking ~> ~checking

Promise ==
  INSTANCE Countdowns WITH
    running <- ToSet(list), MaxLate <- MaxPreempt,
    left <- [t \in Timers |-> IF Listed(t) THEN left[t] ELSE 0]

\* Timers expire on their tick, in the order they are due, and none is passed over.
ImplementsCountdowns == Promise!Spec
=============================================================================
