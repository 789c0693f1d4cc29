----------------------------- MODULE Countdowns -----------------------------
(***************************************************************************)
(* What the kernel's timers promise: a timer that was started for d ticks   *)
(* expires at the d-th tick, timers expire in the order they are due, and    *)
(* no timer that is due is still waiting when the check of a tick ends.      *)
(* Nothing is said of tick values, which wrap, or of the list.              *)
(***************************************************************************)
EXTENDS Integers

CONSTANTS
  Timers,
  Delays,     \* the delays timers are started for, in ticks
  MaxLate     \* ticks by which a start may be held up

VARIABLES
  running,    \* the timers that wait
  left,       \* ticks until each is due
  checking    \* a tick's check is under way

vars == <<running, left, checking>>

Init == running = {} /\ left = [t \in Timers |-> 0] /\ checking = FALSE

Start(t) ==
  /\ ~checking /\ t \notin running
  /\ running' = running \union {t}
  /\ \E d \in Delays, late \in 0..MaxLate : left' = [left EXCEPT ![t] = d - late]
  /\ UNCHANGED checking

Stop(t) ==
  /\ ~checking /\ t \in running
  /\ running' = running \ {t} /\ left' = [left EXCEPT ![t] = 0]
  /\ UNCHANGED checking

Elapse ==
  /\ ~checking /\ checking' = TRUE
  /\ left' = [t \in Timers |-> IF t \in running THEN left[t] - 1 ELSE left[t]]
  /\ UNCHANGED running

Expire(t) ==
  /\ checking /\ t \in running
  /\ left[t] <= 0 /\ \A u \in running : left[t] <= left[u]
  /\ \/ running' = running \ {t} /\ left' = [left EXCEPT ![t] = 0]
     \/ running' = running /\ \E d \in Delays : left' = [left EXCEPT ![t] = d]
  /\ UNCHANGED checking

Settle ==
  /\ checking /\ \A t \in running : left[t] > 0
  /\ checking' = FALSE
  /\ UNCHANGED <<running, left>>

Next == Elapse \/ Settle \/ \E t \in Timers : Start(t) \/ Stop(t) \/ Expire(t)

Spec == Init /\ [][Next]_vars
=============================================================================
