----------------------------- MODULE ThreadLife -----------------------------
(***************************************************************************)
(* The life of a thread, from rt_thread_create or rt_thread_init to the idle *)
(* thread that frees what is left of it (thread.c, idle.c, the ready lists   *)
(* of scheduler.c).  The lists are what they are in memory, nodes that point *)
(* at each other.  What runs with interrupts disabled is one step; between   *)
(* two of them a thread's timer may end, the tick may end a time slice, and  *)
(* an interrupt may release what a thread waits for.                         *)
(***************************************************************************)
EXTENDS Integers, Sequences, FiniteSets

CONSTANTS
  Threads, Idle,   \* the control blocks, and the idle thread's among them
  Manager,         \* the thread that starts, suspends, resumes and deletes others
  Kind,            \* "dynamic", "static", or "cleanup": static with a cleanup function
  Priority,        \* the priority of each thread, 1 is the highest here
  PriorityTable    \* rt_thread_priority_table: the list head of each priority

Defunct == "rt_thread_defunct"
Waiters == "suspend_thread"     \* the list of an object that threads wait for
Priorities == 1..Len(PriorityTable)
Heads == { PriorityTable[p] : p \in Priorities } \union {Defunct, Waiters}
Nodes == Threads \union Heads

\* The list heads are objects of their own, in no control block.
ASSUME LifeAssumption ==
  /\ {Idle, Manager} \subseteq Threads /\ Idle # Manager
  /\ Kind \in [Threads -> {"dynamic", "static", "cleanup"}]
  /\ Len(PriorityTable) \in Nat /\ Priority \in [Threads -> Priorities]
  /\ \A t \in Threads \ {Idle} : Priority[t] < Priority[Idle]
  /\ Heads \intersect Threads = {}
  /\ \A p, q \in Priorities : PriorityTable[p] = PriorityTable[q] => p = q
  /\ \A p \in Priorities : PriorityTable[p] \notin {Defunct, Waiters}

\* The control blocks are in memory, so there are finitely many.
ASSUME FiniteAssumption == IsFiniteSet(Threads)

VARIABLES
  kernel,   \* the lists, the threads' states and timers, the priority group, who runs
  mem,      \* what exists of each thread
  call      \* where each thread is in its call (history: gone), and whom the call is on

vars == <<kernel, mem, call>>
----------------------------------------------------------------------------
\* rtservice.h
Removed(k, n) ==
  LET after == k.next[n]  before == k.prev[n]
  IN [k EXCEPT !.prev[after] = before, !.next[before] = after, !.next[n] = n, !.prev[n] = n]

InsertBefore(k, l, n) ==
  LET last == k.prev[l]
  IN [k EXCEPT !.next[last] = n, !.prev[n] = last, !.prev[l] = n, !.next[n] = l]

InsertAfter(k, l, n) ==
  LET first == k.next[l]
  IN [k EXCEPT !.prev[first] = n, !.next[n] = first, !.next[l] = n, !.prev[n] = l]

Empty(k, l) == k.next[l] = l
Alone(k, t) == k.next[t] = k.prev[t]

ReadyList(t) == PriorityTable[Priority[t]]

\* rt_schedule_insert_thread
ScheduleInsert(k, t) ==
  [InsertBefore(k, ReadyList(t), t) EXCEPT !.stat[t] = "ready", !.group = @ \union {Priority[t]}]

\* rt_schedule_remove_thread
ScheduleRemove(k, t) ==
  LET r == Removed(k, t)
  IN [r EXCEPT !.group = IF Empty(r, ReadyList(t)) THEN @ \ {Priority[t]} ELSE @]

\* The thread rt_schedule finds: the first of the highest priority in the group.
NextToRun(k) ==
  k.next[PriorityTable[CHOOSE p \in k.group : \A q \in k.group : p <= q]]

\* rt_schedule
Schedule(k) == [k EXCEPT !.current = NextToRun(k)]

\* rt_thread_suspend with interrupts disabled, on a thread that was found ready.
SuspendSection(k, t) ==
  [ScheduleRemove([k EXCEPT !.stat[t] = "suspend"], t) EXCEPT !.timer[t] = FALSE]

\* rt_thread_resume's first section.
ResumeSection(k, t) == [Removed(k, t) EXCEPT !.timer[t] = FALSE]

\* rt_thread_timeout, which the timer's interrupt calls.
Timeout(k, t) ==
  Schedule(ScheduleInsert(Removed([k EXCEPT !.timer[t] = FALSE], t), t))
----------------------------------------------------------------------------
Init ==
  /\ mem = [t \in Threads |-> IF t \in {Idle, Manager} THEN "live" ELSE "absent"]
  /\ call = [t \in Threads |-> [at |-> "run", on |-> t]]
  /\ kernel =
       LET nothing == [ next |-> [n \in Nodes |-> n], prev |-> [n \in Nodes |-> n],
                        stat |-> [t \in Threads |-> "none"], timer |-> [t \in Threads |-> FALSE],
                        group |-> {}, current |-> Idle ]
       IN Schedule(ScheduleInsert(ScheduleInsert(nothing, Manager), Idle))

\* Thread t runs, and is at `at'.
Runs(t, at) == kernel.current = t /\ call[t].at = at

Goes(t, at, on) == call' = [call EXCEPT ![t] = [at |-> at, on |-> on]]

\* t's call on another thread goes on at `at', with the kernel as k says.
Section(t, k, at) == kernel' = k /\ Goes(t, at, call[t].on) /\ UNCHANGED mem

\* t begins a call on thread w.
Begins(t, w, at) == t = Manager /\ Runs(t, "run") /\ w \notin {Idle, Manager} /\ Goes(t, at, w)

\* rt_thread_create or rt_thread_init.
Create(t, w) ==
  /\ t = Manager /\ Runs(t, "run") /\ mem[w] = "absent" /\ w # Manager
  /\ call' = [call EXCEPT ![w] = [at |-> "run", on |-> w]]
  /\ mem' = [mem EXCEPT ![w] = "live"]
  /\ kernel' = [kernel EXCEPT !.next[w] = w, !.prev[w] = w, !.stat[w] = "init", !.timer[w] = FALSE]

\* rt_thread_startup, up to its rt_thread_resume.
Startup(t, w) ==
  /\ Begins(t, w, "resume") /\ mem[w] = "live" /\ kernel.stat[w] = "init"
  /\ kernel' = [kernel EXCEPT !.stat[w] = "suspend"] /\ UNCHANGED mem

\* Nothing but a call can wake w: it suspended itself, or was suspended.
Parked(w) == kernel.stat[w] = "suspend" /\ kernel.next[w] = w /\ ~kernel.timer[w]

\* Mutant: what the code allows.
ResumeAny(t, w) == Begins(t, w, "resume") /\ mem[w] = "live" /\ kernel.stat[w] # "init" /\ UNCHANGED <<kernel, mem>>

\* rt_thread_resume looks at the state before it disables interrupts.  A thread that
\* an interrupt could wake in between might have exited when the call goes on, and be
\* taken from the defunct list to run again: the manager resumes parked threads only.
Resume(t, w) ==
  /\ Begins(t, w, "resume") /\ mem[w] = "live" /\ Parked(w)
  /\ UNCHANGED <<kernel, mem>>

ResumeCheck(t) ==
  /\ Runs(t, "resume")
  /\ Section(t, kernel, IF kernel.stat[call[t].on] = "suspend" THEN "resume_remove" ELSE "schedule")

ResumeRemove(t) ==
  Runs(t, "resume_remove") /\ Section(t, ResumeSection(kernel, call[t].on), "resume_insert")

ResumeInsert(t) ==
  Runs(t, "resume_insert") /\ Section(t, ScheduleInsert(kernel, call[t].on), "schedule")

\* Mutant: what the code allows.
SuspendAny(t, w) ==
  /\ t = Manager /\ Runs(t, "run") /\ w # Idle /\ Goes(t, "suspend", w)
  /\ mem[w] = "live" /\ kernel.stat[w] = "ready" /\ UNCHANGED <<kernel, mem>>

\* rt_thread_suspend, which looks at the state in the same way: of itself, or of a
\* thread that cannot run in between.
Suspend(t, w) ==
  /\ Runs(t, "run") /\ t # Idle /\ Goes(t, "suspend", w)
  /\ \/ w = t /\ t # Manager
     \/ t = Manager /\ Priority[t] < Priority[w] /\ w # Idle
  /\ mem[w] = "live" /\ kernel.stat[w] = "ready" /\ UNCHANGED <<kernel, mem>>

SuspendDone(t) ==
  Runs(t, "suspend") /\ Section(t, SuspendSection(kernel, call[t].on), "schedule")

\* Mutant: what the code allows.
DeleteTimed(t, w) ==
  /\ Begins(t, w, "delete_timer") /\ mem[w] = "live" /\ kernel.stat[w] # "close"
  /\ kernel' = IF kernel.stat[w] = "init" THEN kernel ELSE ScheduleRemove(kernel, w)
  /\ UNCHANGED mem

\* rt_thread_delete and rt_thread_detach.  Between their sections a timer that
\* still ran could make the thread ready again, and leave it in two lists: the
\* manager deletes no thread whose timer runs.
Delete(t, w) ==
  /\ Begins(t, w, "delete_timer") /\ mem[w] = "live" /\ kernel.stat[w] # "close"
  /\ ~kernel.timer[w]
  /\ kernel' = IF kernel.stat[w] = "init" THEN kernel ELSE ScheduleRemove(kernel, w)
  /\ UNCHANGED mem

DeleteTimer(t) ==
  /\ Runs(t, "delete_timer")
  /\ Section(t, [kernel EXCEPT !.timer[call[t].on] = FALSE], "delete_close")

\* Mutant: no static thread is left for the idle thread, whatever is to be cleaned up.
ClosedUnseen(k, w) ==
  LET c == [k EXCEPT !.stat[w] = "close"]
  IN IF Kind[w] # "dynamic" THEN c ELSE InsertAfter(c, Defunct, w)

\* A thread that closes is left for the idle thread, or is gone if nothing of it
\* is to be freed or cleaned up.
Closed(k, w) ==
  LET c == [k EXCEPT !.stat[w] = "close"]
  IN IF Kind[w] = "static" THEN c ELSE InsertAfter(c, Defunct, w)
Remains(w) == IF Kind[w] = "static" THEN "absent" ELSE "live"

\* rt_thread_detach stores the state before it disables interrupts to go on;
\* rt_thread_delete does both in one section.
DetachStore(t) ==
  /\ Runs(t, "delete_close") /\ Kind[call[t].on] # "dynamic"
  /\ Section(t, [kernel EXCEPT !.stat[call[t].on] = "close"], "detach_insert")

DeleteClose(t) ==
  /\ \/ Runs(t, "delete_close") /\ Kind[call[t].on] = "dynamic"
     \/ Runs(t, "detach_insert")
  /\ call' = [call EXCEPT ![t] = [at |-> "run", on |-> t], ![call[t].on].at = "gone"]
  /\ kernel' = Closed(kernel, call[t].on)
  /\ mem' = [mem EXCEPT ![call[t].on] = Remains(call[t].on)]

\* rt_thread_exit, where a thread's entry function returns to.
Exit(t) ==
  /\ Runs(t, "run") /\ t # Idle /\ Goes(t, "exit", t)
  /\ kernel' = [Closed(ScheduleRemove(kernel, t), t) EXCEPT !.timer[t] = FALSE]
  /\ mem' = [mem EXCEPT ![t] = Remains(t)]

\* rt_thread_sleep, and a wait for the object (rt_sem_take), with a time or forever.
Sleep(t) ==
  /\ Runs(t, "run") /\ t # Idle
  /\ Section(t, [SuspendSection(kernel, t) EXCEPT !.timer[t] = TRUE], "schedule")

Wait(t) ==
  /\ Runs(t, "run") /\ t # Idle
  /\ \E timed \in BOOLEAN :
       LET k == InsertBefore(SuspendSection(kernel, t), Waiters, t)
       IN Section(t, [k EXCEPT !.timer[t] = timed], "schedule")

\* The rt_schedule at the end of a call; that of rt_thread_exit does not return.
CallSchedule(t) ==
  /\ kernel' = Schedule(kernel) /\ UNCHANGED mem
  /\ \/ Runs(t, "schedule") /\ Goes(t, "run", t)
     \/ Runs(t, "exit") /\ Goes(t, "gone", t)

CallOn(t, w) == Create(t, w) \/ Startup(t, w) \/ Resume(t, w) \/ Suspend(t, w) \/ Delete(t, w)

Step(t) ==
  \/ ResumeCheck(t) \/ ResumeRemove(t) \/ ResumeInsert(t) \/ SuspendDone(t)
  \/ DeleteTimer(t) \/ DetachStore(t) \/ DeleteClose(t) \/ Exit(t) \/ Sleep(t) \/ Wait(t) \/ CallSchedule(t)
----------------------------------------------------------------------------
\* Mutant: the thread stays in the list while it is freed.
IdleLooks ==
  LET w == kernel.next[Defunct]
  IN /\ Runs(Idle, "run") /\ ~Empty(kernel, Defunct)
     /\ kernel' = kernel
     /\ \/ Kind[w] = "dynamic" /\ Goes(Idle, "free_stack", w) /\ UNCHANGED mem
        \/ Kind[w] # "dynamic" /\ Goes(Idle, "run", Idle) /\ mem' = [mem EXCEPT ![w] = "absent"]

\* rt_thread_idle_excute: the first of the defunct list is taken out.  It returns
\* after a system object, and goes on to free what was allocated.
IdleTake ==
  LET w == kernel.next[Defunct]
  IN /\ Runs(Idle, "run") /\ ~Empty(kernel, Defunct)
     /\ kernel' = Schedule(Removed(kernel, w))
     /\ \/ Kind[w] = "dynamic" /\ Goes(Idle, "free_stack", w) /\ UNCHANGED mem
        \/ Kind[w] # "dynamic" /\ Goes(Idle, "run", Idle) /\ mem' = [mem EXCEPT ![w] = "absent"]

FreeStack ==
  /\ Runs(Idle, "free_stack") /\ Goes(Idle, "free_object", call[Idle].on)
  /\ mem' = [mem EXCEPT ![call[Idle].on] = "stackless"] /\ UNCHANGED kernel

FreeObject ==
  /\ Runs(Idle, "free_object") /\ Goes(Idle, "run", Idle)
  /\ mem' = [mem EXCEPT ![call[Idle].on] = "absent"] /\ UNCHANGED kernel

IdleStep == IdleTake \/ FreeStack \/ FreeObject
----------------------------------------------------------------------------
Interrupt(k) == kernel' = k /\ UNCHANGED <<mem, call>>

\* rt_tick_increase; the running thread's time slice may be over (rt_thread_yield).
Tick ==
  LET t == kernel.current
  IN Interrupt(IF kernel.stat[t] = "ready" /\ ~Alone(kernel, t)
               THEN Schedule(InsertBefore(Removed(kernel, t), ReadyList(t), t)) ELSE kernel)

Expire(t) == kernel.timer[t] /\ Interrupt(Timeout(kernel, t))

\* An interrupt releases the object: rt_thread_resume, with interrupts disabled.
IsrRelease ==
  LET w == kernel.next[Waiters]
  IN /\ ~Empty(kernel, Waiters) /\ kernel.stat[w] = "suspend"
     /\ Interrupt(Schedule(ScheduleInsert(ResumeSection(kernel, w), w)))

Next ==
  \/ Tick \/ IsrRelease \/ IdleStep
  \/ \E t \in Threads : Step(t) \/ Expire(t) \/ \E w \in Threads : CallOn(t, w)

\* An idle thread that gets the processor again and again makes its steps.
Spec == Init /\ [][Next]_vars /\ SF_vars(IdleStep)
----------------------------------------------------------------------------
Listed(l) ==
  LET node[i \in 0..Cardinality(Nodes)] == IF i = 0 THEN l ELSE kernel.next[node[i - 1]]
  IN { node[i] : i \in 1..Cardinality(Nodes) } \ {l}

\* The manager's call has taken t out of its list and has more to do.
HalfDeleted(t) ==
  call[Manager].on = t /\ call[Manager].at \in {"delete_timer", "delete_close", "detach_insert"}

\* Whenever an interrupt calls rt_schedule it finds a ready thread that exists and did
\* not exit, and a thread that runs its own code is one: none runs after it was closed.
PicksReady ==
  /\ LET t == NextToRun(kernel)
     IN t \in Threads /\ kernel.stat[t] = "ready" /\ mem[t] = "live" /\ call[t].at # "gone"
  /\ call[kernel.current].at \notin {"schedule", "exit"} => kernel.stat[kernel.current] = "ready"

\* The lists are whole, whatever call was interrupted where: a thread is in the list
\* that its state names, but for one that is half deleted, a priority is in the
\* group if its list is not empty, and the defunct list has every closed thread that is
\* still to be freed.  A timer runs for a suspended thread only, as rt_thread_timeout asserts.
ListsSound ==
  /\ \A n \in Nodes : kernel.next[kernel.prev[n]] = n /\ kernel.prev[kernel.next[n]] = n
  /\ \A p \in Priorities :
       /\ Listed(PriorityTable[p]) =
            { t \in Threads : kernel.stat[t] = "ready" /\ Priority[t] = p /\ ~HalfDeleted(t) }
       /\ Listed(PriorityTable[p]) # {} <=> p \in kernel.group
  /\ \A t \in Listed(Waiters) : kernel.stat[t] = "suspend"
  /\ Listed(Defunct) = { t \in Threads : kernel.stat[t] = "close" /\ mem[t] = "live" /\ ~HalfDeleted(t)
                                           /\ ~(call[Idle].at = "free_stack" /\ call[Idle].on = t) }
  /\ \A t \in Threads : kernel.timer[t] => kernel.stat[t] = "suspend" /\ mem[t] = "live"

\* What is freed is used by nobody: no list reaches it, its timer does not run, and it
\* is not the running thread's stack.
FreedUnused ==
  \A t \in Threads : mem[t] # "live" =>
    /\ \A n \in Nodes : kernel.next[n] = t => n = t
    /\ ~kernel.timer[t]
    /\ kernel.current = t => Kind[t] = "static" /\ call[t].at = "exit"

\* If the idle thread runs again and again and no more threads close, every closed
\* thread is freed.
Reclaimed ==
  ( /\ []<>(kernel.current = Idle)
    /\ <>[][\A t \in Threads : kernel'.stat[t] = "close" => kernel.stat[t] = "close"]_vars )
  => \A t \in Threads : (kernel.stat[t] = "close" ~> (mem[t] = "absent" \/ kernel.stat[t] # "close"))
=============================================================================
