--------------------------- MODULE KernelThreads ---------------------------
(***************************************************************************)
(* Threads, their scheduler, semaphores and mutexes (thread.c, scheduler.c,  *)
(* ipc.c).  What a call does with interrupts disabled is one step, and the   *)
(* rt_schedule that follows it another: the tick interrupt, or an interrupt  *)
(* that releases the semaphore, may come between, and between any two calls. *)
(* A thread's timer is a count of ticks, as Countdowns promises.             *)
(***************************************************************************)
EXTENDS Integers, Sequences, FiniteSets, SequencesExt

CONSTANTS
  Threads, Idle,   \* the threads, and the idle thread among them
  InitPriority,    \* the priority each thread starts with; 0 is the highest
  Flag,            \* "FIFO" or "PRIO": how the objects queue their waiters
  Times,           \* ticks a thread sleeps or waits, beside 0 and waiting forever
  SemInit,         \* the semaphore's first value
  MaxTokens,       \* bound: the value and the takers of the semaphore together
  MaxHold          \* bound: how deep a thread nests the mutex

Priorities == 0..InitPriority[Idle]

ASSUME ThreadAssumption ==
  /\ Idle \in Threads /\ InitPriority \in [Threads -> Nat]
  /\ \A t \in Threads \ {Idle} : InitPriority[t] < InitPriority[Idle]
  /\ IsFiniteSet(Threads) /\ "nobody" \notin Threads
  /\ Flag \in {"FIFO", "PRIO"} /\ Times \subseteq Nat \ {0}
  /\ SemInit \in Nat /\ MaxTokens \in Nat /\ SemInit <= MaxTokens /\ MaxHold \in Nat

VARIABLES
  kernel,      \* the scheduler's and the objects' state; lowered, a history, says that a
               \* release lowered the running thread's priority and nothing scheduled since
  pc,          \* where each thread is in its call
  isr,         \* the tick interrupt checks the timers
  has          \* history: what each thread was told, and given

vars == <<kernel, pc, isr, has>>

Off     == -1        \* a thread's timer that is not running
Forever == -1        \* RT_WAITING_FOREVER
Nobody  == "nobody"  \* RT_NULL
NoPriority == 255
----------------------------------------------------------------------------
\* rt_schedule_insert_thread, and the timer that rt_thread_resume stops first.
ScheduleInsert(k, t) ==
  [k EXCEPT !.stat[t] = "ready", !.ready[k.prio[t]] = Append(@, t)]

\* A thread's list node is in one list: it is taken out of whichever it is in.
Unlisted(k, t) ==
  [k EXCEPT !.ready[k.prio[t]] = RemoveFirst(@, t),
            !.sem.suspend_thread = RemoveFirst(@, t), !.mutex.suspend_thread = RemoveFirst(@, t)]

\* Mutant: a thread that timed out stays in the queue of the object it waited for.
StaysListed(k, t) == k

TimerStopped(k, t) == [k EXCEPT !.timer[t] = Off]

ThreadResume(k, t) ==
  IF k.stat[t] = "suspended" THEN ScheduleInsert(TimerStopped(Unlisted(k, t), t), t) ELSE k

ThreadSuspend(k, t) ==
  IF k.stat[t] = "ready"
  THEN [TimerStopped(Unlisted(k, t), t) EXCEPT !.stat[t] = "suspended"] ELSE k

\* rt_thread_control, RT_THREAD_CTRL_CHANGE_PRIORITY
ChangePriority(k, t, p) ==
  IF k.stat[t] = "ready" THEN ScheduleInsert([Unlisted(k, t) EXCEPT !.prio[t] = p], t)
  ELSE [k EXCEPT !.prio[t] = p]

ReadyPriorities(k) == { p \in Priorities : k.ready[p] # <<>> }
Highest(k) == CHOOSE p \in ReadyPriorities(k) : \A q \in ReadyPriorities(k) : p <= q

\* rt_schedule
Schedule(k) ==
  IF k.lock_nest > 0 THEN k ELSE [k EXCEPT !.current = Head(k.ready[Highest(k)]), !.lowered = FALSE]

\* rt_thread_yield up to its rt_schedule: the running thread goes behind the others
\* of its priority, if there are others.
Yields(k) == k.stat[k.current] = "ready" /\ Len(k.ready[k.prio[k.current]]) > 1
Yielded(k) == ScheduleInsert(Unlisted(k, k.current), k.current)

\* rt_thread_timeout takes the thread out of the list it waits in.
TimeoutUnlisted(k, t) == Unlisted(k, t)

\* The timer has been stopped when it calls rt_thread_timeout.
TimedOut(k, t) ==
  ScheduleInsert([TimeoutUnlisted(k, t) EXCEPT !.error[t] = "timeout", !.timer[t] = Off], t)

\* Mutant: the thread that timed out waits for the next call that schedules.
TimeoutUnscheduled(k, t) == TimedOut(k, t)

\* rt_thread_timeout
ThreadTimeout(k, t) == Schedule(TimedOut(k, t))

TimerStarted(k, t, time) == IF time > 0 THEN [k EXCEPT !.timer[t] = time] ELSE k
----------------------------------------------------------------------------
\* rt_ipc_list_suspend: at the end, or before the first of lower priority.
Queued(k, list, t) ==
  LET lower == { i \in 1..Len(list) : k.prio[t] < k.prio[list[i]] }
      at == IF Flag = "FIFO" \/ lower = {} THEN Len(list) + 1
            ELSE CHOOSE i \in lower : \A j \in lower : i <= j
  IN InsertAt(list, at, t)

\* rt_sem_take where the value is 0.
SemWait(k, t, time) ==
  LET s == ThreadSuspend([k EXCEPT !.error[t] = "ok"], t)
  IN TimerStarted([s EXCEPT !.sem.suspend_thread = Queued(s, @, t)], t, time)

\* Mutant: the value counts a token that a waiter was given.
ReleaseTwice(k) ==
  [(IF k.sem.suspend_thread # <<>> THEN ThreadResume(k, Head(k.sem.suspend_thread)) ELSE k)
    EXCEPT !.sem.value = @ + 1]

\* rt_sem_release up to its rt_schedule.
SemRelease(k) ==
  IF k.sem.suspend_thread # <<>> THEN ThreadResume(k, Head(k.sem.suspend_thread))
  ELSE [k EXCEPT !.sem.value = @ + 1]

\* Mutant: the owner keeps its priority while a thread of higher priority waits.
NotInherited(k, t) == k

\* The owner of a mutex gets the priority of a thread that waits for it.
Inherited(k, t) ==
  IF k.prio[t] < k.prio[k.mutex.owner] THEN ChangePriority(k, k.mutex.owner, k.prio[t]) ELSE k

\* rt_mutex_take where another thread is the owner.
MutexWait(k, t, time) ==
  LET s == ThreadSuspend(Inherited([k EXCEPT !.error[t] = "ok"], t), t)
  IN TimerStarted([s EXCEPT !.mutex.suspend_thread = Queued(s, @, t)], t, time)

\* Mutant: the new owner's hold is not counted.
OwnedUnheld(k, t) ==
  [k EXCEPT !.mutex.value = 0, !.mutex.owner = t, !.mutex.original_priority = k.prio[t]]

Owned(k, t) ==
  [k EXCEPT !.mutex.value = 0, !.mutex.owner = t, !.mutex.original_priority = k.prio[t],
            !.mutex.hold = 1]

Restored(k) ==
  IF k.mutex.original_priority # k.prio[k.mutex.owner]
  THEN ChangePriority([k EXCEPT !.lowered = TRUE], k.mutex.owner, k.mutex.original_priority) ELSE k

\* rt_mutex_release by the owner's last release, up to its rt_schedule.
MutexPassOn(k) ==
  LET r == Restored(k)
      w == Head(r.mutex.suspend_thread)
  IN IF r.mutex.suspend_thread # <<>> THEN ThreadResume(Owned(r, w), w)
     ELSE [r EXCEPT !.mutex.value = 1, !.mutex.owner = Nobody, !.mutex.hold = 0,
                    !.mutex.original_priority = NoPriority]
----------------------------------------------------------------------------
Init ==
  /\ kernel =
       LET started == [ current |-> Idle, lock_nest |-> 0, lowered |-> FALSE,
                        ready |-> [p \in Priorities |-> SetToSeq({ t \in Threads : InitPriority[t] = p })],
                        stat |-> [t \in Threads |-> "ready"], prio |-> InitPriority,
                        error |-> [t \in Threads |-> "ok"], timer |-> [t \in Threads |-> Off],
                        sem |-> [value |-> SemInit, suspend_thread |-> <<>>],
                        mutex |-> [value |-> 1, owner |-> Nobody, hold |-> 0,
                                   original_priority |-> NoPriority, suspend_thread |-> <<>>] ]
       IN Schedule(started)
  /\ pc = [t \in Threads |-> "run"] /\ isr = FALSE
  /\ has = [ tokens |-> {}, told |-> {}, depth |-> [t \in Threads |-> 0] ]

\* The running thread t makes a call.
Calls(t) == ~isr /\ kernel.current = t /\ pc[t] = "run" /\ t # Idle

\* The part of a call that changes no more than the kernel's state ends, and
\* goes on at `next'.
Section(t, k, next) ==
  kernel' = k /\ pc' = [pc EXCEPT ![t] = next] /\ UNCHANGED isr

\* rt_sem_take; with time 0 (rt_sem_trytake) a thread that finds no token returns and
\* leaves all as it is.
SemTake(t) ==
  /\ Calls(t) /\ t \notin has.told
  /\ \/ /\ kernel.sem.value > 0
        /\ Section(t, [kernel EXCEPT !.sem.value = @ - 1], "run")
        /\ has' = [has EXCEPT !.tokens = @ \union {t}, !.told = @ \union {t}]
     \/ /\ kernel.sem.value = 0 /\ kernel.lock_nest = 0
        /\ \E time \in Times \union {Forever} : Section(t, SemWait(kernel, t, time), "sem_schedule")
        /\ UNCHANGED has

\* The thread is told what its error number says.
SemTaken(t) ==
  /\ ~isr /\ kernel.current = t /\ pc[t] = "sem_woken"
  /\ Section(t, kernel, "run")
  /\ has' = [has EXCEPT !.told = IF kernel.error[t] = "ok" THEN @ \union {t} ELSE @]

\* A waiter that a release resumes has its token.
Passed(tokens) ==
  IF kernel.sem.suspend_thread = <<>> THEN tokens ELSE tokens \union {Head(kernel.sem.suspend_thread)}

\* rt_sem_release by a thread that took it.
SemGive(t) ==
  /\ Calls(t) /\ t \in has.told
  /\ Section(t, SemRelease(kernel), IF kernel.sem.suspend_thread = <<>> THEN "run" ELSE "schedule")
  /\ has' = [has EXCEPT !.tokens = Passed(@ \ {t}), !.told = @ \ {t}]

\* rt_mutex_take: the owner nests, and a thread that finds another owner waits, or with
\* time 0 returns at once with its error set.
MutexTake(t) ==
  /\ Calls(t)
  /\ \/ /\ kernel.mutex.owner = t /\ kernel.mutex.hold < MaxHold
        /\ Section(t, [kernel EXCEPT !.error[t] = "ok", !.mutex.hold = @ + 1], "run")
        /\ has' = [has EXCEPT !.depth[t] = @ + 1]
     \/ /\ kernel.mutex.owner # t /\ kernel.mutex.value > 0
        /\ Section(t, Owned([kernel EXCEPT !.error[t] = "ok"], t), "run")
        /\ has' = [has EXCEPT !.depth[t] = @ + 1]
     \/ /\ kernel.mutex.owner # t /\ kernel.mutex.value = 0
        /\ Section(t, [kernel EXCEPT !.error[t] = "timeout"], "run")
        /\ UNCHANGED has
     \/ /\ kernel.mutex.owner # t /\ kernel.mutex.value = 0 /\ kernel.lock_nest = 0
        /\ \E time \in Times \union {Forever} : Section(t, MutexWait(kernel, t, time), "mutex_schedule")
        /\ UNCHANGED has

MutexTaken(t) ==
  /\ ~isr /\ kernel.current = t /\ pc[t] = "mutex_woken"
  /\ Section(t, kernel, "run")
  /\ has' = [has EXCEPT !.depth[t] = IF kernel.error[t] = "ok" THEN @ + 1 ELSE @]

\* rt_mutex_release by a thread that was told it has the mutex; it is refused to
\* a thread that is not the owner.
MutexGive(t) ==
  /\ Calls(t) /\ has.depth[t] > 0
  /\ has' = [has EXCEPT !.depth[t] = @ - 1]
  /\ \/ /\ kernel.mutex.owner # t /\ Section(t, [kernel EXCEPT !.error[t] = "error"], "run")
     \/ /\ kernel.mutex.owner = t /\ kernel.mutex.hold > 1
        /\ Section(t, [kernel EXCEPT !.mutex.hold = @ - 1], "run")
     \/ /\ kernel.mutex.owner = t /\ kernel.mutex.hold = 1
        /\ Section(t, MutexPassOn(kernel),
                   IF kernel.mutex.suspend_thread = <<>> THEN "run" ELSE "schedule")

\* rt_thread_sleep
Sleep(t) ==
  /\ Calls(t) /\ kernel.lock_nest = 0 /\ UNCHANGED has
  /\ \E time \in Times :
       Section(t, TimerStarted(ThreadSuspend(kernel, t), t, time), "sleep_schedule")

SleepOver(t) ==
  /\ ~isr /\ kernel.current = t /\ pc[t] = "sleep_woken" /\ UNCHANGED has
  /\ Section(t, [kernel EXCEPT !.error[t] = IF @ = "timeout" THEN "ok" ELSE @], "run")

\* rt_thread_yield
YieldCall(t) ==
  /\ Calls(t) /\ Yields(kernel) /\ UNCHANGED has
  /\ Section(t, Yielded(kernel), "schedule")

\* rt_enter_critical, rt_exit_critical
EnterCritical(t) ==
  /\ Calls(t) /\ kernel.lock_nest = 0 /\ UNCHANGED has
  /\ Section(t, [kernel EXCEPT !.lock_nest = @ + 1], "run")

ExitCritical(t) ==
  /\ Calls(t) /\ kernel.lock_nest > 0 /\ UNCHANGED has
  /\ Section(t, [kernel EXCEPT !.lock_nest = @ - 1], "schedule")

\* The rt_schedule at the end of a call.
After(c) ==
  CASE c = "sem_schedule" -> "sem_woken"     [] c = "mutex_schedule" -> "mutex_woken"
    [] c = "sleep_schedule" -> "sleep_woken" [] c = "schedule" -> "run"

CallSchedule(t) ==
  /\ ~isr /\ kernel.current = t
  /\ pc[t] \in {"schedule", "sem_schedule", "mutex_schedule", "sleep_schedule"}
  /\ Section(t, Schedule(kernel), After(pc[t]))
  /\ UNCHANGED has

Thread(t) ==
  \/ SemTake(t) \/ SemTaken(t) \/ SemGive(t) \/ MutexTake(t) \/ MutexTaken(t) \/ MutexGive(t)
  \/ Sleep(t) \/ SleepOver(t) \/ YieldCall(t) \/ EnterCritical(t) \/ ExitCritical(t)
  \/ CallSchedule(t)
----------------------------------------------------------------------------
\* rt_tick_increase: the running thread's time slice may be over.
Tick ==
  /\ ~isr /\ isr' = TRUE /\ UNCHANGED <<pc, has>>
  /\ \E over \in BOOLEAN :
       LET k == IF over /\ Yields(kernel) THEN Schedule(Yielded(kernel)) ELSE kernel
       IN kernel' = [k EXCEPT !.timer = [t \in Threads |-> IF @[t] > 0 THEN @[t] - 1 ELSE @[t]]]

Expire(t) ==
  /\ isr /\ kernel.timer[t] = 0
  /\ kernel' = ThreadTimeout(kernel, t)
  /\ UNCHANGED <<pc, isr, has>>

TickEnd ==
  /\ isr /\ \A t \in Threads : kernel.timer[t] # 0
  /\ isr' = FALSE /\ UNCHANGED <<kernel, pc, has>>

\* An interrupt releases the semaphore.
IsrRelease ==
  /\ ~isr /\ kernel.sem.value + Cardinality(has.tokens) < MaxTokens
  /\ LET k == SemRelease(kernel)
     IN /\ kernel' = IF kernel.sem.suspend_thread = <<>> THEN k ELSE Schedule(k)
  /\ has' = [has EXCEPT !.tokens = Passed(@)]
  /\ UNCHANGED <<pc, isr>>

Next ==
  \/ Tick \/ TickEnd \/ IsrRelease
  \/ \E t \in Threads : Thread(t) \/ Expire(t)

Spec == Init /\ [][Next]_vars
----------------------------------------------------------------------------
Waiting(k) == ToSet(k.sem.suspend_thread) \union ToSet(k.mutex.suspend_thread)

InOneList(k, t) ==
  /\ \A p \in Priorities : t \in ToSet(k.ready[p]) <=> k.stat[t] = "ready" /\ k.prio[t] = p
  /\ t \in Waiting(k) => k.stat[t] = "suspended"
  /\ t \in ToSet(k.sem.suspend_thread) => t \notin ToSet(k.mutex.suspend_thread)
  /\ k.timer[t] # Off => k.stat[t] = "suspended"
  /\ k.stat[t] = "suspended" /\ t \notin Waiting(k) => k.timer[t] # Off

NoneTwice(k) ==
  /\ \A p \in Priorities : IsInjective(k.ready[p])
  /\ IsInjective(k.sem.suspend_thread) /\ IsInjective(k.mutex.suspend_thread)

\* A thread is in one list and once: the ready list of its priority if it is ready,
\* at most one object's if it is suspended; only a suspended thread's timer runs,
\* as rt_thread_timeout asserts; a suspended thread outside a list sleeps.
ListsAgree == NoneTwice(kernel) /\ \A t \in Threads : InOneList(kernel, t)

\* rt_sem_take tells a thread it has the semaphore if and only if it was given a
\* token, whichever of release and timeout comes first; no token is lost or made,
\* and nobody waits while there is one.
SemaphoreHonest ==
  /\ has.told \subseteq has.tokens
  /\ \A t \in has.tokens \ has.told :
       pc[t] \in {"sem_schedule", "sem_woken"} /\ kernel.stat[t] = "ready" /\ kernel.error[t] = "ok"
  /\ \A t \in Threads : pc[t] = "sem_woken" /\ kernel.error[t] = "ok" /\ kernel.stat[t] = "ready"
       => t \in has.tokens
  /\ kernel.sem.suspend_thread # <<>> => kernel.sem.value = 0
  /\ SemInit <= kernel.sem.value + Cardinality(has.tokens)
  /\ kernel.sem.value + Cardinality(has.tokens) <= MaxTokens

\* A thread that was told it has the mutex owns it, as often as it was told.
MutexHonest ==
  /\ \A t \in Threads : has.depth[t] > 0 => kernel.mutex.owner = t /\ kernel.mutex.hold = has.depth[t]
  /\ kernel.mutex.value = 1 <=> kernel.mutex.owner = Nobody
  /\ kernel.mutex.suspend_thread # <<>> => kernel.mutex.owner # Nobody

\* No thread waits for the mutex at a higher priority than the owner runs at, and
\* only the owner runs at a priority that is not its own.
PriorityLent ==
  /\ \A t \in ToSet(kernel.mutex.suspend_thread) : kernel.prio[kernel.mutex.owner] <= kernel.prio[t]
  /\ \A t \in Threads : kernel.prio[t] # InitPriority[t] => kernel.mutex.owner = t

\* No ready thread has a higher priority than the running one, when the running
\* one is between calls.  Excused is the time from a release that lowered the
\* running thread's priority and woke nobody, which rt_mutex_release does not
\* follow by rt_schedule, to the next time the scheduler runs.
HighestRuns ==
  (~isr /\ pc[kernel.current] = "run" /\ kernel.lock_nest = 0 /\ ~kernel.lowered)
    => /\ kernel.stat[kernel.current] = "ready"
       /\ \A p \in ReadyPriorities(kernel) : kernel.prio[kernel.current] <= p
=============================================================================
