------------------------------- MODULE Butex -------------------------------
(***************************************************************************)
(* src-bthread/butex.cpp, with TaskGroup::interrupt of task_group.cpp: the *)
(* wait queue under every blocking primitive of the bthread library.       *)
(*                                                                         *)
(* A bthread that waits puts a ButexBthreadWaiter on its own stack, leaves *)
(* its stack, and is queued from the next stack by wait_for_butex.  Three  *)
(* parties may end the wait: a waker, the timer thread, an interrupter.    *)
(* They find the waiter through the queue, or through a raw pointer (the   *)
(* timer's argument, TaskMeta::current_waiter), and agree on who resumes   *)
(* the bthread through `container' and the lock of the butex it names.     *)
(* The stack may be gone as soon as the wait returns.                      *)
(*                                                                         *)
(* Two butexes: "b", which callers wait on, and "m", to which              *)
(* butex_requeue moves them.  A pthread waiter is a plain pthread (no      *)
(* TaskGroup), so it has no TaskMeta to interrupt.                         *)
(***************************************************************************)
EXTENDS Naturals, Sequences, SequencesExt, FiniteSets

CONSTANTS
    BthreadWaiters,     \* bthreads that call butex_wait
    PthreadWaiters,     \* pthreads that call butex_wait
    TimedWaiters,       \* those of both that pass an abstime
    Interruptible,      \* bthreads that bthread_interrupt is called on, once
    PrependWaiters,     \* those that ask for the head of the queue
    ButexWakers,        \* threads that change the value and wake
    ButexOps,           \* the wake functions they call
    MaxStores           \* bound on the changes of the value

ASSUME ButexAssumption ==
    /\ BthreadWaiters \cap PthreadWaiters = {}
    /\ TimedWaiters \subseteq BthreadWaiters \cup PthreadWaiters
    /\ PrependWaiters \subseteq BthreadWaiters \cup PthreadWaiters
    /\ Interruptible \subseteq BthreadWaiters
    /\ MaxStores \in Nat
    /\ ButexOps \subseteq {"wake", "wake_n", "wake_all", "wake_except", "requeue", "wake_m"}

Waiters == BthreadWaiters \cup PthreadWaiters
Erasers == {"timer", "interrupt", "self"}

VARIABLES
    value,              \* Butex::value of "b"
    waiters,            \* Butex::waiters of "b" and "m", head first
    waiter_lock,        \* who holds b's waiter_lock across two steps
    waitpc,                \* per waiter: where it is in butex_wait
    expected_value,     \* ButexBthreadWaiter::expected_value
    container,          \* ButexWaiter::container
    waiter_state,       \* ButexBthreadWaiter::waiter_state (history for a pthread)
    timer,              \* the timer task behind sleep_id
    current_waiter,     \* TaskMeta::current_waiter is not NULL
    interrupted,        \* TaskMeta::interrupted
    ready,              \* times the waiter was made runnable (pthread: sig)
    erasing,            \* per waiter and eraser: where it is in erase_from_butex
    intr,               \* per waiter: where TaskGroup::interrupt is
    result,             \* what butex_wait returned
    entered,            \* history: the waiter was queued
    kpc,                \* per waker: "idle", "stored", "waking"
    waking              \* per waker: waiters it removed and must still resume

butexVars == <<value, waiters, waiter_lock, waitpc, expected_value, container,
    waiter_state, timer, current_waiter, interrupted, ready, erasing, intr, result,
    entered, kpc, waking>>

ButexTypeOK ==
    /\ value \in 0..MaxStores
    /\ \A q \in {"b", "m"} : ToSet(waiters[q]) \subseteq Waiters
    /\ waiter_lock \in Waiters \cup {"free"}
    /\ waitpc \in [Waiters -> {"idle", "loaded", "sched", "queueing", "parked", "unsleep",
                            "setback", "returning", "done"}]
    /\ expected_value \in [Waiters -> 0..MaxStores]
    /\ container \in [Waiters -> {"NULL", "b", "m"}]
    /\ waiter_state \in [Waiters -> {"READY", "TIMEDOUT", "UNMATCHEDVALUE", "INTERRUPTED"}]
    /\ timer \in [Waiters -> {"none", "armed", "running", "over"}]
    /\ current_waiter \in [Waiters -> BOOLEAN]
    /\ interrupted \in [Waiters -> BOOLEAN]
    /\ ready \in [Waiters -> 0..1]
    /\ erasing \in [Waiters -> [Erasers -> {"no", "load", "b", "m", "wake", "missed", "erased"}]]
    /\ intr \in [Waiters -> {"idle", "taken", "null", "erasing", "over"}]
    /\ result \in [Waiters -> {"none", "OK", "EWOULDBLOCK", "ETIMEDOUT", "EINTR"}]
    /\ entered \in [Waiters -> BOOLEAN]
    /\ kpc \in [ButexWakers -> {"idle", "stored", "waking"}]
    /\ \A k \in ButexWakers : ToSet(waking[k]) \subseteq Waiters

ButexInit ==
    /\ value = 0
    /\ waiters = [q \in {"b", "m"} |-> << >>]
    /\ waiter_lock = "free"
    /\ waitpc = [w \in Waiters |-> "idle"]
    /\ expected_value = [w \in Waiters |-> 0]
    /\ container = [w \in Waiters |-> "NULL"]
    /\ waiter_state = [w \in Waiters |-> "READY"]
    /\ timer = [w \in Waiters |-> "none"]
    /\ current_waiter = [w \in Waiters |-> FALSE]
    /\ interrupted = [w \in Waiters |-> FALSE]
    /\ ready = [w \in Waiters |-> 0]
    /\ erasing = [w \in Waiters |-> [e \in Erasers |-> "no"]]
    /\ intr = [w \in Waiters |-> "idle"]
    /\ result = [w \in Waiters |-> "none"]
    /\ entered = [w \in Waiters |-> FALSE]
    /\ kpc = [k \in ButexWakers |-> "idle"]
    /\ waking = [k \in ButexWakers |-> << >>]

waiterVars == <<expected_value, waiter_state, entered>>
taskVars == <<current_waiter, interrupted, intr>>
wakerVars == <<kpc, waking>>

-----------------------------------------------------------------------------
(* butex_wait *)

\* The caller reads the value it will pass as expected_value.
LoadExpected(w) ==
    /\ waitpc[w] = "idle"
    /\ waitpc' = [waitpc EXCEPT ![w] = "loaded"]
    /\ expected_value' = [expected_value EXCEPT ![w] = value]
    /\ UNCHANGED <<value, waiters, waiter_lock, container, waiter_state, entered, timer,
                   taskVars, ready, erasing, result, wakerVars>>

\* The value changed already: EWOULDBLOCK without a waiter.
WouldBlock(w) ==
    /\ waitpc[w] = "loaded"
    /\ value # expected_value[w]
    /\ waitpc' = [waitpc EXCEPT ![w] = "returning"]
    /\ waiter_state' = [waiter_state EXCEPT ![w] = "UNMATCHEDVALUE"]
    /\ UNCHANGED <<value, waiters, waiter_lock, expected_value, entered, container, timer,
                   taskVars, ready, erasing, result, wakerVars>>

\* The deadline has passed already: ETIMEDOUT without a waiter.  A pthread
\* meets its deadline in wait_pthread instead.
AlreadyTimedOut(w) ==
    /\ waitpc[w] = "loaded"
    /\ w \in BthreadWaiters \cap TimedWaiters
    /\ value = expected_value[w]
    /\ waitpc' = [waitpc EXCEPT ![w] = "returning"]
    /\ waiter_state' = [waiter_state EXCEPT ![w] = "TIMEDOUT"]
    /\ UNCHANGED <<value, waiters, waiter_lock, expected_value, entered, container, timer,
                   taskVars, ready, erasing, result, wakerVars>>

\* A bthread publishes its waiter and leaves its stack.
WaitSched(w) ==
    /\ waitpc[w] = "loaded"
    /\ w \in BthreadWaiters
    /\ value = expected_value[w]
    /\ waitpc' = [waitpc EXCEPT ![w] = "sched"]
    /\ current_waiter' = [current_waiter EXCEPT ![w] = TRUE]
    /\ UNCHANGED <<value, waiters, waiter_lock, expected_value, entered, container, waiter_state,
                   timer, interrupted, intr, ready, erasing, result, wakerVars>>

\* wait_for_butex, first half: the lock is taken; a value that changed, or an
\* interruption that is pending, makes the bthread runnable at once.
WaitForButexCheck(w) ==
    /\ waitpc[w] = "sched"
    /\ waiter_lock = "free"
    /\ IF value # expected_value[w] \/ interrupted[w]
       THEN /\ waiter_state' = [waiter_state EXCEPT ![w] =
                                    IF value # expected_value[w] THEN "UNMATCHEDVALUE" ELSE @]
            /\ ready' = [ready EXCEPT ![w] = @ + 1]
            /\ waitpc' = [waitpc EXCEPT ![w] = "parked"]
            /\ UNCHANGED waiter_lock
       ELSE /\ waiter_lock' = w
            /\ waitpc' = [waitpc EXCEPT ![w] = "queueing"]
            /\ UNCHANGED <<waiter_state, ready>>
    /\ UNCHANGED <<value, waiters, expected_value, entered, container, timer, taskVars,
                   erasing, result, wakerVars>>

Queued(w) == IF w \in PrependWaiters THEN <<w>> \o waiters["b"] ELSE Append(waiters["b"], w)

\* wait_for_butex, second half, under the same lock: queue, then schedule the
\* timer.
WaitForButexQueue(w) ==
    /\ waitpc[w] = "queueing"
    /\ waitpc' = [waitpc EXCEPT ![w] = "parked"]
    /\ waiters' = [waiters EXCEPT !["b"] = Queued(w)]
    /\ container' = [container EXCEPT ![w] = "b"]
    /\ timer' = [timer EXCEPT ![w] = IF w \in TimedWaiters THEN "armed" ELSE @]
    /\ waiter_lock' = "free"
    /\ entered' = [entered EXCEPT ![w] = TRUE]
    /\ UNCHANGED <<value, expected_value, waiter_state, taskVars, ready, erasing, result, wakerVars>>

\* The scheduler runs the bthread again: TaskGroup::sched returns.
Resume(w) ==
    /\ waitpc[w] = "parked"
    /\ w \in BthreadWaiters
    /\ ready[w] = 1
    /\ waitpc' = [waitpc EXCEPT ![w] = "unsleep"]
    /\ UNCHANGED <<value, waiters, waiter_lock, waiterVars, container, timer, taskVars,
                   ready, erasing, result, wakerVars>>

\* Mutant: the wait does not spin while the timer callback runs.
UnsleptMutant(w) == TRUE

\* unsleep_if_necessary: a callback that is running must finish first.
Unslept(w) == timer[w] # "running"

Unsleep(w) ==
    /\ waitpc[w] = "unsleep"
    /\ Unslept(w)
    /\ waitpc' = [waitpc EXCEPT ![w] = "setback"]
    /\ timer' = [timer EXCEPT ![w] = IF @ = "armed" THEN "none" ELSE @]
    /\ UNCHANGED <<value, waiters, waiter_lock, waiterVars, container, taskVars,
                   ready, erasing, result, wakerVars>>

\* current_waiter is taken back; NULL means an interrupter is using the waiter.
TakeBack(w) ==
    /\ waitpc[w] = "setback"
    /\ current_waiter[w]
    /\ current_waiter' = [current_waiter EXCEPT ![w] = FALSE]
    /\ waitpc' = [waitpc EXCEPT ![w] = "returning"]
    /\ UNCHANGED <<value, waiters, waiter_lock, waiterVars, container, timer, interrupted,
                   intr, ready, erasing, result, wakerVars>>

\* "If timed out as well as value unmatched, return ETIMEDOUT."  A wait that
\* was refused before it had a waiter does not consume the interruption.
WaitReturn(w) ==
    /\ waitpc[w] = "returning"
    /\ waitpc' = [waitpc EXCEPT ![w] = "done"]
    /\ result' = [result EXCEPT ![w] =
                     IF waiter_state[w] = "TIMEDOUT" THEN "ETIMEDOUT"
                     ELSE IF waiter_state[w] = "UNMATCHEDVALUE" THEN "EWOULDBLOCK"
                     ELSE IF interrupted[w] THEN "EINTR" ELSE "OK"]
    /\ interrupted' = [interrupted EXCEPT ![w] = @ /\ ready[w] = 0]
    /\ UNCHANGED <<value, waiters, waiter_lock, waiterVars, container, timer, current_waiter,
                   intr, ready, erasing, wakerVars>>
-----------------------------------------------------------------------------
(* butex_wait_from_pthread and wait_pthread *)

PthreadQueue(w) ==
    /\ waitpc[w] = "loaded"
    /\ w \in PthreadWaiters
    /\ waiter_lock = "free"
    /\ value = expected_value[w]
    /\ waiters' = [waiters EXCEPT !["b"] = Queued(w)]
    /\ container' = [container EXCEPT ![w] = "b"]
    /\ timer' = [timer EXCEPT ![w] = IF w \in TimedWaiters THEN "armed" ELSE @]
    /\ waitpc' = [waitpc EXCEPT ![w] = "parked"]
    /\ entered' = [entered EXCEPT ![w] = TRUE]
    /\ UNCHANGED <<value, waiter_lock, expected_value, waiter_state, taskVars, ready, erasing, result, wakerVars>>

\* futex_wait returns and sig is set; it may have been set before the futex
\* call, which then reports EWOULDBLOCK.
PthreadSignalled(w) ==
    /\ waitpc[w] = "parked"
    /\ w \in PthreadWaiters
    /\ erasing[w]["self"] = "no"
    /\ ready[w] = 1
    /\ waitpc' = [waitpc EXCEPT ![w] = "done"]
    /\ \E r \in {"OK", "EWOULDBLOCK"} : result' = [result EXCEPT ![w] = r]
    /\ UNCHANGED <<value, waiters, waiter_lock, waiterVars, container, timer, taskVars,
                   ready, erasing, wakerVars>>

\* The deadline passes before sig is seen: the pthread erases itself.
PthreadTimeout(w) ==
    /\ waitpc[w] = "parked"
    /\ w \in PthreadWaiters
    /\ timer[w] = "armed"
    /\ ready[w] = 0
    /\ timer' = [timer EXCEPT ![w] = "over"]
    /\ erasing' = [erasing EXCEPT ![w]["self"] = "load"]
    /\ UNCHANGED <<value, waiters, waiter_lock, waiterVars, waitpc, container, taskVars,
                   ready, result, wakerVars>>

\* Erased by itself, or signalled meanwhile: ETIMEDOUT.  Removed by a waker
\* that has not signalled yet: wait on, without a deadline.
PthreadTimedOut(w) ==
    /\ erasing[w]["self"] \in {"erased", "missed"}
    /\ erasing' = [erasing EXCEPT ![w]["self"] = "no"]
    /\ IF erasing[w]["self"] = "erased" \/ ready[w] = 1
       THEN /\ waitpc' = [waitpc EXCEPT ![w] = "done"]
            /\ result' = [result EXCEPT ![w] = "ETIMEDOUT"]
       ELSE UNCHANGED <<waitpc, result>>
    /\ UNCHANGED <<value, waiters, waiter_lock, waiterVars, container, timer, taskVars,
                   ready, wakerVars>>
-----------------------------------------------------------------------------
(* erase_from_butex, run by the timer thread, an interrupter or a pthread *)

Unlocked(q) == q = "m" \/ waiter_lock = "free"

StateOf(e) == IF e = "interrupt" THEN "INTERRUPTED" ELSE "TIMEDOUT"

EraseLoad(w, e) ==
    /\ erasing[w][e] = "load"
    /\ erasing' = [erasing EXCEPT ![w][e] =
                      IF container[w] = "NULL" THEN "missed" ELSE container[w]]
    /\ UNCHANGED <<value, waiters, waiter_lock, waiterVars, waitpc, container, timer, taskVars,
                   ready, result, wakerVars>>

\* Mutant: the container is not compared again under the lock.
StillThereMutant(w, q) == TRUE

\* The waiter may have been woken or requeued before the lock was taken.
StillThere(w, q) == container[w] = q

EraseLocked(w, e) ==
    /\ erasing[w][e] \in {"b", "m"}
    /\ Unlocked(erasing[w][e])
    /\ IF StillThere(w, erasing[w][e])
       THEN /\ waiters' = [q \in {"b", "m"} |-> SelectSeq(waiters[q], LAMBDA x : x # w)]
            /\ container' = [container EXCEPT ![w] = "NULL"]
            /\ waiter_state' = [waiter_state EXCEPT ![w] = StateOf(e)]
            /\ erasing' = [erasing EXCEPT ![w][e] = IF e = "self" THEN "erased" ELSE "wake"]
       ELSE /\ erasing' = [erasing EXCEPT ![w][e] = "load"]
            /\ UNCHANGED <<waiters, container, waiter_state>>
    /\ UNCHANGED <<value, waiter_lock, expected_value, entered, waitpc, timer, taskVars,
                   ready, result, wakerVars>>

EraseWake(w, e) ==
    /\ erasing[w][e] = "wake"
    /\ ready' = [ready EXCEPT ![w] = @ + 1]
    /\ erasing' = [erasing EXCEPT ![w][e] = "erased"]
    /\ UNCHANGED <<value, waiters, waiter_lock, waiterVars, waitpc, container, timer, taskVars,
                   result, wakerVars>>

\* The timer thread runs erase_from_butex_and_wakeup.
TimerFires(w) ==
    /\ w \in BthreadWaiters
    /\ timer[w] = "armed"
    /\ timer' = [timer EXCEPT ![w] = "running"]
    /\ erasing' = [erasing EXCEPT ![w]["timer"] = "load"]
    /\ UNCHANGED <<value, waiters, waiter_lock, waiterVars, waitpc, container, taskVars,
                   ready, result, wakerVars>>

TimerOver(w) ==
    /\ erasing[w]["timer"] \in {"erased", "missed"}
    /\ timer' = [timer EXCEPT ![w] = "over"]
    /\ erasing' = [erasing EXCEPT ![w]["timer"] = "no"]
    /\ UNCHANGED <<value, waiters, waiter_lock, waiterVars, waitpc, container, taskVars,
                   ready, result, wakerVars>>
-----------------------------------------------------------------------------
(* TaskGroup::interrupt *)

\* interrupt_and_consume_waiters takes current_waiter first ...
InterruptTake(w) ==
    /\ w \in Interruptible
    /\ intr[w] = "idle"
    /\ intr' = [intr EXCEPT ![w] = IF current_waiter[w] THEN "taken" ELSE "null"]
    /\ current_waiter' = [current_waiter EXCEPT ![w] = FALSE]
    /\ UNCHANGED <<value, waiters, waiter_lock, waiterVars, waitpc, container, timer,
                   interrupted, ready, erasing, result, wakerVars>>

\* ... and sets `interrupted' after it.
InterruptSet(w) ==
    /\ intr[w] \in {"taken", "null"}
    /\ interrupted' = [interrupted EXCEPT ![w] = TRUE]
    /\ intr' = [intr EXCEPT ![w] = IF @ = "taken" THEN "erasing" ELSE "over"]
    /\ erasing' = [erasing EXCEPT ![w]["interrupt"] = IF intr[w] = "taken" THEN "load" ELSE @]
    /\ UNCHANGED <<value, waiters, waiter_lock, waiterVars, waitpc, container, timer,
                   current_waiter, ready, result, wakerVars>>

\* set_butex_waiter
InterruptSetBack(w) ==
    /\ intr[w] = "erasing"
    /\ erasing[w]["interrupt"] \in {"erased", "missed"}
    /\ erasing' = [erasing EXCEPT ![w]["interrupt"] = "no"]
    /\ intr' = [intr EXCEPT ![w] = "over"]
    /\ current_waiter' = [current_waiter EXCEPT ![w] = TRUE]
    /\ UNCHANGED <<value, waiters, waiter_lock, waiterVars, waitpc, container, timer,
                   interrupted, ready, result, wakerVars>>
-----------------------------------------------------------------------------
(* butex_wake, butex_wake_n, butex_wake_all, butex_wake_except, butex_requeue *)

\* The waker changes what the waiters wait for.
Store(k) ==
    /\ kpc[k] = "idle"
    /\ value < MaxStores
    /\ value' = value + 1
    /\ kpc' = [kpc EXCEPT ![k] = "stored"]
    /\ UNCHANGED <<waiters, waiter_lock, waiterVars, waitpc, container, timer, taskVars, ready,
                   erasing, result, waking>>

\* Removal under the lock: `out' leave queue q for the waker, `rest' stay.
TakeOut(k, q, out, rest) ==
    /\ kpc[k] = "stored"
    /\ Unlocked(q)
    /\ waiters' = [waiters EXCEPT ![q] = rest]
    /\ container' = [w \in Waiters |-> IF w \in ToSet(out) THEN "NULL" ELSE container[w]]
    /\ waking' = [waking EXCEPT ![k] = out]
    /\ kpc' = [kpc EXCEPT ![k] = "waking"]
    /\ UNCHANGED <<value, waiter_lock, waiterVars, waitpc, timer, taskVars, ready, erasing, result>>

\* pthreads are signalled first; then the bthreads from the tail; the first
\* bthread last, by switching to it (wake_except wakes it like the others).
WakeOrder(out) ==
    LET pthreads == SelectSeq(out, LAMBDA w : w \in PthreadWaiters)
        bthreads == SelectSeq(out, LAMBDA w : w \in BthreadWaiters)
    IN  pthreads \o Reverse(bthreads)

WakeN(k, q, n) ==
    LET size == Len(waiters[q])
        count == IF n = 0 \/ n > size THEN size ELSE n
    IN  TakeOut(k, q, WakeOrder(SubSeq(waiters[q], 1, count)), SubSeq(waiters[q], count + 1, size))

WakeExcept(k, x) ==
    TakeOut(k, "b", WakeOrder(SelectSeq(waiters["b"], LAMBDA w : w # x)),
           SelectSeq(waiters["b"], LAMBDA w : w = x))

\* Both locks are held; the head is woken and the others follow to m.
Requeue(k) ==
    /\ kpc[k] = "stored"
    /\ Unlocked("b")
    /\ kpc' = [kpc EXCEPT ![k] = "waking"]
    /\ IF waiters["b"] = << >>
       THEN UNCHANGED <<waiters, container, waking>>
       ELSE /\ waking' = [waking EXCEPT ![k] = <<Head(waiters["b"])>>]
            /\ waiters' = [waiters EXCEPT !["b"] = << >>, !["m"] = @ \o Tail(waiters["b"])]
            /\ container' = [w \in Waiters |->
                  CASE w = Head(waiters["b"]) -> "NULL"
                    [] w \in ToSet(Tail(waiters["b"])) -> "m"
                    [] OTHER -> container[w]]
    /\ UNCHANGED <<value, waiter_lock, waiterVars, waitpc, timer, taskVars, ready, erasing, result>>

Wake(k) ==
    \/ "wake" \in ButexOps /\ WakeN(k, "b", 1)
    \/ "wake_m" \in ButexOps /\ WakeN(k, "m", 1)
    \/ "wake_n" \in ButexOps /\ WakeN(k, "b", 2)
    \/ "wake_all" \in ButexOps /\ WakeN(k, "b", 0)
    \/ "wake_except" \in ButexOps /\ \E x \in BthreadWaiters \cup {"nobody"} : WakeExcept(k, x)
    \/ "requeue" \in ButexOps /\ Requeue(k)

\* Each removed waiter: unsleep_if_necessary, then ready_to_run or signal.
WakeNext(k) ==
    /\ kpc[k] = "waking"
    /\ IF waking[k] = << >>
       THEN /\ kpc' = [kpc EXCEPT ![k] = "idle"]
            /\ UNCHANGED <<waking, ready, timer>>
       ELSE LET w == Head(waking[k])
            IN /\ waking' = [waking EXCEPT ![k] = Tail(@)]
               /\ ready' = [ready EXCEPT ![w] = @ + 1]
               /\ timer' = [timer EXCEPT ![w] =
                               IF w \in BthreadWaiters /\ @ = "armed" THEN "none" ELSE @]
               /\ UNCHANGED kpc
    /\ UNCHANGED <<value, waiters, waiter_lock, waiterVars, waitpc, container, taskVars, erasing,
                   result>>
-----------------------------------------------------------------------------
WaitStep(w) ==
    \/ WouldBlock(w) \/ AlreadyTimedOut(w) \/ WaitSched(w) \/ WaitForButexCheck(w)
    \/ WaitForButexQueue(w) \/ Resume(w) \/ Unsleep(w) \/ TakeBack(w) \/ WaitReturn(w)
    \/ PthreadQueue(w) \/ PthreadSignalled(w) \/ PthreadTimedOut(w)

EraseStep(w, e) == EraseLoad(w, e) \/ EraseLocked(w, e) \/ EraseWake(w, e)

ButexNext ==
    \/ \E w \in Waiters :
          \/ LoadExpected(w) \/ WaitStep(w)
          \/ \E e \in Erasers : EraseStep(w, e)
          \/ TimerFires(w) \/ TimerOver(w) \/ PthreadTimeout(w)
          \/ InterruptTake(w) \/ InterruptSet(w) \/ InterruptSetBack(w)
    \/ \E k \in ButexWakers : Store(k) \/ Wake(k) \/ WakeNext(k)

\* A thread that is running keeps running; a deadline is reached.  Callers
\* need not call, wakers and interrupters need not come.
ButexFairness ==
    /\ \A w \in Waiters :
          /\ WF_butexVars(WaitStep(w))
          /\ WF_butexVars(TimerFires(w) \/ TimerOver(w) \/ PthreadTimeout(w))
          /\ WF_butexVars(InterruptSet(w) \/ InterruptSetBack(w))
          /\ \A e \in Erasers : WF_butexVars(EraseStep(w, e))
    /\ \A k \in ButexWakers : WF_butexVars(Wake(k) \/ WakeNext(k))

ButexSpec == ButexInit /\ [][ButexNext]_butexVars /\ ButexFairness
-----------------------------------------------------------------------------
(* Properties *)

\* Nobody uses a waiter whose call has returned: no timer callback is running
\* on it, no interrupter holds it, no queue or waker still lists it.  The
\* waiter is on the stack of the caller (butex.cpp:681 and 613).
WaiterAlive ==
    \A w \in Waiters : waitpc[w] \in {"returning", "done"} =>
        /\ timer[w] \in {"none", "over"} \/ w \in PthreadWaiters
        /\ \A e \in Erasers : erasing[w][e] = "no"
        /\ container[w] = "NULL"
        /\ \A q \in {"b", "m"} : w \notin ToSet(waiters[q])
        /\ \A k \in ButexWakers : w \notin ToSet(waking[k])

\* A waiting thread is made runnable at most once per wait, whoever ends the
\* wait: "at most one thread may wake up the waiter" (butex.cpp:499).  A
\* second wake-up would run the same bthread on two workers.
ResumedOnce == \A w \in Waiters : ready[w] <= 1

ButexSafe == WaiterAlive /\ ResumedOnce

\* The refinement mapping: a waiter is queued from the moment wait_for_butex
\* has compared the value under the lock, and its reason is the one recorded
\* by whoever removed it.
FutexLine ==
    [q \in {"b", "m"} |->
        IF q = "b" /\ waiter_lock # "free" THEN Queued(waiter_lock) ELSE waiters[q]]

FutexPhase ==
    [w \in Waiters |->
        CASE waitpc[w] = "idle" -> "out"
          [] waitpc[w] = "done" -> "returned"
          [] waitpc[w] \in {"loaded", "sched"} -> "calling"
          [] waitpc[w] = "queueing" \/ container[w] # "NULL" -> "queued"
          [] OTHER -> "decided"]

FutexReason ==
    [w \in Waiters |->
        IF FutexPhase[w] \notin {"decided", "returned"} THEN "none"
        ELSE CASE waiter_state[w] = "UNMATCHEDVALUE" -> "unmatched"
               [] waiter_state[w] = "INTERRUPTED" -> "interrupted"
               [] waiter_state[w] = "TIMEDOUT" -> "timedout"
               [] OTHER -> IF entered[w] THEN "woken" ELSE "interrupted"]

Abstract == INSTANCE Futex WITH
    Callers <- Waiters, word <- value, wanted <- expected_value, line <- FutexLine,
    phase <- FutexPhase, reason <- FutexReason, code <- result

\* butex.cpp implements the futex butex.h describes: "Atomically wait on
\* |butex| if *butex equals |expected_value|".
ImplementsFutex == Abstract!FSpec

\* "bthread_interrupt() guarantees that Thread2 is woken up reliably no matter
\* how the 2 threads are interleaved" (bthread.h:86): a bthread that was
\* interrupted while it was on its way into butex_wait returns from it.
InterruptWakes ==
    \A w \in Interruptible :
        (intr[w] = "over" /\ interrupted[w] /\ waitpc[w] = "parked") ~> waitpc[w] = "done"
=============================================================================
