---------------------------- MODULE TimerThread ----------------------------
(***************************************************************************)
(* TimerThread (src/src-bthread/timer_thread.cpp) with the sleeping        *)
(* bthreads that use it: TaskGroup::usleep, _add_sleep_event, the callback *)
(* ready_to_run_from_timer_thread and TaskGroup::interrupt                 *)
(* (src/src-bthread/task_group.cpp).                                       *)
(*                                                                         *)
(* The k-th sleep of bthread b is <<b, k>>.  Its timer is scheduled by the *)
(* worker that b left, after the switch, so that worker may still be in    *)
(* _add_sleep_event when b already runs again, or sleeps again.            *)
(***************************************************************************)
EXTENDS Naturals, FiniteSets, FiniteSetsExt

CONSTANTS
  Sleepers, SleepPlans,   \* bthreads, and bound: how often each of them sleeps
  TimerBuckets,           \* the buckets, scanned in the order 1..TimerBuckets
  TimerSlots,             \* slots of ResourcePool<TimerThread::Task>
  MaxTime,                \* bound of the clock
  Interrupted             \* bthreads that are interrupted, once each

ASSUME TimerAssumption ==
  /\ SleepPlans \subseteq [Sleepers -> Nat] /\ MaxTime \in Nat /\ Interrupted \subseteq Sleepers
  /\ TimerSlots \subseteq Nat \ {0}
  /\ TimerBuckets \in Nat \ {0}

Sleeps == UNION {{b} \X (1..plan[b]) : b \in Sleepers, plan \in SleepPlans}
Never == MaxTime + 1            \* numeric_limits<int64_t>::max()
NoId == [slot |-> 0, version |-> 0]

VARIABLES
  clock,
  tVersion, tTask,      \* Task::version, and the task in the slot: [version, time, arg]
  freeSlots,
  bucket, bucketNearest,
  nearest,              \* TimerThread::_nearest_run_time
  nsignalled,           \* _nsignals differs from expected_nsignals
  heap, tpc,            \* the timer thread's tasks and its place in run()
  timerStop,
  adder,                \* the worker in _add_sleep_event for each sleep
  sleepsLeft, sleepNo,  \* sleeps to come, and the number of the current or last one
  asleep, runnable,     \* has left its context; has been made ready since
  readied,              \* how often each sleep was ended by a ready_to_run
  currentSleep, interrupted, sleepFailed,
  stopper               \* the sleep_ids that calls of interrupt() hold, by bthread

timerTaskVars == <<tVersion, tTask, freeSlots>>
queueVars == <<bucket, bucketNearest, nearest, nsignalled>>
threadVars == <<heap, tpc, timerStop>>
sleepVars == <<sleepsLeft, sleepNo, asleep, currentSleep, interrupted, sleepFailed>>
readyVars == <<runnable, readied>>
timerVars == <<clock, timerTaskVars, queueVars, threadVars, adder, sleepVars, readyVars, stopper>>

AdderAt(pc, id, time) == [pc |-> pc, id |-> id, time |-> time]

TimerInit ==
  /\ clock = 0
  /\ tVersion = [s \in TimerSlots |-> 2]
  /\ tTask = [s \in TimerSlots |-> [version |-> 0, time |-> 0, arg |-> <<>>]]
  /\ freeSlots = TimerSlots
  /\ bucket = [i \in 1..TimerBuckets |-> {}]
  /\ bucketNearest = [i \in 1..TimerBuckets |-> Never]
  /\ nearest = Never /\ nsignalled = FALSE
  /\ heap = {} /\ tpc = [pc |-> "top"] /\ timerStop = FALSE
  /\ adder = [s \in Sleeps |-> AdderAt("idle", NoId, 0)]
  /\ sleepsLeft \in SleepPlans /\ sleepNo = [b \in Sleepers |-> 0]
  /\ asleep = [b \in Sleepers |-> FALSE] /\ runnable = [b \in Sleepers |-> FALSE]
  /\ readied = [s \in Sleeps |-> 0]
  /\ currentSleep = [b \in Sleepers |-> NoId]
  /\ interrupted = [b \in Sleepers |-> FALSE] /\ sleepFailed = [b \in Sleepers |-> FALSE]
  /\ stopper = [b \in Sleepers |-> [id |-> NoId, due |-> b \in Interrupted]]

\* ready_to_run() of the bthread in sleep s.
ReadyToRunSleeper(s) ==
  /\ runnable' = [runnable EXCEPT ![s[1]] = TRUE]
  /\ readied' = [readied EXCEPT ![s] = @ + 1]

---------------------------------------------------------------------------
(* schedule(): the bucket under its mutex, then TimerThread::_mutex.       *)

Adder(s, a) == adder' = [adder EXCEPT ![s] = a]

\* usleep(): the worker switches away and the remained callback follows.
Usleep(b) ==
  /\ ~asleep[b] /\ sleepsLeft[b] > 0
  /\ sleepsLeft' = [sleepsLeft EXCEPT ![b] = @ - 1]
  /\ sleepNo' = [sleepNo EXCEPT ![b] = @ + 1]
  /\ asleep' = [asleep EXCEPT ![b] = TRUE]
  /\ \E time \in clock..MaxTime : Adder(<<b, sleepNo[b] + 1>>, AdderAt("schedule", NoId, time))
  /\ UNCHANGED <<clock, timerTaskVars, queueVars, threadVars, currentSleep, interrupted, sleepFailed,
                 readyVars, stopper>>

\* A stopped TimerThread takes no task: the bthread goes back at once.
ScheduleStopped(s) ==
  /\ adder[s].pc = "schedule" /\ timerStop
  /\ sleepFailed' = [sleepFailed EXCEPT ![s[1]] = TRUE]
  /\ ReadyToRunSleeper(s)
  /\ Adder(s, AdderAt("idle", NoId, 0))
  /\ UNCHANGED <<clock, timerTaskVars, queueVars, threadVars, sleepsLeft, sleepNo, asleep, currentSleep, interrupted,
                 stopper>>

\* Mutant: a struct that is reused keeps the version it had.
NextVersionMutant(v) == 2
NextVersion(v) == IF v = 0 THEN 2 ELSE v

\* Bucket::schedule().
ScheduleBucket(s, i) ==
  LET slot == Min(freeSlots)  v == NextVersion(tVersion[slot])  time == adder[s].time IN
  /\ adder[s].pc = "schedule" /\ ~timerStop /\ freeSlots # {}
  /\ freeSlots' = freeSlots \ {slot}
  /\ tVersion' = [tVersion EXCEPT ![slot] = v]
  /\ tTask' = [tTask EXCEPT ![slot] = [version |-> v, time |-> time, arg |-> s]]
  /\ bucket' = [bucket EXCEPT ![i] = @ \cup {slot}]
  /\ bucketNearest' = [bucketNearest EXCEPT ![i] = Min({@, time})]
  /\ Adder(s, AdderAt(IF time < bucketNearest[i] THEN "notify" ELSE "sleeping",
                      [slot |-> slot, version |-> v], time))
  /\ UNCHANGED <<clock, nearest, nsignalled, threadVars, sleepVars, readyVars, stopper>>

\* Mutant: the timer thread is told only of tasks that are already due.
EarlierMutant(time) == time < nearest /\ time <= clock
Earlier(time) == time < nearest

\* The task is the earliest of its bucket: perhaps it is the earliest of all.
ScheduleNotify(s) ==
  /\ adder[s].pc = "notify"
  /\ IF Earlier(adder[s].time)
       THEN nearest' = adder[s].time /\ nsignalled' = TRUE
       ELSE UNCHANGED <<nearest, nsignalled>>
  /\ Adder(s, [adder[s] EXCEPT !.pc = "sleeping"])
  /\ UNCHANGED <<clock, timerTaskVars, bucket, bucketNearest, threadVars, sleepVars, readyVars, stopper>>

---------------------------------------------------------------------------
(* unschedule() and its callers.                                           *)

\* The compare_exchange of unschedule(): did it remove a task that has not run?
Removed(id) == tVersion[id.slot] = id.version
Unschedule(id) ==
  tVersion' = IF Removed(id) THEN [tVersion EXCEPT ![id.slot] = id.version + 2] ELSE tVersion

\* The rest of _add_sleep_event(): publish the sleep_id, unless interrupted.
SetCurrentSleep(s) ==
  LET b == s[1] IN
  /\ adder[s].pc = "sleeping"
  /\ IF interrupted[b]
       THEN Adder(s, [adder[s] EXCEPT !.pc = "unschedule"]) /\ UNCHANGED currentSleep
       ELSE /\ currentSleep' = [currentSleep EXCEPT ![b] = adder[s].id]
            /\ Adder(s, AdderAt("idle", NoId, 0))
  /\ UNCHANGED <<clock, timerTaskVars, queueVars, threadVars, sleepsLeft, sleepNo, asleep, interrupted, sleepFailed,
                 readyVars, stopper>>

AdderUnschedule(s) ==
  LET id == adder[s].id IN
  /\ adder[s].pc = "unschedule"
  /\ Unschedule(id)
  /\ IF Removed(id) THEN ReadyToRunSleeper(s) ELSE UNCHANGED readyVars
  /\ Adder(s, AdderAt("idle", NoId, 0))
  /\ UNCHANGED <<clock, tTask, freeSlots, queueVars, threadVars, sleepVars, stopper>>

\* interrupt_and_consume_waiters(): only one stopper gets the sleep_id.
Interrupt(b) ==
  /\ stopper[b].due
  /\ stopper' = [stopper EXCEPT ![b] = [id |-> currentSleep[b], due |-> FALSE]]
  /\ currentSleep' = [currentSleep EXCEPT ![b] = NoId]
  /\ interrupted' = [interrupted EXCEPT ![b] = TRUE]
  /\ UNCHANGED <<clock, timerTaskVars, queueVars, threadVars, adder, sleepsLeft, sleepNo, asleep, sleepFailed,
                 readyVars>>

\* Mutant: the interrupted bthread is made runnable even when its timer is running.
WinsMutant(id) == tVersion[id.slot] \in {id.version, id.version + 1}
Wins(id) == Removed(id)

InterruptUnschedule(b) ==
  LET id == stopper[b].id IN
  /\ id # NoId
  /\ Unschedule(id)
  /\ IF Wins(id) THEN ReadyToRunSleeper(<<b, sleepNo[b]>>) ELSE UNCHANGED readyVars
  /\ stopper' = [stopper EXCEPT ![b].id = NoId]
  /\ UNCHANGED <<clock, tTask, freeSlots, queueVars, threadVars, adder, sleepVars>>

\* The end of usleep(), run by the worker that took the bthread from a queue.
WakeUp(b) ==
  /\ runnable[b] /\ runnable' = [runnable EXCEPT ![b] = FALSE]
  /\ asleep' = [asleep EXCEPT ![b] = FALSE]
  /\ IF sleepFailed[b]
       THEN /\ sleepFailed' = [sleepFailed EXCEPT ![b] = FALSE]
            /\ UNCHANGED <<currentSleep, interrupted>>
       ELSE /\ currentSleep' = [currentSleep EXCEPT ![b] = NoId]
            /\ interrupted' = [interrupted EXCEPT ![b] = FALSE]
            /\ UNCHANGED sleepFailed
  /\ UNCHANGED <<clock, timerTaskVars, queueVars, threadVars, adder, sleepsLeft, sleepNo, readied, stopper>>

---------------------------------------------------------------------------
(* run()                                                                   *)

Tpc(pc) == tpc' = pc
RunVars == <<clock, adder, sleepVars, stopper>>
Earliest(S) == Min({tTask[s].time : s \in S} \cup {Never})

\* _nearest_run_time is cleared before the buckets are pulled.
ClearNearest ==
  /\ tpc.pc = "top"
  /\ IF timerStop THEN Tpc([pc |-> "exit"]) /\ UNCHANGED nearest
     ELSE Tpc([pc |-> "pull", i |-> 1]) /\ nearest' = Never
  /\ UNCHANGED <<RunVars, timerTaskVars, bucket, bucketNearest, nsignalled, heap, timerStop, readyVars>>

\* consume_tasks() of one bucket; try_delete() drops what was unscheduled.
PullBucket ==
  LET i == tpc.i
      dead == {s \in bucket[i] : tVersion[s] # tTask[s].version} IN
  /\ tpc.pc = "pull"
  /\ heap' = heap \cup (bucket[i] \ dead)
  /\ freeSlots' = freeSlots \cup dead
  /\ bucket' = [bucket EXCEPT ![i] = {}]
  /\ bucketNearest' = [bucketNearest EXCEPT ![i] = IF bucket[i] = {} THEN @ ELSE Never]
  /\ Tpc(IF i = TimerBuckets THEN [pc |-> "due"] ELSE [pc |-> "pull", i |-> i + 1])
  /\ UNCHANGED <<RunVars, tVersion, tTask, nearest, nsignalled, timerStop, readyVars>>

\* A due task is popped, unless an earlier one has been scheduled meanwhile.
PopDue ==
  /\ tpc.pc = "due" /\ heap # {} /\ Earliest(heap) <= clock
  /\ IF Earliest(heap) > nearest
       THEN Tpc([pc |-> "top"]) /\ UNCHANGED heap
       ELSE \E s \in heap :
              /\ tTask[s].time = Earliest(heap)
              /\ heap' = heap \ {s} /\ Tpc([pc |-> "run", slot |-> s])
  /\ UNCHANGED <<RunVars, timerTaskVars, queueVars, timerStop, readyVars>>

\* run_and_delete(): the callback, if the version still is the task's.
RunTask ==
  LET s == tpc.slot IN
  /\ tpc.pc = "run"
  /\ IF tVersion[s] = tTask[s].version
       THEN /\ tVersion' = [tVersion EXCEPT ![s] = @ + 1]
            /\ Tpc([pc |-> "call", slot |-> s])
            /\ UNCHANGED freeSlots
       ELSE /\ freeSlots' = freeSlots \cup {s}
            /\ Tpc([pc |-> "due"])
            /\ UNCHANGED tVersion
  /\ UNCHANGED <<RunVars, tTask, queueVars, heap, timerStop, readyVars>>

\* ready_to_run_from_timer_thread().
CallTask ==
  /\ tpc.pc = "call"
  /\ ReadyToRunSleeper(tTask[tpc.slot].arg)
  /\ Tpc([pc |-> "finish", slot |-> tpc.slot])
  /\ UNCHANGED <<RunVars, timerTaskVars, queueVars, heap, timerStop>>

FinishTask ==
  LET s == tpc.slot IN
  /\ tpc.pc = "finish"
  /\ tVersion' = [tVersion EXCEPT ![s] = tTask[s].version + 2]
  /\ freeSlots' = freeSlots \cup {s}
  /\ Tpc([pc |-> "due"])
  /\ UNCHANGED <<RunVars, tTask, queueVars, heap, timerStop, readyVars>>

\* Nothing is due: decide how long to wait, unless something earlier came in.
Plan ==
  /\ tpc.pc = "due" /\ (heap = {} \/ Earliest(heap) > clock)
  /\ IF Earliest(heap) > nearest
       THEN Tpc([pc |-> "top"]) /\ UNCHANGED <<nearest, nsignalled>>
       ELSE /\ nearest' = Earliest(heap) /\ nsignalled' = FALSE
            /\ Tpc([pc |-> "wait", until |-> Earliest(heap)])
  /\ UNCHANGED <<RunVars, timerTaskVars, bucket, bucketNearest, heap, timerStop, readyVars>>

\* futex_wait_private() returns: signalled, or timed out.
WaitOver ==
  /\ tpc.pc = "wait" /\ (nsignalled \/ tpc.until <= clock)
  /\ Tpc([pc |-> "top"])
  /\ UNCHANGED <<RunVars, timerTaskVars, queueVars, heap, timerStop, readyVars>>

StopTimer ==
  /\ ~timerStop /\ timerStop' = TRUE
  /\ nearest' = 0 /\ nsignalled' = TRUE
  /\ UNCHANGED <<RunVars, timerTaskVars, bucket, bucketNearest, heap, tpc, readyVars>>

TimePasses ==
  /\ clock < MaxTime /\ clock' = clock + 1
  /\ UNCHANGED <<timerTaskVars, queueVars, threadVars, adder, sleepVars, readyVars, stopper>>

TimerNext ==
  \/ \E b \in Sleepers : Usleep(b) \/ WakeUp(b) \/ Interrupt(b) \/ InterruptUnschedule(b)
  \/ \E s \in Sleeps :
       \/ ScheduleStopped(s) \/ ScheduleNotify(s) \/ SetCurrentSleep(s) \/ AdderUnschedule(s)
       \/ \E i \in 1..TimerBuckets : ScheduleBucket(s, i)
  \/ ClearNearest \/ PullBucket \/ PopDue \/ RunTask \/ CallTask \/ FinishTask \/ Plan \/ WaitOver
  \/ StopTimer \/ TimePasses

TimerSpec == TimerInit /\ [][TimerNext]_timerVars

---------------------------------------------------------------------------

TimerTypeOK ==
  /\ clock \in 0..MaxTime /\ nearest \in 0..Never
  /\ freeSlots \subseteq TimerSlots /\ heap \subseteq TimerSlots
  /\ bucket \in [1..TimerBuckets -> SUBSET TimerSlots]
  /\ \A s \in Sleeps : adder[s].pc \in {"idle", "schedule", "notify", "sleeping", "unschedule"}
  /\ tpc.pc \in {"top", "pull", "due", "run", "call", "finish", "wait", "exit"}

\* Timer, interrupter and the worker that schedules the timer never resume a bthread
\* twice: whoever moves the version of the timer task away from its initial value is
\* the only one to make the sleeper runnable, and does so while that very sleep lasts,
\* so the callback's SleepArgs on the sleeper's stack are still there
\* (src/src-bthread/task_group.cpp:875-927, 1005-1039, timer_thread.cpp:255-297).
SleepEndsOnce ==
  /\ \A s \in Sleeps : readied[s] <= 1
  /\ \A b \in Sleepers : runnable[b] => asleep[b]
  /\ tpc.pc = "call" => LET s == tTask[tpc.slot].arg IN
       asleep[s[1]] /\ ~runnable[s[1]] /\ sleepNo[s[1]] = s[2]

Pending(s) == tVersion[s] = tTask[s].version

\* The timer thread never sleeps past a timer: while it waits with no signal pending,
\* every scheduled task that is neither in its heap nor being announced by its
\* schedule() runs no earlier than the end of the wait, and a bucket's unannounced
\* tasks come behind one that is being announced (src/src-bthread/timer_thread.cpp:218-244,
\* 326-421).
NoTimerMissed ==
  tpc.pc = "wait" /\ ~nsignalled =>
    \A s \in (heap \cup UNION {bucket[i] : i \in 1..TimerBuckets}) :
      \/ tTask[s].time >= tpc.until
      \/ \E n \in Sleeps : adder[n].pc = "notify" /\ adder[n].time <= tTask[s].time
=============================================================================
