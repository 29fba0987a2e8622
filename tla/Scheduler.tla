----------------------------- MODULE Scheduler -----------------------------
(***************************************************************************)
(* The M:N scheduler: TaskGroup (one per worker pthread), TaskControl,     *)
(* ParkingLot and RemoteTaskQueue (src/src-bthread).  Bthreads are started *)
(* by a non-worker pthread or by each other, with and without NOSIGNAL, in *)
(* the background or in the foreground; they yield, join, flush and end;   *)
(* workers run, steal and park; bthread_stop_world() stops the workers.    *)
(*                                                                         *)
(* The run queue is atomic here (WorkStealing models it step by step).     *)
(* The signal word of a ParkingLot is only ever compared with a value of   *)
(* it saved earlier, so a worker keeps one bit: has the word of its lot    *)
(* changed since get_state().  (The word has 31 bits of signals.)          *)
(***************************************************************************)
EXTENDS Naturals, Sequences, FiniteSets, SequencesExt

CONSTANTS
  Workers, Tasks,
  Pthread,      \* a pthread that is not a worker
  LotOf,        \* the lot a pthread hashes to: where it parks, where its signals start
  PlNum,        \* parking_lot_of_each_tag
  RemoteCap,    \* capacity of _remote_rq
  TaskPlans     \* bound: what each bthread may do besides ending, each kind at most once

Main == "main"   \* the bthread of run_main_task()
None == "none"

ASSUME SchedulerAssumption ==
  /\ LotOf \in [Workers \cup {Pthread} -> 1..PlNum]
  /\ RemoteCap \in Nat \ {0}
  /\ TaskPlans \subseteq
       [Tasks -> SUBSET {"yield", "background", "nosignal", "foreground", "join", "flush"}]

VARIABLES
  rq, remoteRq,              \* _rq and _remote_rq of each group
  numNosignal, remoteNosignal,
  current,                   \* _cur_meta
  at,                        \* where the worker is
  remained,                  \* _last_context_remained and its argument
  unvisited,                 \* groups TaskControl::steal_task has yet to look at
  changed,                   \* the lot's word differs from _last_pl_state
  sawStop,                   \* _last_pl_state.stopped()
  signalling,                \* the rest of a signal_task() call, by its caller
  lotStopped, stopCalled,    \* ParkingLot::stop() done; _stop
  alive,                     \* "new", "live", "ended" (version increased) or "freed"
  joiners,                   \* bthreads queued on a version_butex
  toDo,                      \* what the bthread may still do
  nosignalGroup              \* tls_task_group_nosignal of the pthread

groupVars == <<rq, remoteRq, numNosignal, remoteNosignal>>
workerVars == <<current, at, remained, unvisited, changed, sawStop>>
stopVars == <<lotStopped, stopCalled>>
taskVars == <<alive, joiners, toDo>>
schedVars == <<groupVars, workerVars, signalling, stopVars, taskVars, nosignalGroup>>

NoCallback == [kind |-> None]
Idle == [left |-> 0]

SchedInit ==
  /\ rq = [w \in Workers |-> <<>>] /\ remoteRq = [w \in Workers |-> <<>>]
  /\ numNosignal = [w \in Workers |-> 0] /\ remoteNosignal = [w \in Workers |-> 0]
  /\ current = [w \in Workers |-> Main] /\ at = [w \in Workers |-> "wait"]
  /\ remained = [w \in Workers |-> NoCallback]
  /\ unvisited = [w \in Workers |-> {}]
  /\ changed = [w \in Workers |-> FALSE] /\ sawStop = [w \in Workers |-> FALSE]
  /\ signalling = [a \in Workers \cup {Pthread} |-> Idle]
  /\ lotStopped = {} /\ stopCalled = FALSE
  /\ alive = [t \in Tasks |-> "new"]
  /\ joiners = [t \in Tasks |-> {}]
  /\ toDo \in TaskPlans
  /\ nosignalGroup = None

Goto(w, where) == at' = [at EXCEPT ![w] = where]
Free(a) == signalling[a].left = 0
InLot(l) == {w \in Workers : LotOf[w] = l}

---------------------------------------------------------------------------
(* signal_task(): one lot after the other, until enough workers woke up.   *)

\* At most two workers are asked for.
SignalTask(a, n) ==
  signalling' = [signalling EXCEPT ![a] =
    [left |-> PlNum, lot |-> LotOf[a], n |-> IF n > 2 THEN 2 ELSE n]]

\* ParkingLot::signal(1): change the word, then wake one worker parked there.
SignalLot(a) ==
  LET s == signalling[a]
      asleep == {w \in InLot(s.lot) : at[w] = "parked"}
      step(n) == [signalling EXCEPT ![a] =
        IF n = 0 \/ s.left = 1 THEN Idle
        ELSE [left |-> s.left - 1, lot |-> 1 + (s.lot % PlNum), n |-> n]]
  IN /\ ~Free(a)
     /\ changed' = [w \in Workers |-> changed[w] \/ w \in InLot(s.lot)]
     /\ IF asleep = {}
          THEN signalling' = step(s.n) /\ UNCHANGED at
          ELSE /\ signalling' = step(s.n - 1)
               /\ \E w \in asleep : Goto(w, "remote")
     /\ UNCHANGED <<groupVars, current, remained, unvisited, sawStop, stopVars, taskVars, nosignalGroup>>

---------------------------------------------------------------------------
(* Making bthreads runnable.                                               *)

\* ready_to_run() and push_rq(), for the bthreads in ts in this order.
ReadyToRun(w, ts, nosignal) ==
  /\ rq' = [rq EXCEPT ![w] = @ \o ts]
  /\ IF nosignal
       THEN /\ numNosignal' = [numNosignal EXCEPT ![w] = @ + Len(ts)]
            /\ UNCHANGED signalling
       ELSE /\ numNosignal' = [numNosignal EXCEPT ![w] = 0]
            /\ SignalTask(w, Len(ts) + numNosignal[w])
  /\ UNCHANGED <<remoteRq, remoteNosignal>>

\* ready_to_run_remote() by the pthread, once _remote_rq has room.
ReadyToRunRemote(g, t, nosignal) ==
  /\ Len(remoteRq[g]) < RemoteCap
  /\ remoteRq' = [remoteRq EXCEPT ![g] = Append(@, t)]
  /\ IF nosignal
       THEN /\ remoteNosignal' = [remoteNosignal EXCEPT ![g] = @ + 1]
            /\ UNCHANGED signalling
       ELSE /\ remoteNosignal' = [remoteNosignal EXCEPT ![g] = 0]
            /\ SignalTask(Pthread, 1 + remoteNosignal[g])
  /\ UNCHANGED <<rq, numNosignal>>

\* flush_nosignal_tasks_remote_locked().
FlushRemote(g) ==
  /\ remoteNosignal[g] > 0
  /\ remoteNosignal' = [remoteNosignal EXCEPT ![g] = 0]
  /\ SignalTask(Pthread, remoteNosignal[g])
  /\ UNCHANGED <<rq, remoteRq, numNosignal>>

---------------------------------------------------------------------------
(* The pthread: start_from_non_worker(), bthread_flush(), stop_and_join(). *)

PthreadVars == <<workerVars, stopVars, joiners, toDo>>

\* choose_one_group() is only called while there are groups.
StartRemote(t, nosignal) ==
  /\ Free(Pthread) /\ ~stopCalled /\ alive[t] = "new"
  /\ \E g \in Workers :
       /\ nosignal /\ nosignalGroup # None => g = nosignalGroup
       /\ ReadyToRunRemote(g, t, nosignal)
       /\ nosignalGroup' = IF nosignal THEN g ELSE nosignalGroup
  /\ alive' = [alive EXCEPT ![t] = "live"]
  /\ UNCHANGED PthreadVars

\* Before it sleeps and retries, a pthread that finds _remote_rq full flushes.
FlushWhenFull(g) ==
  /\ Free(Pthread) /\ ~stopCalled
  /\ Len(remoteRq[g]) = RemoteCap /\ \E t \in Tasks : alive[t] = "new"
  /\ FlushRemote(g)
  /\ UNCHANGED <<PthreadVars, alive, nosignalGroup>>

BthreadFlush ==
  /\ Free(Pthread) /\ nosignalGroup # None
  /\ nosignalGroup' = None
  /\ \/ FlushRemote(nosignalGroup)
     \/ remoteNosignal[nosignalGroup] = 0 /\ UNCHANGED <<groupVars, signalling>>
  /\ UNCHANGED <<PthreadVars, alive>>

\* stop_and_join() first empties the list of groups, then stops lot by lot.
StopWorld ==
  /\ Free(Pthread) /\ ~stopCalled /\ nosignalGroup = None
  /\ \A t \in Tasks : alive[t] # "new"
  /\ stopCalled' = TRUE
  /\ UNCHANGED <<groupVars, workerVars, signalling, lotStopped, taskVars, nosignalGroup>>

StopLot(l) ==
  /\ stopCalled /\ lotStopped = 1..(l - 1)
  /\ lotStopped' = lotStopped \cup {l}
  /\ changed' = [w \in Workers |-> changed[w] \/ w \in InLot(l)]
  /\ at' = [w \in Workers |-> IF w \in InLot(l) /\ at[w] = "parked" THEN "remote" ELSE at[w]]
  /\ UNCHANGED <<groupVars, current, remained, unvisited, sawStop, signalling, stopCalled,
                 taskVars, nosignalGroup>>

---------------------------------------------------------------------------
(* A worker looking for a bthread to run.                                  *)

SearchVars == <<numNosignal, remoteNosignal, signalling, stopVars, taskVars, nosignalGroup>>

\* sched_to(): the context is switched; what remained of the last one runs next.
SchedTo(w, t) ==
  /\ current' = [current EXCEPT ![w] = t]
  /\ Goto(w, "remain")

\* Mutant: the word is read anew just before parking, as if nothing could have happened
\* since the queues were found empty.
ParksMutant(w) == TRUE
Parks(w) == ~changed[w]

\* wait_task(): end when the saved state says so, else park unless the word changed.
WaitTask(w) ==
  /\ at[w] = "wait" /\ Free(w)
  /\ Goto(w, IF sawStop[w] THEN "exit" ELSE IF Parks(w) THEN "parked" ELSE "remote")
  /\ UNCHANGED <<groupVars, current, remained, unvisited, changed, sawStop, SearchVars>>

\* sched() and ending_sched(): the worker's own queue first, at the bottom.
PopOwn(w) ==
  /\ at[w] = "pop" /\ Free(w)
  /\ IF rq[w] = <<>>
       THEN Goto(w, "remote") /\ UNCHANGED <<rq, current>>
       ELSE rq' = [rq EXCEPT ![w] = Front(@)] /\ SchedTo(w, Last(rq[w]))
  /\ UNCHANGED <<remoteRq, remained, unvisited, changed, sawStop, SearchVars>>

\* TaskGroup::steal_task(): its own remote queue first.
PopRemote(w) ==
  /\ at[w] = "remote"
  /\ IF remoteRq[w] = <<>>
       THEN Goto(w, "save") /\ UNCHANGED <<remoteRq, current>>
       ELSE remoteRq' = [remoteRq EXCEPT ![w] = Tail(@)] /\ SchedTo(w, Head(remoteRq[w]))
  /\ UNCHANGED <<rq, remained, unvisited, changed, sawStop, SearchVars>>

\* _last_pl_state = _pl->get_state(), then ngroup is loaded.
SaveState(w) ==
  /\ at[w] = "save"
  /\ changed' = [changed EXCEPT ![w] = FALSE]
  /\ sawStop' = [sawStop EXCEPT ![w] = LotOf[w] \in lotStopped]
  /\ unvisited' = [unvisited EXCEPT ![w] = IF stopCalled THEN {} ELSE Workers]
  /\ Goto(w, "steal")
  /\ UNCHANGED <<groupVars, current, remained, SearchVars>>

\* TaskControl::steal_task(): the groups in an order given by seed and offset.
StealFrom(w, g) ==
  /\ at[w] = "steal" /\ g \in unvisited[w]
  /\ unvisited' = [unvisited EXCEPT ![w] =
                     IF rq[g] = <<>> /\ remoteRq[g] = <<>> THEN @ \ {g} ELSE {}]
  /\ IF rq[g] # <<>>
       THEN /\ rq' = [rq EXCEPT ![g] = Tail(@)] /\ SchedTo(w, Head(rq[g]))
            /\ UNCHANGED remoteRq
       ELSE IF remoteRq[g] # <<>>
         THEN /\ remoteRq' = [remoteRq EXCEPT ![g] = Tail(@)] /\ SchedTo(w, Head(remoteRq[g]))
              /\ UNCHANGED rq
         ELSE UNCHANGED <<rq, remoteRq, current, at>>
  /\ UNCHANGED <<remained, changed, sawStop, SearchVars>>

\* Nothing found: back to the main bthread, or around its loop.
StealNothing(w) ==
  /\ at[w] = "steal" /\ unvisited[w] = {}
  /\ IF current[w] = Main
       THEN Goto(w, "wait") /\ UNCHANGED current
       ELSE SchedTo(w, Main)
  /\ UNCHANGED <<groupVars, remained, unvisited, changed, sawStop, SearchVars>>

---------------------------------------------------------------------------
(* The remained callback runs in the next context, then the next bthread.  *)

RemainVars == <<current, unvisited, changed, sawStop, stopVars, toDo, nosignalGroup>>

NothingRemains(w) ==
  /\ at[w] = "remain" /\ remained[w] = NoCallback /\ Free(w)
  /\ Goto(w, IF current[w] = Main THEN "wait" ELSE "run")
  /\ UNCHANGED <<groupVars, remained, signalling, alive, joiners, RemainVars>>

Remaining(w, kind) ==
  /\ at[w] = "remain" /\ remained[w].kind = kind
  /\ remained' = [remained EXCEPT ![w] = NoCallback]
  /\ UNCHANGED at

\* ready_to_run_in_worker(), with and without a signal.
RemainReady(w) ==
  /\ \/ Remaining(w, "ready") /\ ReadyToRun(w, <<remained[w].task>>, FALSE)
     \/ Remaining(w, "nosignal") /\ ReadyToRun(w, <<remained[w].task>>, TRUE)
  /\ UNCHANGED <<alive, joiners, RemainVars>>

\* ready_to_run_in_worker_ignoresignal(), of a bthread that is about to quit.
RemainIgnoreSignal(w) ==
  /\ Remaining(w, "ignoresignal")
  /\ rq' = [rq EXCEPT ![w] = Append(@, remained[w].task)]
  /\ UNCHANGED <<remoteRq, numNosignal, remoteNosignal, signalling, alive, joiners, RemainVars>>

\* wait_for_butex() on the version_butex of the joined bthread.
RemainJoin(w) ==
  LET t == remained[w].task  target == remained[w].target IN
  /\ Remaining(w, "join")
  /\ IF alive[target] = "live"
       THEN /\ joiners' = [joiners EXCEPT ![target] = @ \cup {t}]
            /\ UNCHANGED <<groupVars, signalling>>
       ELSE ReadyToRun(w, <<t>>, FALSE) /\ UNCHANGED joiners
  /\ UNCHANGED <<alive, RemainVars>>

\* _release_last_context(): stack and TaskMeta go back.
RemainRelease(w) ==
  /\ Remaining(w, "release")
  /\ alive' = [alive EXCEPT ![remained[w].task] = "freed"]
  /\ UNCHANGED <<groupVars, signalling, joiners, RemainVars>>

---------------------------------------------------------------------------
(* What a running bthread does.                                            *)

Running(w, op) ==
  /\ at[w] = "run" /\ Free(w)
  /\ op \in toDo[current[w]]
  /\ toDo' = [toDo EXCEPT ![current[w]] = @ \ {op}]
  /\ UNCHANGED <<unvisited, changed, sawStop, stopVars, joiners, nosignalGroup>>

SetRemained(w, callback) == remained' = [remained EXCEPT ![w] = callback]

\* Mutant: the bthread is made runnable before its context is left.
YieldMutant(w) ==
  /\ Running(w, "yield")
  /\ ReadyToRun(w, <<current[w]>>, FALSE)
  /\ Goto(w, "pop")
  /\ UNCHANGED <<current, remained, alive>>
Yield(w) ==
  /\ Running(w, "yield")
  /\ SetRemained(w, [kind |-> "ready", task |-> current[w]])
  /\ Goto(w, "pop")
  /\ UNCHANGED <<groupVars, current, signalling, alive>>

StartBackground(w, t) ==
  /\ alive[t] = "new" /\ alive' = [alive EXCEPT ![t] = "live"]
  /\ \/ Running(w, "background") /\ ReadyToRun(w, <<t>>, FALSE)
     \/ Running(w, "nosignal") /\ ReadyToRun(w, <<t>>, TRUE)
  /\ UNCHANGED <<current, at, remained>>

\* start_foreground(): the new bthread runs at once, the caller is made runnable.
StartForeground(w, t) ==
  /\ Running(w, "foreground")
  /\ alive[t] = "new" /\ alive' = [alive EXCEPT ![t] = "live"]
  /\ \E kind \in {"ready", "nosignal", "ignoresignal"} :
       SetRemained(w, [kind |-> kind, task |-> current[w]])
  /\ SchedTo(w, t)
  /\ UNCHANGED <<groupVars, signalling>>

FlushLocal(w) ==
  /\ Running(w, "flush")
  /\ IF numNosignal[w] = 0 THEN UNCHANGED <<groupVars, signalling>>
     ELSE ReadyToRun(w, <<>>, FALSE)
  /\ UNCHANGED <<current, at, remained, alive>>

\* join(): EWOULDBLOCK ends the loop, a wait suspends the caller.
Join(w, t) ==
  /\ Running(w, "join")
  /\ t # current[w] /\ alive[t] # "new"
  /\ IF alive[t] = "live"
       THEN /\ SetRemained(w, [kind |-> "join", task |-> current[w], target |-> t])
            /\ Goto(w, "pop")
       ELSE UNCHANGED <<remained, at>>
  /\ UNCHANGED <<groupVars, current, signalling, alive>>

\* task_runner() after the user function: the version is increased...
EndTask(w) ==
  /\ at[w] = "run" /\ Free(w)
  /\ alive' = [alive EXCEPT ![current[w]] = "ended"]
  /\ toDo' = [toDo EXCEPT ![current[w]] = {}]
  /\ Goto(w, "wake")
  /\ UNCHANGED <<groupVars, current, remained, unvisited, changed, sawStop, signalling, stopVars,
                 joiners, nosignalGroup>>

\* ...then butex_wake_except() readies the joiners without signals and flushes,
\* and ending_sched() leaves the context to _release_last_context().
WakeJoiners(w) ==
  LET t == current[w]  order == SetToSeq(joiners[t]) IN
  /\ at[w] = "wake"
  /\ joiners' = [joiners EXCEPT ![t] = {}]
  /\ IF order = <<>> THEN UNCHANGED <<groupVars, signalling>> ELSE ReadyToRun(w, order, FALSE)
  /\ SetRemained(w, [kind |-> "release", task |-> t])
  /\ Goto(w, "pop")
  /\ UNCHANGED <<current, unvisited, changed, sawStop, stopVars, alive, toDo, nosignalGroup>>

WorkerStep(w) ==
  \/ WaitTask(w) \/ PopOwn(w) \/ PopRemote(w) \/ SaveState(w)
  \/ \E g \in Workers : StealFrom(w, g)
  \/ StealNothing(w) \/ NothingRemains(w)
  \/ RemainReady(w) \/ RemainIgnoreSignal(w) \/ RemainJoin(w) \/ RemainRelease(w)
  \/ EndTask(w) \/ WakeJoiners(w)

TaskStep(w) ==
  \/ Yield(w) \/ FlushLocal(w)
  \/ \E t \in Tasks : StartBackground(w, t) \/ StartForeground(w, t) \/ Join(w, t)

PthreadStep ==
  \/ \E t \in Tasks, nosignal \in BOOLEAN : StartRemote(t, nosignal)
  \/ \E g \in Workers : FlushWhenFull(g)
  \/ BthreadFlush \/ StopWorld
  \/ \E l \in 1..PlNum : StopLot(l)

SchedNext ==
  \/ \E a \in Workers \cup {Pthread} : SignalLot(a)
  \/ \E w \in Workers : WorkerStep(w) \/ TaskStep(w)
  \/ PthreadStep

SchedSpec == SchedInit /\ [][SchedNext]_schedVars

---------------------------------------------------------------------------

SchedTypeOK ==
  /\ \A w \in Workers : rq[w] \in Seq(Tasks) /\ remoteRq[w] \in Seq(Tasks)
  /\ current \in [Workers -> Tasks \cup {Main}]
  /\ at \in [Workers -> {"wait", "parked", "pop", "remote", "save", "steal", "remain", "run",
                         "wake", "exit"}]
  /\ alive \in [Tasks -> {"new", "live", "ended", "freed"}]

HeldBy(w, t) == current[w] = t \/ (remained[w] # NoCallback /\ remained[w].task = t)
Places(t) ==
  Cardinality({w \in Workers : HeldBy(w, t)}) + Cardinality({u \in Tasks : t \in joiners[u]})
  + Cardinality({p \in Workers \X (1..Cardinality(Tasks)) :
                   LET w == p[1]  i == p[2]
                   IN  \/ i <= Len(rq[w]) /\ rq[w][i] = t
                       \/ i <= Len(remoteRq[w]) /\ remoteRq[w][i] = t})

\* A bthread's stack is never used by two workers, and no bthread is dropped: from
\* its start until its TaskMeta is released a bthread is in exactly one place: with
\* one worker (running, or switched away from with its remained callback pending),
\* in one run queue, or waiting in a join; afterwards it is nowhere
\* (src/src-bthread/task_group.cpp:641-759, 845-866).
OnePlace == \A t \in Tasks : Places(t) = IF alive[t] \in {"live", "ended"} THEN 1 ELSE 0

\* No wakeup is lost: until the workers are stopped, when every worker is parked and no
\* signal_task() is under way, a queue, of a worker or remote, holds no more bthreads than
\* were put there NOSIGNAL and not yet flushed; and once bthread_stop_world() went through
\* the lots, no worker is parked or will be, so it can join them
\* (src/src-bthread/task_group.h:331-339, task_control.cpp:320-350, 470-498,
\* parking_lot.h:51-84).
NoneStranded ==
  /\ lotStopped = 1..PlNum => \A w \in Workers : at[w] # "parked"
  /\ (/\ ~stopCalled
      /\ \A w \in Workers : at[w] = "parked"
      /\ \A a \in Workers \cup {Pthread} : Free(a))
     => \A w \in Workers :
          /\ Len(rq[w]) <= numNosignal[w]
          /\ Len(remoteRq[w]) <= remoteNosignal[w]
=============================================================================
