----------------------------- MODULE MCProgress -----------------------------
(***************************************************************************)
(* Threads that wait for one another on small instances: waiters of a      *)
(* butex, of a mutex and a condition, of a rwlock, callers of              *)
(* bthread_once(), the writers of a failing endpoint, and the pollers of   *)
(* its completion queues.  A behaviour is one of the parts, chosen in the  *)
(* initial state.                                                          *)
(***************************************************************************)
EXTENDS Butex, Locks, RWLock, Once, WriteQueue, CqPoller

CONSTANTS t1, t2, t3, t4    \* the threads of every part

VARIABLE part
Parts == {"butex", "locks", "rwlock", "once", "write_queue", "cq"}

McInit ==
  /\ part \in Parts
  /\ ButexInit /\ LocksInit /\ RwInit /\ OnceInit /\ CqInit
  /\ Init /\ (part # "write_queue" => ~hsOk)

lockingVars == <<butexVars, locksVars, rwVars, onceVars>>
McVars == <<part, lockingVars, vars, cqVars>>
Waiting(step) == part = "butex" /\ step
                 /\ UNCHANGED <<part, locksVars, rwVars, onceVars, vars, cqVars>>
Locking(step) == part = "locks" /\ step
                 /\ UNCHANGED <<part, butexVars, rwVars, onceVars, vars, cqVars>>
Sharing(step) == part = "rwlock" /\ step
                 /\ UNCHANGED <<part, butexVars, locksVars, onceVars, vars, cqVars>>
Calling(step) == part = "once" /\ step
                 /\ UNCHANGED <<part, butexVars, locksVars, rwVars, vars, cqVars>>
Writing(step) == part = "write_queue" /\ step /\ UNCHANGED <<part, lockingVars, cqVars>>
PollingCq(step) == part = "cq" /\ step /\ UNCHANGED <<part, lockingVars, vars>>

McNext == \/ Waiting(ButexNext) \/ Locking(LocksNext) \/ Sharing(RwNext) \/ Calling(OnceNext)
          \/ Writing(Next) \/ PollingCq(CqNext)

\* The fairness of the parts, thread by thread: the threads of the parts ...
Thread(x) ==
  \/ x \in Waiters /\ Waiting(WaitStep(x) \/ EraseStep(x, "self"))
  \/ x \in ButexWakers /\ Waiting(Wake(x) \/ WakeNext(x))
  \/ x \in LockThreads /\ Locking(LockStep(x))
  \/ x \in RwThreads /\ Sharing(RwStep(x))
  \/ x \in OnceCallers /\ Calling(OnceStep(x))
  \/ x \in Reqs /\ Writing(pc[x] # "idle" /\ Producer(x))
  \/ x \in Pollers /\ PollingCq(PollCq(x))
\* ... and those behind them.
Timing == \E w \in Waiters : \/ TimerFires(w) \/ TimerOver(w) \/ PthreadTimeout(w)
                              \/ EraseStep(w, "timer")
Interrupting == \E w \in Interruptible : \/ InterruptSet(w) \/ InterruptSetBack(w)
                                         \/ EraseStep(w, "interrupt")
Connecting == HandshakeDone \/ HandshakeTake \/ HandshakeFailPending
Ending == OnFailed \/ BeforeRecycled \/ Recycle
McFairness ==
  /\ WF_McVars(Thread(t1)) /\ WF_McVars(Thread(t2))
  /\ WF_McVars(Thread(t3) \/ Writing(Connecting) \/ PollingCq(Dispatcher))
  /\ WF_McVars(Thread(t4) \/ Waiting(Timing) \/ Writing(\E r \in Reqs : WriterStep(r)))
  /\ WF_McVars(\/ Waiting(Interrupting) \/ Writing(Ending)
               \/ PollingCq(CqOnFailed \/ DeallocateResources))

McSpec == McInit /\ [][McNext]_McVars /\ McFairness

-----------------------------------------------------------------------------

\* The type invariants of the parts.
McTypeOK == ButexTypeOK /\ LocksTypeOK /\ RwTypeOK /\ OnceTypeOK /\ TypeOK /\ CqTypeOK

\* Nobody uses a waiter whose wait is over or resumes it twice, a mutex has one holder and
\* owes its sleepers a wake-up, a writer excludes everybody, an initialization runs once
\* and is over when a caller returns: ButexSafe, MutexSafe, RwExclusive and OnceSafe
\* (src/src-bthread/butex.cpp, mutex.cpp, rwlock.cpp, bthread_once.cpp).
SyncSafe == ButexSafe /\ MutexSafe /\ RwExclusive /\ OnceSafe

CqAtRest == cqFail = 0 /\ \A c \in Cqs : ~Unpolled(c)
Expected == part \in {"locks", "rwlock", "once"} \/ fail > 0 \/ ~CqAtRest \/ Abstract!FDecided # {}
Finished ==
  CASE part = "locks" -> \A t \in LockThreads : lpc[t] = "done"
    [] part = "rwlock" -> \/ \A t \in RwThreads : rwpc[t] \in {"done", "failed"}
                          \/ \E t \in Readers : rwpc[t] = "timedout"
    [] part = "once" -> \A c \in OnceCallers : oncepc[c] = "returned"
    [] part = "write_queue" -> recycled = "done"
    [] part = "cq" -> CqAtRest \/ ~alive
    [] part = "butex" -> Abstract!FDecided = {}

\* Whoever must get on does: every thread gets through its mutex and its condition, its
\* rwlock unless a reader timed out, its bthread_once(); a butex wait that was ended
\* returns; a failed endpoint drains its write queue and is recycled; and completions are
\* polled, or else the endpoint fails and lets its queues go: ConsumersFinish, RwAllDone,
\* OnceReturns, FailureDrains, WorkIsPolled and QueuesReleased in one formula, since only one
\* part moves (src/src-bthread/condition_variable.cpp:82, semaphore.cpp:76,
\* bthread_once.cpp:43-71, butex.cpp:677-714, src/inc/versioned_ref_with_id.h,
\* src/src-endpoint/fast_rdma_endpoint.cc:1361-1436).
AllFinish == Expected ~> Finished
=============================================================================
