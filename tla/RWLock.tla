------------------------------- MODULE RWLock -------------------------------
(***************************************************************************)
(* src-bthread/rwlock.cpp over semaphore.cpp.  reader_count counts the     *)
(* readers and, by subtracting RWLockMaxReaders, announces a writer;       *)
(* reader_wait counts the readers a writer waits for; reader_sema and      *)
(* writer_sema are semaphores whose posts add to the count in one step and *)
(* wake in another.  Every thread locks once and unlocks.                  *)
(*                                                                         *)
(* The semaphores block on butexes as Futex.tla specifies them, and        *)
(* write_queue_mutex is the mutex of Locks.tla: held by one thread.        *)
(***************************************************************************)
EXTENDS Integers, Sequences, SequencesExt, FiniteSets

CONSTANTS
    Readers, Writers,
    TimedRw,            \* threads that pass an abstime
    RWLockMaxReaders    \* 2^30 in the code, with an int of 4 * 2^30 values

ASSUME RWLockAssumption ==
    /\ Readers \cap Writers = {}
    /\ TimedRw \subseteq Readers \cup Writers
    /\ RWLockMaxReaders \in Nat
    /\ 4 * Cardinality(Readers \cup Writers) < RWLockMaxReaders

RwThreads == Readers \cup Writers

VARIABLES
    reader_count, reader_wait, wlock_flag,
    write_queue_mutex,  \* the holder, or "free"
    sema,               \* the counts of "reader" and "writer"
    semq,               \* who is queued on them
    rwpc,               \* per thread: where it is
    rwreg,              \* per thread: the value its last atomic step returned
    rwcheck             \* a CHECK of rwlock.cpp failed

rwVars == <<reader_count, reader_wait, wlock_flag, write_queue_mutex, sema, semq, rwpc,
    rwreg, rwcheck>>

\* int and unsigned arithmetic, with RWLockMaxReaders a quarter of the range.
AsInt(x) == ((x + 2 * RWLockMaxReaders) % (4 * RWLockMaxReaders)) - 2 * RWLockMaxReaders
AsUnsigned(x) == x % (4 * RWLockMaxReaders)

RwTypeOK ==
    /\ {reader_count, reader_wait} \subseteq (-2 * RWLockMaxReaders)..(2 * RWLockMaxReaders - 1)
    /\ wlock_flag \in BOOLEAN
    /\ write_queue_mutex \in Writers \cup {"free"}
    /\ sema \in [{"reader", "writer"} -> 0..(4 * RWLockMaxReaders - 1)]
    /\ \A s \in {"reader", "writer"} : ToSet(semq[s]) \subseteq RwThreads
    /\ rwpc \in [RwThreads -> {"start", "sem", "queued", "held", "drop", "post", "wake", "mutex",
                               "announce", "drain", "abandon", "release", "failed", "timedout", "done"}]
    /\ rwcheck \in BOOLEAN

RwInit ==
    /\ reader_count = 0 /\ reader_wait = 0 /\ wlock_flag = FALSE
    /\ write_queue_mutex = "free"
    /\ sema = [s \in {"reader", "writer"} |-> 0]
    /\ semq = [s \in {"reader", "writer"} |-> << >>]
    /\ rwpc = [t \in RwThreads |-> "start"]
    /\ rwreg = [t \in RwThreads |-> 0]
    /\ rwcheck = FALSE

At(t, pc) == rwpc[t] = pc
Then(t, pc) == rwpc' = [rwpc EXCEPT ![t] = pc]
semVars == <<sema, semq>>
countVars == <<reader_count, reader_wait, wlock_flag, write_queue_mutex>>
-----------------------------------------------------------------------------
(* semaphore.cpp *)

\* Whose semaphore a thread waits on, and whose it posts.
WaitsOn(t) == IF t \in Readers THEN "reader" ELSE "writer"
Posts(t) == IF t \in Readers THEN "writer" ELSE "reader"

\* bthread_sem_wait_impl: take one, or queue while the count is 0.  A weak
\* compare-exchange that fails finds EWOULDBLOCK and tries again.  A thread
\* that lost the race after a wake-up may queue at the head.
SemWait(t) ==
    /\ At(t, "sem")
    /\ LET s == WaitsOn(t)
       IN IF sema[s] > 0
          THEN /\ sema' = [sema EXCEPT ![s] = @ - 1]
               /\ Then(t, "held")
               /\ wlock_flag' = (wlock_flag \/ t \in Writers)
               /\ UNCHANGED semq
          ELSE /\ \E q \in {Append(semq[s], t), <<t>> \o semq[s]} : semq' = [semq EXCEPT ![s] = q]
               /\ Then(t, "queued")
               /\ UNCHANGED <<sema, wlock_flag>>
    /\ UNCHANGED <<reader_count, reader_wait, write_queue_mutex, rwreg, rwcheck>>

\* ETIMEDOUT: a reader returns at once, a writer releases write_queue_mutex.
SemTimeout(t) ==
    /\ At(t, "queued")
    /\ t \in TimedRw
    /\ semq' = [semq EXCEPT ![WaitsOn(t)] = SelectSeq(@, LAMBDA x : x # t)]
    /\ Then(t, IF t \in Readers THEN "timedout" ELSE "abandon")
    /\ UNCHANGED <<sema, countVars, rwreg, rwcheck>>

\* fetch_add of bthread_sem_post, which keeps the OLD count in n.
SemPost(t) ==
    /\ At(t, "post")
    /\ LET s == Posts(t)
           num == IF t \in Readers THEN 1 ELSE rwreg[t]
       IN IF num = 0
          THEN Then(t, "release") /\ UNCHANGED <<sema, rwreg>>
          ELSE /\ sema' = [sema EXCEPT ![s] = AsUnsigned(@ + num)]
               /\ rwreg' = [rwreg EXCEPT ![t] = sema[s]]
               /\ Then(t, "wake")
    /\ UNCHANGED <<semq, countVars, rwcheck>>

\* Mutant: a post to an empty semaphore wakes nobody.
WokenByMutant(n, size) == IF n > size THEN size ELSE n

\* butex_wake_n(n): all when n is 0.
WokenBy(n, size) == IF n = 0 \/ n > size THEN size ELSE n

SemWake(t) ==
    /\ At(t, "wake")
    /\ LET s == Posts(t)
           size == Len(semq[s])
           count == WokenBy(rwreg[t], size)
       IN /\ semq' = [semq EXCEPT ![s] = SubSeq(@, count + 1, size)]
          /\ rwpc' = [x \in RwThreads |->
                CASE x = t -> IF t \in Readers THEN "done" ELSE "release"
                  [] \E i \in 1..count : semq[s][i] = x -> "sem"
                  [] OTHER -> rwpc[x]]
    /\ UNCHANGED <<sema, countVars, rwreg, rwcheck>>
-----------------------------------------------------------------------------
(* Readers *)

\* rwlock_rdlock_impl
RdLock(t) ==
    /\ At(t, "start")
    /\ t \in Readers
    /\ reader_count' = AsInt(reader_count + 1)
    /\ Then(t, IF reader_count' >= 0 THEN "held" ELSE "sem")
    /\ rwcheck' = (rwcheck \/ reader_count' >= RWLockMaxReaders)
    /\ UNCHANGED <<reader_wait, wlock_flag, write_queue_mutex, semVars, rwreg>>

\* rwlock_tryrdlock
TryRdLock(t) ==
    /\ At(t, "start")
    /\ t \in Readers
    /\ IF reader_count < 0
       THEN Then(t, "failed") /\ UNCHANGED reader_count
       ELSE Then(t, "held") /\ reader_count' = AsInt(reader_count + 1)
    /\ UNCHANGED <<reader_wait, wlock_flag, write_queue_mutex, semVars, rwreg, rwcheck>>

\* rwlock_unlock picks the branch from wlock_flag; rwlock_unrdlock.
UnRdLock(t) ==
    /\ At(t, "held")
    /\ t \in Readers
    /\ reader_count' = AsInt(reader_count - 1)
    /\ Then(t, IF reader_count' >= 0 THEN "done" ELSE "drop")
    /\ rwcheck' = (rwcheck \/ wlock_flag \/ reader_count' + 1 \in {0, -RWLockMaxReaders})
    /\ UNCHANGED <<reader_wait, wlock_flag, write_queue_mutex, semVars, rwreg>>

\* A writer is pending: the last reader unblocks it.
UnRdLockSlow(t) ==
    /\ At(t, "drop")
    /\ reader_wait' = AsInt(reader_wait - 1)
    /\ Then(t, IF reader_wait' = 0 THEN "post" ELSE "done")
    /\ UNCHANGED <<reader_count, wlock_flag, write_queue_mutex, semVars, rwreg, rwcheck>>
-----------------------------------------------------------------------------
(* Writers *)

\* write_queue_mutex, by trylock or by waiting.
WrLock(t) ==
    /\ At(t, "start")
    /\ t \in Writers
    /\ write_queue_mutex = "free"
    /\ write_queue_mutex' = t
    /\ Then(t, "announce")
    /\ UNCHANGED <<reader_count, reader_wait, wlock_flag, semVars, rwreg, rwcheck>>

\* rwlock_trywrlock, and a timed lock whose mutex stays taken.
TryWrLock(t) ==
    /\ At(t, "start")
    /\ t \in Writers
    /\ \/ /\ write_queue_mutex # "free"
          /\ Then(t, "failed")
          /\ UNCHANGED <<reader_count, wlock_flag, write_queue_mutex>>
       \/ /\ write_queue_mutex = "free"
          /\ write_queue_mutex' = t
          /\ IF reader_count = 0
             THEN /\ reader_count' = -RWLockMaxReaders
                  /\ wlock_flag' = TRUE
                  /\ Then(t, "held")
             ELSE Then(t, "abandon") /\ UNCHANGED <<reader_count, wlock_flag>>
    /\ UNCHANGED <<reader_wait, semVars, rwreg, rwcheck>>

\* "Announce to readers there is a pending writer."
Announce(t) ==
    /\ At(t, "announce")
    /\ reader_count' = AsInt(reader_count - RWLockMaxReaders)
    /\ rwreg' = [rwreg EXCEPT ![t] = reader_count]
    /\ Then(t, "drain")
    /\ UNCHANGED <<reader_wait, wlock_flag, write_queue_mutex, semVars, rwcheck>>

\* Mutant: the writer does not add to what departing readers took off.
DrainedMutant(t) == rwreg[t]

\* reader_wait.fetch_add(reader_count) + reader_count
Drained(t) == AsInt(reader_wait + rwreg[t])

\* "Wait for active readers."
Drain(t) ==
    /\ At(t, "drain")
    /\ reader_wait' = IF rwreg[t] # 0 THEN Drained(t) ELSE reader_wait
    /\ IF rwreg[t] # 0 /\ reader_wait' # 0
       THEN Then(t, "sem") /\ UNCHANGED wlock_flag
       ELSE Then(t, "held") /\ wlock_flag' = TRUE
    /\ UNCHANGED <<reader_count, write_queue_mutex, semVars, rwreg, rwcheck>>

\* bthread_mutex_unlock on a failed attempt.
Abandon(t) ==
    /\ At(t, "abandon")
    /\ write_queue_mutex' = "free"
    /\ Then(t, "failed")
    /\ UNCHANGED <<reader_count, reader_wait, wlock_flag, semVars, rwreg, rwcheck>>

\* rwlock_unwrlock
UnWrLock(t) ==
    /\ At(t, "held")
    /\ t \in Writers
    /\ wlock_flag' = FALSE
    /\ reader_count' = AsInt(reader_count + RWLockMaxReaders)
    /\ rwreg' = [rwreg EXCEPT ![t] = reader_count']
    /\ rwcheck' = (rwcheck \/ ~wlock_flag \/ reader_count' >= RWLockMaxReaders)
    /\ Then(t, "post")
    /\ UNCHANGED <<reader_wait, write_queue_mutex, semVars>>

\* rwlock_unwrlock_slow, after the readers were posted.
ReleaseQueue(t) ==
    /\ At(t, "release")
    /\ write_queue_mutex' = "free"
    /\ Then(t, "done")
    /\ UNCHANGED <<reader_count, reader_wait, wlock_flag, semVars, rwreg, rwcheck>>
-----------------------------------------------------------------------------
RwStep(t) ==
    \/ SemWait(t) \/ SemPost(t) \/ SemWake(t)
    \/ RdLock(t) \/ TryRdLock(t) \/ UnRdLock(t) \/ UnRdLockSlow(t)
    \/ WrLock(t) \/ TryWrLock(t) \/ Announce(t) \/ Drain(t)
    \/ Abandon(t) \/ UnWrLock(t) \/ ReleaseQueue(t)

RwNext == \E t \in RwThreads : RwStep(t) \/ SemTimeout(t)

RwFairness == \A t \in RwThreads : WF_rwVars(RwStep(t))

RwSpec == RwInit /\ [][RwNext]_rwVars /\ RwFairness
-----------------------------------------------------------------------------
(* Properties *)

\* "The lock can be held by an arbitrary number of readers or a single
\* writer" (rwlock.cpp:27), and unlock takes the branch of the caller's side
\* without failing a CHECK.
RwExclusive ==
    /\ \A w \in Writers : At(w, "held") =>
          \A t \in RwThreads \ {w} : ~At(t, "held")
    /\ ~rwcheck

\* Everybody who locks gets the lock and gives it back: no post is lost
\* between the two steps of a semaphore (semaphore.cpp:76).  Unless a reader
\* times out, which leaves reader_count one too high for good.
RwAllDone ==
    <>(\/ \A t \in RwThreads : rwpc[t] \in {"done", "failed"}
       \/ \E t \in Readers : rwpc[t] = "timedout")
=============================================================================
