------------------------------- MODULE Locks -------------------------------
(***************************************************************************)
(* src-bthread/mutex.cpp and condition_variable.cpp: a mutex whose word is *)
(* 0, LOCKED or CONTENDED, and a condition variable that counts signals in *)
(* `seq' and, on broadcast, wakes one waiter and moves the others to the   *)
(* queue of the mutex.  Both block on butexes, used here as Futex.tla      *)
(* specifies them: a wait compares and queues in one step, a wake removes  *)
(* from the head.                                                          *)
(*                                                                         *)
(* Consumers take one item each, waiting on the condition variable while   *)
(* there is none.  The producer adds an item for each of them and signals  *)
(* once per item, or broadcasts, before or after it releases the mutex.    *)
(***************************************************************************)
EXTENDS Naturals, Sequences, SequencesExt, FiniteSets

CONSTANTS
    Consumers,
    Supplier,           \* one thread
    TimedConsumers,     \* consumers that use bthread_cond_timedwait
    InterruptedThreads  \* threads that bthread_interrupt is called on, once

ASSUME LocksAssumption ==
    /\ TimedConsumers \subseteq Consumers
    /\ Supplier \notin Consumers
    /\ InterruptedThreads \subseteq Consumers \cup {Supplier}

LockThreads == Consumers \cup {Supplier}

VARIABLES
    mword,      \* the mutex's butex: "0", "LOCKED", "CONTENDED"
    mqueue,     \* its waiters
    seq,        \* CondInternal::seq
    bound,      \* CondInternal::m is set
    cqueue,     \* the waiters of seq
    lpc,        \* per thread: where it is
    prevWord,       \* per thread: what unlock's exchange returned
    expected_seq,   \* per consumer: seq as it was read under the mutex
    op,         \* what the producer calls
    items,      \* what the mutex protects
    gaveUp,     \* timed consumers whose wait timed out
    unbothered  \* threads that bthread_interrupt may still be called on

locksVars == <<mword, mqueue, seq, bound, cqueue, lpc, prevWord, expected_seq, op, items,
    gaveUp, unbothered>>

LocksTypeOK ==
    /\ mword \in {"0", "LOCKED", "CONTENDED"}
    /\ ToSet(mqueue) \subseteq LockThreads /\ ToSet(cqueue) \subseteq Consumers
    /\ seq \in 0..Cardinality(Consumers)
    /\ bound \in BOOLEAN
    /\ lpc \in [LockThreads -> {"start", "contend", "mwait", "mblocked", "crit", "unlock",
                    "uwake", "cunlock", "cwake", "cwait", "cblocked", "signal", "sigwake",
                    "signal late", "sigwake late", "unlock late", "uwake late", "done"}]
    /\ prevWord \in [LockThreads -> {"0", "LOCKED", "CONTENDED"}]
    /\ expected_seq \in [Consumers -> 0..Cardinality(Consumers)]
    /\ items \in 0..Cardinality(Consumers)
    /\ op \in {"none", "signal", "broadcast"}
    /\ gaveUp \subseteq TimedConsumers
    /\ unbothered \subseteq InterruptedThreads

LocksInit ==
    /\ mword = "0" /\ mqueue = << >>
    /\ seq = 0 /\ bound = FALSE /\ cqueue = << >>
    /\ lpc = [t \in LockThreads |-> "start"]
    /\ prevWord = [t \in LockThreads |-> "0"]
    /\ expected_seq = [t \in Consumers |-> 0]
    /\ op = "none" /\ items = 0 /\ gaveUp = {}
    /\ unbothered = InterruptedThreads

LockGoto(t, pc) == lpc' = [lpc EXCEPT ![t] = pc]
Without(s, t) == SelectSeq(s, LAMBDA x : x # t)

condVars == <<seq, bound, cqueue, expected_seq, op>>
dataVars == <<items, gaveUp, unbothered>>
-----------------------------------------------------------------------------
(* bthread_mutex_lock *)

\* mutex_trylock_impl exchanges the `locked' byte only.
TryLock(t) ==
    /\ lpc[t] = "start"
    /\ IF mword = "0" THEN mword' = "LOCKED" /\ LockGoto(t, "crit")
                      ELSE UNCHANGED mword /\ LockGoto(t, "contend")
    /\ UNCHANGED <<mqueue, prevWord, condVars, dataVars>>

\* Mutant: a thread that finds the mutex free marks it LOCKED.
ExchangedMutant(word) == IF word = "0" THEN "LOCKED" ELSE "CONTENDED"

\* whole->exchange(BTHREAD_MUTEX_CONTENDED): others may be waiting.
Exchanged(word) == "CONTENDED"

\* The loop condition of mutex_lock_contended_impl.
LockContended(t) ==
    /\ lpc[t] = "contend"
    /\ mword' = Exchanged(mword)
    /\ LockGoto(t, IF mword = "0" THEN "crit" ELSE "mwait")
    /\ UNCHANGED <<mqueue, prevWord, condVars, dataVars>>

\* butex_wait(whole, CONTENDED): EWOULDBLOCK, or queued at the tail (first
\* wait) or the head (queue_lifo; errno decides, which a success leaves as it
\* was, so either may happen).
MutexWait(t) ==
    /\ lpc[t] = "mwait"
    /\ IF mword # "CONTENDED"
       THEN LockGoto(t, "contend") /\ UNCHANGED mqueue
       ELSE LockGoto(t, "mblocked") /\ mqueue' \in {Append(mqueue, t), <<t>> \o mqueue}
    /\ UNCHANGED <<mword, prevWord, condVars, dataVars>>

\* EINTR is ignored by a mutex and by a condition variable: the thread goes
\* on to contend for the mutex.
WaitInterrupted(t) ==
    /\ lpc[t] \in {"mblocked", "cblocked"}
    /\ t \in unbothered
    /\ unbothered' = unbothered \ {t}
    /\ mqueue' = Without(mqueue, t)
    /\ cqueue' = Without(cqueue, t)
    /\ LockGoto(t, "contend")
    /\ UNCHANGED <<mword, prevWord, seq, bound, expected_seq, op, items, gaveUp>>
-----------------------------------------------------------------------------
(* bthread_mutex_unlock: an exchange, then a wake *)

Release(t, from, to) ==
    /\ lpc[t] = from
    /\ mword' = "0"
    /\ prevWord' = [prevWord EXCEPT ![t] = mword]
    /\ LockGoto(t, to)
    /\ UNCHANGED <<mqueue, condVars, dataVars>>

\* Mutant: a contended mutex is released without a wake.
MustWakeMutant(word) == word = "0"

\* prevWord != BTHREAD_MUTEX_LOCKED
MustWake(word) == word # "LOCKED"

WakeOne(t, from, to) ==
    /\ lpc[t] = from
    /\ LET wakes == MustWake(prevWord[t]) /\ mqueue # << >>
       IN /\ mqueue' = IF wakes THEN Tail(mqueue) ELSE mqueue
          /\ lpc' = [x \in LockThreads |->
                        CASE x = t -> to
                          [] wakes /\ x = Head(mqueue) -> "contend"
                          [] OTHER -> lpc[x]]
    /\ UNCHANGED <<mword, prevWord, condVars, dataVars>>

Unlock(t) ==
    \/ Release(t, "unlock", "uwake")
    \/ WakeOne(t, "uwake", "done")
-----------------------------------------------------------------------------
(* The consumer: bthread_cond_wait and bthread_cond_timedwait *)

TakeItem(t) ==
    /\ lpc[t] = "crit"
    /\ t \in Consumers
    /\ items > 0 \/ t \in gaveUp
    /\ items' = IF items > 0 THEN items - 1 ELSE items
    /\ LockGoto(t, "unlock")
    /\ UNCHANGED <<mword, mqueue, prevWord, condVars, gaveUp, unbothered>>

\* Mutant: seq is read after the mutex was released.
ExpectedSeqMutant(t) == seq

\* seq is read, and the mutex bound to c, before the mutex is released.
ExpectedSeq(t) == expected_seq[t]

CondWait(t) ==
    /\ lpc[t] = "crit"
    /\ t \in Consumers \ gaveUp
    /\ items = 0
    /\ bound' = TRUE
    /\ expected_seq' = [expected_seq EXCEPT ![t] = seq]
    /\ LockGoto(t, "cunlock")
    /\ UNCHANGED <<mword, mqueue, prevWord, seq, cqueue, op, dataVars>>

CondUnlock(t) ==
    \/ Release(t, "cunlock", "cwake")
    \/ WakeOne(t, "cwake", "cwait")

\* butex_wait(seq, expected_seq), then bthread_mutex_lock_contended.
CondBlock(t) ==
    /\ lpc[t] = "cwait"
    /\ IF seq # ExpectedSeq(t)
       THEN LockGoto(t, "contend") /\ UNCHANGED cqueue
       ELSE LockGoto(t, "cblocked") /\ cqueue' = Append(cqueue, t)
    /\ UNCHANGED <<mword, mqueue, prevWord, seq, bound, expected_seq, op, dataVars>>

\* The deadline of timedwait removes the waiter from whichever queue
\* broadcast has put it in.
CondTimeout(t) ==
    /\ lpc[t] = "cblocked"
    /\ t \in TimedConsumers
    /\ mqueue' = Without(mqueue, t)
    /\ cqueue' = Without(cqueue, t)
    /\ gaveUp' = gaveUp \cup {t}
    /\ LockGoto(t, "contend")
    /\ UNCHANGED <<mword, prevWord, seq, bound, expected_seq, op, items, unbothered>>
-----------------------------------------------------------------------------
(* The producer: bthread_cond_signal and bthread_cond_broadcast *)

Put(t) ==
    /\ lpc[t] = "crit"
    /\ t = Supplier
    /\ items' = Cardinality(Consumers)
    /\ op' \in {"signal", "broadcast"}
    /\ lpc' \in {[lpc EXCEPT ![t] = "signal"], [lpc EXCEPT ![t] = "unlock late"]}
    /\ UNCHANGED <<mword, mqueue, prevWord, seq, bound, cqueue, expected_seq, gaveUp, unbothered>>

UnlockLate(t) ==
    \/ Release(t, "unlock late", "uwake late")
    \/ WakeOne(t, "uwake late", "signal late")

\* broadcast returns when no mutex is bound: nobody ever waited.
Signal(t, from, to, out) ==
    /\ lpc[t] = from
    /\ IF op = "broadcast" /\ ~bound
       THEN UNCHANGED seq /\ LockGoto(t, out)
       ELSE seq' = seq + 1 /\ LockGoto(t, to)
    /\ UNCHANGED <<mword, mqueue, prevWord, bound, cqueue, expected_seq, op, dataVars>>

\* butex_wake(seq), and again for the next item; or butex_requeue(seq, mutex):
\* one is woken, the others wait for the mutex.
SignalWake(t, from, again, out) ==
    /\ lpc[t] = from
    /\ LET to == IF op = "signal" /\ seq < Cardinality(Consumers) THEN again ELSE out
       IN IF cqueue = << >>
          THEN LockGoto(t, to) /\ UNCHANGED <<mqueue, cqueue>>
          ELSE /\ lpc' = [lpc EXCEPT ![t] = to, ![Head(cqueue)] = "contend"]
               /\ IF op = "broadcast"
                  THEN mqueue' = mqueue \o Tail(cqueue) /\ cqueue' = << >>
                  ELSE cqueue' = Tail(cqueue) /\ UNCHANGED mqueue
    /\ UNCHANGED <<mword, prevWord, seq, bound, expected_seq, op, dataVars>>

SignalStep(t) ==
    \/ Signal(t, "signal", "sigwake", "unlock")
    \/ SignalWake(t, "sigwake", "signal", "unlock")
    \/ Signal(t, "signal late", "sigwake late", "done")
    \/ SignalWake(t, "sigwake late", "signal late", "done")
-----------------------------------------------------------------------------
LockStep(t) ==
    \/ TryLock(t) \/ LockContended(t) \/ MutexWait(t) \/ Unlock(t)
    \/ TakeItem(t) \/ CondWait(t) \/ CondUnlock(t) \/ CondBlock(t)
    \/ Put(t) \/ UnlockLate(t) \/ SignalStep(t)

LocksNext == \E t \in LockThreads : LockStep(t) \/ WaitInterrupted(t) \/ CondTimeout(t)

\* A runnable thread runs.  Nothing is assumed of deadlines or interruptions.
LocksFairness == \A t \in LockThreads : WF_locksVars(LockStep(t))

LocksSpec == LocksInit /\ [][LocksNext]_locksVars /\ LocksFairness
-----------------------------------------------------------------------------
(* Properties *)

Holding == {"crit", "unlock", "cunlock", "signal", "sigwake", "unlock late"}

\* At most one thread holds the mutex, however it was acquired: by trylock,
\* by a contended exchange, or on the way out of a condition wait.  And a
\* thread that sleeps on the mutex is owed a wake-up: the word says CONTENDED
\* or somebody is on its way to wake or to take the mutex (mutex.cpp:64,196).
MutexSafe ==
    /\ Cardinality({t \in LockThreads : lpc[t] \in Holding}) <= 1
    /\ (mword = "0") = (\A t \in LockThreads : lpc[t] \notin Holding)
    /\ (\E t \in LockThreads : lpc[t] = "mblocked") =>
          \/ mword = "CONTENDED"
          \/ \E t \in LockThreads :
                \/ lpc[t] = "contend"
                \/ lpc[t] \in {"uwake", "cwake", "uwake late"} /\ MustWake(prevWord[t])

\* Every consumer gets away: no signal is lost between reading seq and
\* sleeping, and the waiters that broadcast moved to the mutex are woken from
\* there one after the other (condition_variable.cpp:82).
ConsumersFinish == <>(\A t \in LockThreads : lpc[t] = "done")
=============================================================================
