----------------------------- MODULE BthreadId -----------------------------
(***************************************************************************)
(* bthread_id (src/src-bthread/id.cpp): versioned, lockable identifiers    *)
(* with error callbacks, over one slot of ResourcePool<Id> that is reused. *)
(* Sections under Id::mutex are one step.  butex_wait and butex_wake are   *)
(* the ones the Futex specification promises: compare and sleep is atomic, *)
(* a wake takes sleepers that are there.                                   *)
(*                                                                         *)
(* Versions are uint32_t; here they have IdModulus values, and the slot    *)
(* starts at 0 (fresh) or at the last version that id_create does not      *)
(* restart.                                                                *)
(***************************************************************************)
EXTENDS Naturals, Sequences, FiniteSets

CONSTANTS
  IdThreads,
  IdModulus,      \* 2^32
  IdMaxRange,     \* ID_MAX_RANGE
  CreateRanges,   \* ranges asked of id_create[_ranged]
  LockRanges,     \* ranges asked of lock_and_reset_range; 0 is a plain lock
  StartVersions,  \* versions the slot has reached before; 0 is fresh memory
  MaxCreates,     \* bound: incarnations of the slot
  MaxPending      \* bound: errors queued at a time

ASSUME IdAssumption ==
  /\ IdMaxRange \in Nat \ {0} /\ StartVersions \subseteq 0..IdModulus - 1
  /\ CreateRanges \subseteq 1..IdMaxRange /\ LockRanges \subseteq 0..IdMaxRange
  /\ MaxCreates \in Nat /\ MaxPending \in Nat
  /\ IdModulus \in Nat /\ IdModulus > (MaxCreates + 1) * (IdMaxRange + 4)

VARIABLES
  idButex, joinButex, firstVer, lockedVer, pendingQ,
  inUse,          \* the slot is out of the pool
  touched,        \* the live id was locked, joined or sent an error
  known,          \* versions handed out so far, and which incarnation each was
  creates,
  doing,          \* what each thread is doing
  slipped         \* history: a locker of this incarnation slept on unnoticed

idVars == <<idButex, joinButex, firstVer, lockedVer, pendingQ, inUse, touched, known,
            creates, doing, slipped>>
metaVars == <<idButex, joinButex, firstVer, lockedVer, pendingQ>>

Wrap(v) == v % IdModulus
HasVersion(v) == v >= firstVer /\ v < lockedVer
ContendedVer == Wrap(lockedVer + 1)
UnlockableVer == Wrap(lockedVer + 2)
EndVer == Wrap(lockedVer + 3)
Unlocked == idButex = firstVer

Doing(pc, v) == [pc |-> pc, v |-> v, ever |-> FALSE, expected |-> 0]
Do(t, d) == doing' = [doing EXCEPT ![t] = d]
Go(t, pc) == doing' = [doing EXCEPT ![t].pc = pc]
IdIdle(t) == Do(t, Doing("idle", 0))

Restarts(v) == v = 0 \/ Wrap(v + IdMaxRange + 2) < v

IdInit ==
  /\ \E v \in StartVersions : idButex = v /\ joinButex = 0
  /\ firstVer = 0 /\ lockedVer = 0 /\ pendingQ = <<>>
  /\ inUse = FALSE /\ touched = FALSE /\ known = {} /\ creates = 0
  /\ doing = [t \in IdThreads |-> Doing("idle", 0)] /\ slipped = FALSE

---------------------------------------------------------------------------

\* id_create_impl() (range 1) and id_create_ranged_impl().
Create(t, range) ==
  LET v == IF Restarts(idButex) THEN 1 ELSE idButex IN
  /\ doing[t].pc = "idle" /\ ~inUse /\ creates < MaxCreates
  /\ inUse' = TRUE /\ touched' = FALSE /\ creates' = creates + 1
  /\ idButex' = v /\ joinButex' = v /\ firstVer' = v /\ lockedVer' = Wrap(v + range)
  /\ known' = known \cup {[v |-> Wrap(v + i), n |-> creates + 1] : i \in 0..range - 1}
  /\ UNCHANGED <<pendingQ, doing>>

\* bthread_id_lock_and_reset_range(): range 0 is bthread_id_lock().
LockStart(t, id) ==
  /\ doing[t].pc = "idle" /\ id \in known
  /\ Do(t, Doing("lock", id.v))
  /\ touched' = TRUE
  /\ UNCHANGED <<metaVars, inUse, known, creates>>

NewLockedVer(range) ==
  IF range = 0 \/ Wrap(range + firstVer) <= lockedVer THEN lockedVer ELSE Wrap(firstVer + range)

\* Mutant: a locker that had to wait forgets that others may be waiting too.
TakenAsMutant(ever, locked) == locked
TakenAs(ever, locked) == IF ever THEN Wrap(locked + 1) ELSE locked

Lock(t, range) ==
  LET d == doing[t] IN
  /\ d.pc = "lock"
  /\ IF ~HasVersion(d.v) THEN IdIdle(t) /\ UNCHANGED <<idButex, lockedVer>>
     ELSE IF Unlocked
       THEN /\ lockedVer' = NewLockedVer(range)
            /\ idButex' = TakenAs(d.ever, lockedVer')
            /\ Do(t, Doing("holding", d.v))
     ELSE IF idButex # UnlockableVer
       THEN /\ idButex' = ContendedVer
            /\ Do(t, [d EXCEPT !.pc = "wait", !.ever = TRUE, !.expected = ContendedVer])
            /\ UNCHANGED lockedVer
     ELSE IdIdle(t) /\ UNCHANGED <<idButex, lockedVer>>
  /\ UNCHANGED <<joinButex, firstVer, pendingQ, inUse, touched, known, creates>>

\* butex_wait() outside the mutex.
Wait(t) ==
  /\ doing[t].pc \in {"wait", "joinwait"}
  /\ LET joins == doing[t].pc = "joinwait"
         value == IF joins THEN joinButex ELSE idButex
     IN IF value = doing[t].expected
          THEN Go(t, IF joins THEN "joinasleep" ELSE "asleep")
          ELSE Go(t, IF joins THEN "join" ELSE "lock")
  /\ UNCHANGED <<metaVars, inUse, touched, known, creates>>

TryLock(t, id) ==
  /\ doing[t].pc = "idle" /\ id \in known /\ HasVersion(id.v)
  /\ Unlocked /\ idButex' = lockedVer /\ touched' = TRUE
  /\ Do(t, Doing("holding", id.v))
  /\ UNCHANGED <<joinButex, firstVer, lockedVer, pendingQ, inUse, known, creates>>

\* bthread_id_error2(): run on_error now, or leave the error to the unlocker.
Error(t, id) ==
  /\ doing[t].pc = "idle" /\ id \in known /\ HasVersion(id.v)
  /\ touched' = TRUE
  /\ IF Unlocked
       THEN /\ idButex' = lockedVer
            /\ Do(t, Doing("holding", id.v))
            /\ UNCHANGED pendingQ
       ELSE /\ Len(pendingQ) < MaxPending
            /\ pendingQ' = Append(pendingQ, id.v)
            /\ UNCHANGED <<idButex, doing>>
  /\ UNCHANGED <<joinButex, firstVer, lockedVer, inUse, known, creates>>

\* Mutant: the queued errors are left for later.
TakesErrorMutant(q) == FALSE
TakesError(q) == q # <<>>

\* bthread_id_unlock() by the holder, on_error callbacks included: a queued error
\* keeps the id locked and its callback runs as the next holder of the lock.  After
\* bthread_id_about_to_destroy() the lock does not read as contended.
Unlock(t) ==
  /\ doing[t].pc = "holding"
  /\ IF TakesError(pendingQ)
       THEN /\ pendingQ' = Tail(pendingQ)
            /\ Do(t, Doing("holding", Head(pendingQ)))
            /\ UNCHANGED idButex
       ELSE /\ idButex' = firstVer
            /\ IF idButex = ContendedVer THEN Go(t, "wakeone") ELSE IdIdle(t)
            /\ UNCHANGED pendingQ
  /\ UNCHANGED <<joinButex, firstVer, lockedVer, inUse, touched, known, creates>>

AboutToDestroy(t) ==
  /\ doing[t].pc = "holding" /\ idButex # UnlockableVer
  /\ idButex' = UnlockableVer
  /\ Go(t, IF idButex = ContendedVer THEN "wakelockers" ELSE "holding")
  /\ UNCHANGED <<joinButex, firstVer, lockedVer, pendingQ, inUse, touched, known, creates>>

\* bthread_id_unlock_and_destroy().
Destroy(t) ==
  /\ doing[t].pc = "holding"
  /\ idButex' = EndVer /\ joinButex' = EndVer /\ firstVer' = EndVer /\ lockedVer' = EndVer
  /\ pendingQ' = <<>>
  /\ Go(t, "wakeall")
  /\ UNCHANGED <<inUse, touched, known, creates>>

\* bthread_id_cancel() is for an id nobody used yet.
Cancel(t, id) ==
  /\ doing[t].pc = "idle" /\ id \in known /\ HasVersion(id.v) /\ ~touched
  /\ idButex' = EndVer /\ firstVer' = EndVer /\ lockedVer' = EndVer
  /\ Go(t, "return")
  /\ UNCHANGED <<joinButex, pendingQ, inUse, touched, known, creates>>

IdJoin(t, id) ==
  /\ doing[t].pc = "idle" /\ id \in known
  /\ Do(t, Doing("join", id.v)) /\ touched' = TRUE
  /\ UNCHANGED <<metaVars, inUse, known, creates>>

JoinCheck(t) ==
  /\ doing[t].pc = "join"
  /\ IF HasVersion(doing[t].v)
       THEN Do(t, [doing[t] EXCEPT !.pc = "joinwait", !.expected = joinButex])
       ELSE IdIdle(t)
  /\ UNCHANGED <<metaVars, inUse, touched, known, creates>>

---------------------------------------------------------------------------
(* The wakes, after the mutex was released.                                *)

Asleep(pc) == {t \in IdThreads : doing[t].pc = pc}
Awake(woken, pc, t, next) ==
  doing' = [u \in IdThreads |->
    IF u = t THEN (IF next = "idle" THEN Doing("idle", 0) ELSE [doing[t] EXCEPT !.pc = next])
    ELSE IF u \in woken THEN [doing[u] EXCEPT !.pc = pc] ELSE doing[u]]

WakeOne(t) ==
  /\ doing[t].pc = "wakeone"
  /\ IF Asleep("asleep") = {} THEN IdIdle(t)
     ELSE \E u \in Asleep("asleep") : Awake({u}, "lock", t, "idle")
  /\ UNCHANGED <<metaVars, inUse, touched, known, creates>>

WakeLockers(t) ==
  /\ doing[t].pc \in {"wakelockers", "wakeall"}
  /\ Awake(Asleep("asleep"), "lock", t,
           IF doing[t].pc = "wakeall" THEN "wakejoiners" ELSE "holding")
  /\ UNCHANGED <<metaVars, inUse, touched, known, creates>>

IdWakeJoiners(t) ==
  /\ doing[t].pc = "wakejoiners"
  /\ Awake(Asleep("joinasleep"), "join", t, "return")
  /\ UNCHANGED <<metaVars, inUse, touched, known, creates>>

ReturnSlot(t) ==
  /\ doing[t].pc = "return"
  /\ inUse' = FALSE /\ IdIdle(t)
  /\ UNCHANGED <<metaVars, touched, known, creates>>

IdAct ==
  \E t \in IdThreads :
    \/ \E range \in CreateRanges : Create(t, range)
    \/ \E id \in known :
         \/ LockStart(t, id) \/ TryLock(t, id) \/ Error(t, id)
         \/ Cancel(t, id) \/ IdJoin(t, id)
    \/ \E range \in LockRanges : Lock(t, range)
    \/ Wait(t) \/ Unlock(t) \/ AboutToDestroy(t) \/ Destroy(t) \/ JoinCheck(t)
    \/ WakeOne(t) \/ WakeLockers(t) \/ IdWakeJoiners(t) \/ ReturnSlot(t)

\* The two steps that lose sight of a sleeping locker: an unlock that takes back
\* about_to_destroy() while one sleeps, and falling asleep on a value that does not read
\* as contended, because the range was raised by one since it was written.
Slips ==
  \/ idButex = UnlockableVer /\ idButex' = firstVer /\ Asleep("asleep") # {}
  \/ \E t \in IdThreads :
       doing[t].pc = "wait" /\ doing'[t].pc = "asleep" /\ idButex # ContendedVer
Remember == slipped' = (creates' = creates /\ (slipped \/ Slips))

IdNext == IdAct /\ Remember

IdSpec == IdInit /\ [][IdNext]_idVars

---------------------------------------------------------------------------

IdTypeOK ==
  /\ {idButex, joinButex, firstVer, lockedVer} \subseteq 0..IdModulus - 1
  /\ Len(pendingQ) <= MaxPending /\ slipped \in BOOLEAN
  /\ \A t \in IdThreads : doing[t].pc \in {"idle", "lock", "wait", "asleep", "holding", "wakeone",
       "wakelockers", "wakeall", "wakejoiners", "return", "join", "joinwait", "joinasleep"}

Holding(t) == doing[t].pc \in {"holding", "wakelockers"}

\* One thread at a time works on the object behind an id, through a live version of
\* it: the holder's version is valid, the id reads as locked, and no version is ever
\* 0.  Errors are queued only while somebody will run their on_error
\* (src/src-bthread/id.cpp:325-382, 405-455, 567-640, 709-742).
IdExclusive ==
  /\ \A t, u \in IdThreads : Holding(t) /\ Holding(u) => t = u
  /\ \A t \in IdThreads : Holding(t) => HasVersion(doing[t].v) /\ ~Unlocked /\ inUse
  /\ pendingQ # <<>> => \E t \in IdThreads : Holding(t)
  /\ \A id \in known : id.v # 0 /\ (id.n # creates \/ ~inUse => ~(HasVersion(id.v) /\ Unlocked))

\* "If `id' is locked by others, wait until `id' is unlocked or destroyed."
\* (src/src-bthread/id.h:94-95): while a thread sleeps in bthread_id_lock() a holder
\* stands to wake it, because the lock is marked contended or is about to be destroyed, or
\* a wake is still to come, or a woken locker is on its way and will mark the lock.
LockersAwaited ==
  Asleep("asleep") # {} =>
    \/ idButex \in {ContendedVer, UnlockableVer} /\ \E t \in IdThreads : Holding(t)
    \/ \E t \in IdThreads : doing[t].pc \in {"wakeone", "wakelockers", "wakeall"}
    \/ \E t \in IdThreads : doing[t].pc = "lock" /\ doing[t].ever

\* A locker can be forgotten in two ways only, and only until the id is destroyed: its
\* holder unlocks after bthread_id_about_to_destroy(), or bthread_id_lock_and_reset_range()
\* raises the range by one under a locker about to sleep.  A joiner is never forgotten: it
\* sleeps only while its id lives or the destroyer is about to wake it
\* (src/src-bthread/id.cpp:405-455, 462-486, 513-536, 567-640; src/src-bthread/id.h:81-95).
NoneForgotten ==
  /\ slipped \/ LockersAwaited
  /\ \A t \in Asleep("joinasleep") :
       HasVersion(doing[t].v) \/ \E u \in IdThreads : doing[u].pc \in {"wakeall", "wakejoiners"}

\* A bthread_id has one locker, no version of an earlier use takes it, and who waits for it
\* is woken, but for lockers in the two cases of NoneForgotten: IdExclusive and
\* NoneForgotten (src/src-bthread/id.cpp).
IdsSafe == IdExclusive /\ NoneForgotten
=============================================================================
