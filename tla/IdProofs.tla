------------------------------ MODULE IdProofs ------------------------------
(***************************************************************************)
(* Proofs about BthreadId: one holder, no use of a version that is over,   *)
(* and nobody forgotten, for any set of threads, any ranges and any number *)
(* of incarnations that the versions last for.                             *)
(***************************************************************************)
EXTENDS BthreadId, Integers, TLAPS

-----------------------------------------------------------------------------
(* The inductive invariant *)

IdPCs == {"idle", "lock", "wait", "asleep", "holding", "wakeone", "wakelockers", "wakeall",
          "wakejoiners", "return", "join", "joinwait", "joinasleep"}
Threads == [pc : IdPCs, v : Nat, ever : BOOLEAN, expected : Nat]

IdTypes ==
    /\ idButex \in 0..IdModulus - 1 /\ joinButex \in 0..IdModulus - 1
    /\ firstVer \in 0..IdModulus - 1 /\ lockedVer \in 0..IdModulus - 1
    /\ pendingQ \in Seq(Nat) /\ Len(pendingQ) <= MaxPending
    /\ inUse \in BOOLEAN /\ touched \in BOOLEAN
    /\ creates \in 0..MaxCreates /\ known \subseteq [v : Nat \ {0}, n : 1..creates]
    /\ doing \in [IdThreads -> Threads]

\* Between Create and the end of the id some version is valid.
Live == firstVer # lockedVer

\* Where the versions of the current or the next incarnation start (IdModulus stands for
\* the 0 that it wraps to), and how far the incarnations that are over can have come.
Pos == IF Live THEN firstVer ELSE IF idButex = 0 THEN IdModulus ELSE idButex
Over == IF Live THEN creates - 1 ELSE creates
Spanned == Over * (IdMaxRange + 3)

\* The values of incarnations that are over: below the start and not far from it or,
\* after a restart at 1 (low), below it or far above.
PastOf(low, p, s) ==
    {x \in Nat : /\ x > 0
                 /\ IF low THEN x < p \/ x - p >= IdModulus - IdMaxRange - 3 - s
                           ELSE x < p /\ x + s >= p}
Past(low) == PastOf(low, Pos, Spanned)

\* The words of a living id, and whose the versions are that were handed out.
Ranges == (CreateRanges \cup LockRanges) \ {0}
LiveInv ==
    Live => /\ creates > 0 /\ firstVer > 0 /\ joinButex = firstVer
            /\ firstVer + IdMaxRange + 2 < IdModulus
            /\ lockedVer - firstVer \in Ranges
            /\ idButex \in {firstVer, lockedVer, lockedVer + 1, lockedVer + 2}
VersionInv(low) ==
    /\ LiveInv
    /\ low => Pos <= 1 + Spanned
    /\ \A id \in known : IF Live /\ id.n = creates THEN HasVersion(id.v) ELSE id.v \in Past(low)

\* A living id is out of the pool, and nobody has locked one that nobody has used.
UseInv == Live => inUse /\ (touched \/ idButex = firstVer)

\* A thread that is going to wait for the current holder, or for the end of the id.
WaitsNow(t) ==
    /\ Live /\ HasVersion(doing[t].v)
    /\ \E c \in Ranges : /\ doing[t].expected = firstVer + c + 1
                         /\ firstVer + c = lockedVer \/ lockedVer - firstVer \in LockRanges
    /\ doing[t].expected <= lockedVer + 1
JoinsNow(t) == Live /\ HasVersion(doing[t].v) /\ doing[t].expected = firstVer

\* What each thread knows of the id.
Using == {"lock", "wait", "asleep", "join", "joinwait", "joinasleep"}
Finishing == {"wakeall", "wakejoiners", "return"}
ThreadInv(low, t) ==
    /\ Holding(t) => Live /\ idButex # firstVer /\ HasVersion(doing[t].v)
    /\ doing[t].pc \in Finishing => inUse /\ ~Live
    /\ doing[t].pc \in {"wait", "asleep"} => doing[t].ever
    /\ doing[t].pc = "wait" => WaitsNow(t) \/ doing[t].expected \in Past(low)
    /\ doing[t].pc = "joinwait" =>
          JoinsNow(t) \/ (doing[t].expected \in Past(low) /\ doing[t].expected # joinButex)
    /\ doing[t].pc \in Using => \E id \in known : id.v = doing[t].v
    /\ doing[t].pc \in Using /\ Live /\ HasVersion(doing[t].v) => touched

\* A locked id has one holder, which runs the queued errors, and one thread takes the
\* slot of a dead id back to the pool.
HolderInv ==
    /\ Live /\ idButex # firstVer => \E t \in IdThreads : Holding(t)
    /\ \A t, u \in IdThreads : Holding(t) /\ Holding(u) => t = u
    /\ pendingQ # <<>> => \E t \in IdThreads : Holding(t)
    /\ \A i \in 1..Len(pendingQ) : HasVersion(pendingQ[i])
    /\ \A t, u \in IdThreads : doing[t].pc \in Finishing /\ doing[u].pc \in Finishing => t = u

\* Who sleeps sleeps on a living id, or is about to be woken by the thread that ended it.
SleepInv ==
    \A t \in IdThreads :
        /\ doing[t].pc = "asleep" =>
              \/ Live /\ HasVersion(doing[t].v)
              \/ \E u \in IdThreads : doing[u].pc = "wakeall"
        /\ doing[t].pc = "joinasleep" =>
              \/ Live /\ HasVersion(doing[t].v)
              \/ \E u \in IdThreads : doing[u].pc \in {"wakeall", "wakejoiners"}

IdInvAt(low) ==
    /\ IdTypes /\ VersionInv(low) /\ UseInv /\ (\A t \in IdThreads : ThreadInv(low, t))
    /\ HolderInv /\ SleepInv
IdInv == IdInvAt(TRUE) \/ IdInvAt(FALSE)

\* Whoever sleeps in bthread_id_lock() is going to be woken: by the holder, by a thread
\* on its way to wake, or by a woken locker, which will mark the lock.
Marked == Live /\ idButex \in {lockedVer + 1, lockedVer + 2}
WakeInv ==
    Asleep("asleep") # {} =>
       \/ Marked
       \/ \E t \in IdThreads : doing[t].pc \in {"wakeone", "wakelockers", "wakeall"}
       \/ \E t \in IdThreads : doing[t].pc = "lock" /\ doing[t].ever /\ HasVersion(doing[t].v)

-----------------------------------------------------------------------------
(* Versions *)

\* What the bound on the incarnations means for the numbers.
LEMMA Numbers ==
  /\ IdModulus \in Nat /\ IdMaxRange \in Nat \ {0} /\ MaxCreates \in Nat
  /\ IdMaxRange + 4 < IdModulus
  /\ \A n \in 0..MaxCreates : /\ n * (IdMaxRange + 3) \in Nat
                              /\ (n + 1) * (IdMaxRange + 3) = n * (IdMaxRange + 3) + IdMaxRange + 3
                              /\ n * (IdMaxRange + 3) + n + IdMaxRange + 4 < IdModulus
  <1>1. IdModulus \in Nat /\ IdMaxRange \in Nat \ {0} /\ MaxCreates \in Nat
    BY IdAssumption, Zenon
  <1>2. (MaxCreates + 1) * (IdMaxRange + 4) < IdModulus BY IdAssumption
  <1>3. ASSUME NEW n \in 0..MaxCreates
        PROVE  /\ n * (IdMaxRange + 3) \in Nat
               /\ (n + 1) * (IdMaxRange + 3) = n * (IdMaxRange + 3) + IdMaxRange + 3
               /\ n * (IdMaxRange + 3) + n + IdMaxRange + 4 < IdModulus
    <2>1. n * (IdMaxRange + 3) \in Nat BY <1>1
    <2>2. (n + 1) * (IdMaxRange + 3) = n * (IdMaxRange + 3) + IdMaxRange + 3 BY <1>1
    <2>3. n * (IdMaxRange + 3) + n + IdMaxRange + 4 = (n + 1) * (IdMaxRange + 4) BY <1>1
    <2>4. (n + 1) * (IdMaxRange + 4) <= (MaxCreates + 1) * (IdMaxRange + 4) BY <1>1
    <2>. QED BY <1>1, <1>2, <2>1, <2>2, <2>3, <2>4
  <1>4. IdMaxRange + 4 < IdModulus
    <2>1. 0 * (IdMaxRange + 3) = 0 BY <1>1
    <2>. QED BY <1>1, <1>3, <2>1
  <1>. QED BY <1>1, <1>3, <1>4, Zenon

\* Where a version wraps.
LEMMA WrapFacts ==
  /\ \A x \in 0..IdModulus - 1 : Wrap(x) = x
  /\ \A x \in 0..IdModulus - 1 : Wrap(x + IdModulus) = x
  BY Numbers DEF Wrap

\* The bound on the queue.
LEMMA PendingBound == MaxPending \in Nat
  BY IdAssumption

\* The ranges are ranges.
LEMMA RangeFacts == Ranges \subseteq 1..IdMaxRange /\ CreateRanges \subseteq Ranges
  BY IdAssumption DEF Ranges

\* The bounds alone.
LEMMA Bounds ==
  /\ IdModulus \in Nat /\ IdMaxRange \in Nat \ {0} /\ MaxCreates \in Nat
  /\ IdMaxRange + 4 < IdModulus
  BY Numbers, Zenon

\* The words are numbers.
LEMMA Words ==
  ASSUME IdTypes
  PROVE  /\ idButex \in Nat /\ joinButex \in Nat /\ firstVer \in Nat /\ lockedVer \in Nat
         /\ idButex < IdModulus /\ firstVer < IdModulus /\ lockedVer < IdModulus
         /\ creates \in Nat /\ creates <= MaxCreates
  <1>1. /\ idButex \in 0..IdModulus - 1 /\ joinButex \in 0..IdModulus - 1
        /\ firstVer \in 0..IdModulus - 1 /\ lockedVer \in 0..IdModulus - 1
        /\ creates \in 0..MaxCreates
    BY Zenon DEF IdTypes
  <1>. QED BY <1>1, Bounds

\* The numbers of the invariant.
LEMMA PosFacts ==
  ASSUME IdTypes, LiveInv
  PROVE  /\ Pos \in Nat \ {0} /\ Over \in 0..MaxCreates /\ Spanned \in Nat
         /\ Spanned + Over + IdMaxRange + 4 < IdModulus
         /\ Live => Pos = firstVer /\ Over = creates - 1
         /\ ~Live => Over = creates /\ Pos = IF idButex = 0 THEN IdModulus ELSE idButex
  <1>1. Over \in 0..MaxCreates BY Words, Bounds DEF Over, LiveInv
  <1>2. Spanned \in Nat /\ Spanned + Over + IdMaxRange + 4 < IdModulus
    BY <1>1, Numbers DEF Spanned
  <1>3. Pos \in Nat \ {0} BY Words, Bounds DEF Pos, LiveInv
  <1>4. /\ Live => Pos = firstVer /\ Over = creates - 1
        /\ ~Live => Over = creates /\ Pos = IF idButex = 0 THEN IdModulus ELSE idButex
    BY DEF Pos, Over
  <1>. QED BY <1>1, <1>2, <1>3, <1>4

\* The words of a living id do not wrap.
LEMMA LiveFacts ==
  ASSUME IdTypes, LiveInv, Live
  PROVE  /\ firstVer \in Nat \ {0} /\ lockedVer \in Nat /\ firstVer < lockedVer
         /\ lockedVer <= firstVer + IdMaxRange /\ lockedVer + 2 < IdModulus
         /\ ContendedVer = lockedVer + 1 /\ UnlockableVer = lockedVer + 2
         /\ EndVer = IF lockedVer + 3 = IdModulus THEN 0 ELSE lockedVer + 3
  <1>1. /\ firstVer \in Nat \ {0} /\ lockedVer \in Nat /\ firstVer < lockedVer
        /\ lockedVer <= firstVer + IdMaxRange /\ lockedVer + 2 < IdModulus
    BY Words, Bounds, RangeFacts DEF LiveInv
  <1>2. ContendedVer = lockedVer + 1 /\ UnlockableVer = lockedVer + 2
    <2>1. lockedVer + 1 \in 0..IdModulus - 1 /\ lockedVer + 2 \in 0..IdModulus - 1 BY <1>1, Bounds
    <2>. QED BY <2>1, WrapFacts DEF ContendedVer, UnlockableVer
  <1>3. EndVer = IF lockedVer + 3 = IdModulus THEN 0 ELSE lockedVer + 3
    <2>1. CASE lockedVer + 3 = IdModulus
      <3>1. 0 \in 0..IdModulus - 1 /\ 0 + IdModulus = lockedVer + 3 BY <2>1, Bounds
      <3>. QED BY <2>1, <3>1, WrapFacts DEF EndVer
    <2>2. CASE lockedVer + 3 # IdModulus
      <3>1. lockedVer + 3 \in 0..IdModulus - 1 BY <1>1, <2>2, Bounds
      <3>. QED BY <2>2, <3>1, WrapFacts DEF EndVer
    <2>. QED BY <2>1, <2>2
  <1>. QED BY <1>1, <1>2, <1>3

\* A value of an incarnation that is over is none of a living id's, nor where the next
\* one starts.
LEMMA PastApart ==
  ASSUME IdTypes, NEW low, VersionInv(low), NEW x \in Past(low)
  PROVE  /\ Live => x < firstVer \/ x > firstVer + IdMaxRange + 3
         /\ ~Live => x # idButex
  <1>1. x \in Nat \ {0} /\ (x < Pos \/ x - Pos >= IdModulus - IdMaxRange - 3 - Spanned)
    BY DEF Past, PastOf
  <1>2. LiveInv BY Zenon DEF VersionInv
  <1>3. CASE Live
    <2>1. Pos = firstVer /\ Over = creates - 1 BY <1>2, <1>3, PosFacts, Zenon
    <2>2. Spanned + IdMaxRange + 3 = creates * (IdMaxRange + 3)
          /\ creates * (IdMaxRange + 3) + creates + IdMaxRange + 4 < IdModulus
      <3>1. creates - 1 \in 0..MaxCreates /\ creates \in 0..MaxCreates /\ (creates - 1) + 1 = creates
        BY <1>2, <1>3, Words, Bounds DEF LiveInv
      <3>. QED BY <2>1, <3>1, Numbers DEF Spanned
    <2>3. Spanned \in Nat /\ firstVer \in Nat BY <1>2, PosFacts, Words
    <2>4. creates * (IdMaxRange + 3) \in Nat /\ creates \in Nat /\ creates > 0
      BY <1>2, <1>3, Words, Numbers DEF LiveInv
    <2>. QED BY <1>1, <1>3, <2>1, <2>2, <2>3, <2>4, Bounds
  <1>4. CASE ~Live
    <2>1. /\ Pos \in Nat \ {0} /\ Spanned \in Nat /\ Over \in Nat
          /\ Spanned + Over + IdMaxRange + 4 < IdModulus
          /\ Pos = IF idButex = 0 THEN IdModulus ELSE idButex
      BY <1>2, <1>4, PosFacts
    <2>. QED BY <1>1, <1>4, <2>1, Words, Bounds
  <1>. QED BY <1>3, <1>4, Zenon

-----------------------------------------------------------------------------
(* Steps that change at most the lock of the id *)

Steady ==
    /\ UNCHANGED <<creates, known, joinButex, firstVer>>
    /\ IF Live THEN /\ idButex' \in {firstVer, lockedVer', lockedVer' + 1, lockedVer' + 2}
                    /\ lockedVer' - firstVer \in Ranges /\ lockedVer' \in Nat
                    /\ lockedVer <= lockedVer'
                    /\ lockedVer' = lockedVer \/ lockedVer' - firstVer \in LockRanges
               ELSE UNCHANGED <<idButex, lockedVer>>
Touches == (touched => touched') /\ (lockedVer' = lockedVer \/ touched')

\* They keep the words in order and the versions where they are.
LEMMA SteadyWords ==
  ASSUME IdTypes, LiveInv, Steady
  PROVE  /\ Live <=> Live'
         /\ LiveInv'
         /\ idButex' \in 0..IdModulus - 1 /\ lockedVer' \in 0..IdModulus - 1
         /\ \A v \in Nat : HasVersion(v) => HasVersion(v)'
         /\ Live /\ lockedVer' = lockedVer => \A v \in Nat : HasVersion(v)' => HasVersion(v)
  <1>1. CASE Live
    <2>1. /\ firstVer \in Nat \ {0} /\ lockedVer \in Nat /\ firstVer < lockedVer
          /\ firstVer + IdMaxRange + 2 < IdModulus
      BY <1>1, LiveFacts DEF LiveInv
    <2>2. /\ firstVer' = firstVer /\ creates' = creates /\ joinButex' = joinButex
          /\ idButex' \in {firstVer, lockedVer', lockedVer' + 1, lockedVer' + 2}
          /\ lockedVer' - firstVer \in Ranges /\ lockedVer' \in Nat /\ lockedVer <= lockedVer'
      BY <1>1 DEF Steady
    <2>4. Live' BY <2>1, <2>2 DEF Live
    <2>5. LiveInv' BY <1>1, <2>2 DEF LiveInv
    <2>6. idButex' \in 0..IdModulus - 1 /\ lockedVer' \in 0..IdModulus - 1
      <3>1. PICK l \in Nat : l = lockedVer' BY <2>2
      <3>2. l - firstVer \in 1..IdMaxRange BY <2>2, <3>1, RangeFacts
      <3>3. idButex' \in {firstVer, l, l + 1, l + 2} BY <2>2, <3>1
      <3>4. {firstVer, l, l + 1, l + 2} \subseteq 0..IdModulus - 1 BY <2>1, <3>2, Bounds
      <3>. QED BY <3>1, <3>3, <3>4
    <2>7. \A v \in Nat : HasVersion(v) => HasVersion(v)' BY <2>1, <2>2 DEF HasVersion
    <2>8. lockedVer' = lockedVer => \A v \in Nat : HasVersion(v)' => HasVersion(v)
      BY <2>2 DEF HasVersion
    <2>. QED BY <1>1, <2>4, <2>5, <2>6, <2>7, <2>8, Zenon
  <1>2. CASE ~Live
    <2>1. UNCHANGED <<creates, joinButex, firstVer, idButex, lockedVer>> BY <1>2 DEF Steady
    <2>2. ~Live' BY <1>2, <2>1 DEF Live
    <2>3. LiveInv' BY <2>2, Zenon DEF LiveInv
    <2>4. idButex' \in 0..IdModulus - 1 /\ lockedVer' \in 0..IdModulus - 1
      BY <2>1 DEF IdTypes
    <2>5. \A v \in Nat : HasVersion(v) => HasVersion(v)' BY <2>1 DEF HasVersion
    <2>. QED BY <1>2, <2>2, <2>3, <2>4, <2>5, Zenon
  <1>. QED BY <1>1, <1>2, Zenon

\* What is over stays over, and the versions handed out stay whose they were.
LEMMA SteadyVersions ==
  ASSUME IdTypes, NEW low, VersionInv(low), Steady
  PROVE  Past(low)' = Past(low) /\ VersionInv(low)'
  <1>1. LiveInv BY Zenon DEF VersionInv
  <1>2. LiveInv' /\ (Live <=> Live') /\ \A v \in Nat : HasVersion(v) => HasVersion(v)'
    BY <1>1, SteadyWords, Zenon
  <1>3. creates' = creates /\ known' = known /\ firstVer' = firstVer /\ (~Live => idButex' = idButex)
    BY DEF Steady
  <1>4. Pos' = Pos BY <1>2, <1>3 DEF Pos
  <1>5. Spanned' = Spanned BY <1>2, <1>3 DEF Spanned, Over
  <1>6. Past(low)' = Past(low) BY <1>4, <1>5 DEF Past, PastOf
  <1>7. low => Pos' <= 1 + Spanned' BY <1>4, <1>5 DEF VersionInv
  <1>8. ASSUME NEW id \in known'
        PROVE  IF Live' /\ id.n = creates' THEN HasVersion(id.v)' ELSE id.v \in Past(low)'
    <2>1. id \in known /\ id.v \in Nat BY <1>3 DEF IdTypes
    <2>2. IF Live /\ id.n = creates THEN HasVersion(id.v) ELSE id.v \in Past(low)
      BY <2>1, Zenon DEF VersionInv
    <2>3. CASE Live /\ id.n = creates
      <3>1. HasVersion(id.v) BY <2>2, <2>3, Zenon
      <3>2. HasVersion(id.v)' BY <2>1, <3>1, <1>2 DEF HasVersion
      <3>. QED BY <2>3, <3>2, <1>2, <1>3
    <2>4. CASE ~(Live /\ id.n = creates)
      BY <2>2, <2>4, <1>2, <1>3, <1>6
    <2>. QED BY <2>3, <2>4, Zenon
  <1>. QED BY <1>2, <1>6, <1>7, <1>8 DEF VersionInv

\* Who moves: one thread, and sleepers that it wakes.
WokenUp(u) ==
    /\ doing[u].pc \in {"asleep", "joinasleep"} /\ doing'[u].pc \in {"lock", "join"}
    /\ doing'[u].v = doing[u].v
Moved(t) ==
    /\ doing' \in [IdThreads -> Threads]
    /\ \A u \in IdThreads : u # t => doing'[u] = doing[u] \/ WokenUp(u)

\* A thread that does not move, or is woken, keeps what it knows.
LEMMA ThreadKept ==
  ASSUME IdTypes, NEW low, VersionInv(low), Steady, Touches,
         NEW u \in IdThreads, ThreadInv(low, u), doing'[u] = doing[u] \/ WokenUp(u),
         Holding(u) => idButex' # firstVer', inUse' = inUse \/ doing[u].pc \notin Finishing
  PROVE  ThreadInv(low, u)'
  <1>1. /\ Live <=> Live'
        /\ \A v \in Nat : HasVersion(v) => HasVersion(v)'
        /\ Live /\ lockedVer' = lockedVer => \A v \in Nat : HasVersion(v)' => HasVersion(v)
    BY SteadyWords, Zenon DEF VersionInv
  <1>2. Past(low)' = Past(low) BY SteadyVersions, Zenon
  <1>3. /\ known' = known /\ joinButex' = joinButex /\ firstVer' = firstVer
        /\ Live => /\ lockedVer \in Nat /\ lockedVer' \in Nat /\ lockedVer <= lockedVer'
                   /\ lockedVer' = lockedVer \/ lockedVer' - firstVer \in LockRanges
    BY Words DEF Steady
  <1>4. doing[u] \in Threads BY DEF IdTypes
  <1>5. doing[u].v \in Nat /\ doing[u].expected \in Nat BY <1>4 DEF Threads
  <1>6. doing[u].pc \in Using /\ Live' /\ HasVersion(doing[u].v)' /\ doing'[u].v = doing[u].v => touched'
    <2>1. doing[u].pc \in Using /\ Live /\ HasVersion(doing[u].v) => touched BY Zenon DEF ThreadInv
    <2>2. lockedVer' = lockedVer /\ Live' /\ HasVersion(doing[u].v)' /\ doing'[u].v = doing[u].v
             => HasVersion(doing[u].v)
      BY <1>3 DEF HasVersion
    <2>. QED BY <1>1, <2>1, <2>2, Zenon DEF Touches
  <1>7. CASE doing'[u] = doing[u]
    <2>1. (Holding(u) => Live /\ idButex # firstVer /\ HasVersion(doing[u].v))'
      <3>1. Holding(u)' => Holding(u) BY <1>7, Zenon DEF Holding
      <3>2. ASSUME Holding(u) PROVE Live' /\ HasVersion(doing[u].v)'
        <4>1. Live /\ HasVersion(doing[u].v) BY <3>2, Zenon DEF ThreadInv
        <4>2. HasVersion(doing[u].v)' BY <1>1, <1>5, <1>7, <4>1 DEF HasVersion
        <4>. QED BY <1>1, <4>1, <4>2 DEF HasVersion
      <3>. QED BY <3>1, <3>2 DEF HasVersion
    <2>2. WaitsNow(u) => WaitsNow(u)'
      BY <1>1, <1>3, <1>5, <1>7, RangeFacts DEF WaitsNow, HasVersion
    <2>3. JoinsNow(u) => JoinsNow(u)' BY <1>1, <1>3, <1>5, <1>7 DEF JoinsNow, HasVersion
    <2>. QED BY <1>1, <1>2, <1>3, <1>6, <1>7, <2>1, <2>2, <2>3 DEF ThreadInv, HasVersion
  <1>8. CASE WokenUp(u)
    <2>1. doing[u].pc \in Using /\ doing'[u].v = doing[u].v /\ doing'[u].pc \in {"lock", "join"}
      BY <1>8 DEF WokenUp, Using
    <2>2. ~Holding(u)' BY <2>1 DEF Holding
    <2>3. \E id \in known' : id.v = doing'[u].v BY <2>1, <1>3 DEF ThreadInv
    <2>4. doing'[u].pc \notin Finishing BY <2>1 DEF Finishing
    <2>. QED BY <1>6, <2>1, <2>2, <2>3, <2>4 DEF ThreadInv
  <1>. QED BY <1>7, <1>8, Zenon

\* The others neither become nor stop being holders, finishers, sleepers that were not.
LEMMA OthersStay ==
  ASSUME NEW t \in IdThreads, Moved(t), NEW u \in IdThreads, u # t
  PROVE  /\ Holding(u)' <=> Holding(u)
         /\ doing'[u].pc \in Finishing <=> doing[u].pc \in Finishing
         /\ doing'[u].pc \notin {"lock", "join"} => doing'[u] = doing[u]
         /\ doing[u].pc \notin {"asleep", "joinasleep"} => doing'[u] = doing[u]
  BY DEF Moved, WokenUp, Holding, Finishing

\* The lock changes nothing for holder and queue unless the mover does.
LEMMA HolderKept ==
  ASSUME IdTypes, LiveInv, Steady, HolderInv, NEW t \in IdThreads, Moved(t),
         Holding(t)' <=> Holding(t), doing'[t].pc \in Finishing => doing[t].pc \in Finishing,
         pendingQ' = pendingQ, idButex = firstVer => idButex' = firstVer'
  PROVE  HolderInv'
  <1>1. /\ Live <=> Live'
        /\ \A v \in Nat : HasVersion(v) => HasVersion(v)'
    BY SteadyWords, Zenon
  <1>2. \A u \in IdThreads : Holding(u)' <=> Holding(u) BY OthersStay, Zenon
  <1>3. \A u \in IdThreads : doing'[u].pc \in Finishing => doing[u].pc \in Finishing
    BY OthersStay, Zenon
  <1>4. \A i \in 1..Len(pendingQ') : HasVersion(pendingQ[i])'
    <2>. SUFFICES ASSUME NEW i \in 1..Len(pendingQ) PROVE HasVersion(pendingQ[i])'
      OBVIOUS
    <2>1. HasVersion(pendingQ[i]) BY Zenon DEF HolderInv
    <2>2. pendingQ[i] \in Nat BY DEF IdTypes
    <2>. QED BY <1>1, <2>1, <2>2 DEF HasVersion
  <1>. QED BY <1>1, <1>2, <1>3, <1>4, Zenon DEF HolderInv

\* Nor for those who sleep.
LEMMA SleepKept ==
  ASSUME IdTypes, LiveInv, Steady, SleepInv, NEW t \in IdThreads, Moved(t),
         doing[t].pc \notin {"wakeall", "wakejoiners"},
         doing'[t].pc \in {"asleep", "joinasleep"} => Live' /\ HasVersion(doing[t].v)'
  PROVE  SleepInv'
  <1>1. /\ Live <=> Live'
        /\ \A v \in Nat : HasVersion(v) => HasVersion(v)'
    BY SteadyWords, Zenon
  <1>2. ASSUME NEW u \in IdThreads, doing[u].pc \in {"wakeall", "wakejoiners"}
        PROVE  doing'[u] = doing[u]
    BY <1>2, OthersStay
  <1>3. ASSUME NEW u \in IdThreads, u # t, doing'[u].pc \in {"asleep", "joinasleep"}
        PROVE  /\ doing'[u] = doing[u]
               /\ Live /\ HasVersion(doing[u].v) => Live' /\ HasVersion(doing[u].v)'
    <2>1. doing'[u] = doing[u] BY <1>3, OthersStay
    <2>2. doing[u].v \in Nat BY DEF IdTypes, Threads
    <2>. QED BY <1>1, <2>1, <2>2 DEF HasVersion
  <1>. SUFFICES ASSUME NEW u \in IdThreads
                PROVE  /\ doing'[u].pc = "asleep" =>
                             \/ Live' /\ HasVersion(doing[u].v)'
                             \/ \E w \in IdThreads : doing'[w].pc = "wakeall"
                       /\ doing'[u].pc = "joinasleep" =>
                             \/ Live' /\ HasVersion(doing[u].v)'
                             \/ \E w \in IdThreads : doing'[w].pc \in {"wakeall", "wakejoiners"}
    BY Zenon DEF SleepInv
  <1>4. CASE u = t BY <1>4
  <1>5. CASE u # t
    <2>1. CASE doing'[u].pc = "asleep"
      <3>1. doing[u].pc = "asleep" BY <1>3, <1>5, <2>1
      <3>2. \/ Live /\ HasVersion(doing[u].v)
            \/ \E w \in IdThreads : doing[w].pc = "wakeall"
        BY <3>1, Zenon DEF SleepInv
      <3>. QED BY <1>2, <1>3, <1>5, <2>1, <3>2
    <2>2. CASE doing'[u].pc = "joinasleep"
      <3>1. doing[u].pc = "joinasleep" BY <1>3, <1>5, <2>2
      <3>2. \/ Live /\ HasVersion(doing[u].v)
            \/ \E w \in IdThreads : doing[w].pc \in {"wakeall", "wakejoiners"}
        BY <3>1, Zenon DEF SleepInv
      <3>. QED BY <1>2, <1>3, <1>5, <2>2, <3>2
    <2>. QED BY <2>1, <2>2, Zenon
  <1>. QED BY <1>4, <1>5, Zenon

-----------------------------------------------------------------------------
(* The end of an id, and the next one in its slot *)

\* What is over when an incarnation ends: what was over before, and its own values.
LEMMA PastGrows ==
  ASSUME NEW low, NEW p \in Nat \ {0}, NEW s \in Nat, NEW q \in Nat,
         p <= q, q <= p + IdMaxRange + 3
  PROVE  /\ PastOf(low, p, s) \subseteq PastOf(low, q, s + IdMaxRange + 3)
         /\ \A x \in Nat : p <= x /\ x < q => x \in PastOf(low, q, s + IdMaxRange + 3)
  BY Bounds DEF PastOf

\* A restart at 1 leaves what is over behind.
LEMMA PastRestarts ==
  ASSUME NEW low, NEW p \in Nat \ {0}, NEW s \in Nat, p + IdMaxRange + 2 >= IdModulus,
         s + IdMaxRange + 4 < IdModulus, ~low
  PROVE  PastOf(low, p, s) \subseteq PastOf(TRUE, 1, s) /\ 1 \notin PastOf(low, p, s)
  BY Bounds DEF PastOf

\* When id_create() starts again at 1.
LEMMA RestartFacts ==
  ASSUME NEW v \in 0..IdModulus - 1
  PROVE  Restarts(v) <=> v = 0 \/ v + IdMaxRange + 2 >= IdModulus
  <1>1. CASE v + IdMaxRange + 2 < IdModulus
    <2>1. v + IdMaxRange + 2 \in 0..IdModulus - 1 BY <1>1, Bounds
    <2>2. Wrap(v + IdMaxRange + 2) = v + IdMaxRange + 2 BY <2>1, WrapFacts
    <2>. QED BY <1>1, <2>2, Bounds DEF Restarts
  <1>2. CASE v + IdMaxRange + 2 >= IdModulus
    <2>1. PICK w \in 0..IdModulus - 1 : w + IdModulus = v + IdMaxRange + 2 BY <1>2, Bounds
    <2>2. Wrap(v + IdMaxRange + 2) = w BY <2>1, WrapFacts
    <2>. QED BY <1>2, <2>1, <2>2, Bounds DEF Restarts
  <1>. QED BY <1>1, <1>2, Bounds

IdEnds ==
    /\ Live /\ idButex' = EndVer /\ firstVer' = EndVer /\ lockedVer' = EndVer
    /\ UNCHANGED <<creates, known>>

\* Destroy and Cancel put the versions of the id behind the start of the next one.
LEMMA EndVersions ==
  ASSUME IdTypes, NEW low, VersionInv(low), IdEnds
  PROVE  /\ EndVer \in 0..IdModulus - 1 /\ ~Live'
         /\ Past(low) \subseteq Past(low)'
         /\ \A x \in Nat : firstVer <= x /\ x <= lockedVer + 2 => x \in Past(low)'
         /\ EndVer \notin Past(low) /\ EndVer # firstVer
         /\ VersionInv(low)'
  <1>1. LiveInv /\ Live BY Zenon DEF VersionInv, IdEnds
  <1>2. /\ firstVer \in Nat \ {0} /\ lockedVer \in Nat /\ firstVer < lockedVer
        /\ lockedVer <= firstVer + IdMaxRange /\ lockedVer + 2 < IdModulus
        /\ EndVer = IF lockedVer + 3 = IdModulus THEN 0 ELSE lockedVer + 3
    BY <1>1, LiveFacts, Zenon
  <1>3. EndVer \in 0..IdModulus - 1 /\ EndVer # firstVer BY <1>2, Bounds
  <1>4. ~Live' BY DEF Live, IdEnds
  <1>5. Pos' = lockedVer + 3
    <2>1. Pos' = IF EndVer = 0 THEN IdModulus ELSE EndVer BY <1>4 DEF Pos, IdEnds
    <2>. QED BY <2>1, <1>2, Bounds
  <1>6. Spanned' = Spanned + IdMaxRange + 3 /\ Spanned \in Nat
    <2>1. Over = creates - 1 /\ creates \in 0..MaxCreates /\ creates > 0
      BY <1>1, Words, Bounds DEF Over, LiveInv
    <2>2. Spanned = (creates - 1) * (IdMaxRange + 3) BY <2>1, Zenon DEF Spanned
    <2>3. Spanned' = creates * (IdMaxRange + 3)
      <3>1. Over' = creates BY <1>4 DEF Over, IdEnds
      <3>. QED BY <3>1 DEF Spanned
    <2>4. PICK n \in 0..MaxCreates : creates = n + 1 BY <2>1, Bounds
    <2>5. n * (IdMaxRange + 3) \in Nat
          /\ (n + 1) * (IdMaxRange + 3) = n * (IdMaxRange + 3) + IdMaxRange + 3
      BY Numbers
    <2>6. creates - 1 = n BY <2>4
    <2>. QED BY <2>2, <2>3, <2>4, <2>5, <2>6, Bounds
  <1>7. Pos = firstVer BY <1>1 DEF Pos
  <1>8. /\ PastOf(low, firstVer, Spanned) \subseteq PastOf(low, lockedVer + 3, Spanned + IdMaxRange + 3)
        /\ \A x \in Nat : firstVer <= x /\ x < lockedVer + 3 =>
              x \in PastOf(low, lockedVer + 3, Spanned + IdMaxRange + 3)
    <2>1. lockedVer + 3 \in Nat /\ firstVer <= lockedVer + 3
          /\ lockedVer + 3 <= firstVer + IdMaxRange + 3
      BY <1>2, Bounds
    <2>. QED BY <2>1, <1>2, <1>6, PastGrows
  <1>9. Past(low)' = PastOf(low, lockedVer + 3, Spanned + IdMaxRange + 3)
    <2>1. PICK p \in Nat, s \in Nat : p = lockedVer + 3 /\ s = Spanned + IdMaxRange + 3
      BY <1>2, <1>6, Bounds
    <2>2. Pos' = p /\ Spanned' = s BY <2>1, <1>5, <1>6
    <2>3. Past(low)' = PastOf(low, p, s) BY <2>2 DEF Past, PastOf
    <2>. QED BY <2>1, <2>3
  <1>10. Past(low) \subseteq Past(low)' BY <1>7, <1>8, <1>9 DEF Past
  <1>11. \A x \in Nat : firstVer <= x /\ x <= lockedVer + 2 => x \in Past(low)'
    <2>1. \A x \in Nat : x <= lockedVer + 2 => x < lockedVer + 3 BY <1>2
    <2>. QED BY <2>1, <1>8, <1>9
  <1>12. EndVer \notin Past(low)
    <2>1. \A x \in Past(low) : x < firstVer \/ x > firstVer + IdMaxRange + 3
      BY <1>1, PastApart, Zenon
    <2>2. 0 \notin Past(low) BY DEF Past, PastOf
    <2>. QED BY <2>1, <2>2, <1>2, Bounds
  <1>13. VersionInv(low)'
    <2>1. LiveInv' BY <1>4, Zenon DEF LiveInv
    <2>2. low => Pos' <= 1 + Spanned'
      <3>1. low => firstVer <= 1 + Spanned BY <1>7, Zenon DEF VersionInv
      <3>2. PICK p \in Nat, s \in Nat : p = lockedVer + 3 /\ s = Spanned + IdMaxRange + 3
        BY <1>2, <1>6, Bounds
      <3>3. Pos' = p /\ Spanned' = s BY <3>2, <1>5, <1>6
      <3>4. low => p <= 1 + s BY <3>1, <3>2, <1>2, <1>6, Bounds
      <3>. QED BY <3>3, <3>4
    <2>3. ASSUME NEW id \in known' PROVE id.v \in Past(low)'
      <3>1. id \in known /\ id.v \in Nat BY DEF IdEnds, IdTypes
      <3>2. IF Live /\ id.n = creates THEN HasVersion(id.v) ELSE id.v \in Past(low)
        BY <3>1, Zenon DEF VersionInv
      <3>3. HasVersion(id.v) => firstVer <= id.v /\ id.v <= lockedVer + 2
        BY <1>2, <3>1 DEF HasVersion
      <3>. QED BY <3>1, <3>2, <3>3, <1>10, <1>11
    <2>. QED BY <1>4, <2>1, <2>2, <2>3 DEF VersionInv
  <1>. QED BY <1>3, <1>4, <1>10, <1>11, <1>12, <1>13, Zenon

IdBegins(low, after) ==
    /\ Live' /\ idButex' = firstVer' /\ creates' \in 0..MaxCreates
    /\ idButex' \in 0..IdModulus - 1 /\ joinButex' \in 0..IdModulus - 1
    /\ firstVer' \in 0..IdModulus - 1 /\ lockedVer' \in 0..IdModulus - 1
    /\ known' \subseteq [v : Nat \ {0}, n : 1..creates'] /\ known \subseteq known'
    /\ Past(low) \subseteq Past(after)' /\ joinButex' \notin Past(low)
    /\ \A x \in Past(low) : ~HasVersion(x)'
    /\ VersionInv(after)'

\* Create starts an incarnation whose values are none of those that are over.
LEMMA FarFromStart ==
  ASSUME NEW p \in Nat, NEW s \in Nat,
         s + IdMaxRange + 4 < IdModulus, p + IdMaxRange + 2 >= IdModulus
  PROVE  ~(p <= 1 + s)
  BY Bounds

LEMMA CreateVersions ==
  ASSUME IdTypes, NEW low, VersionInv(low), ~Live,
         NEW t \in IdThreads, NEW range \in CreateRanges, Create(t, range)
  PROVE  IdBegins(low, low) \/ IdBegins(low, TRUE)
  <1>. DEFINE v == IF Restarts(idButex) THEN 1 ELSE idButex
  <1>1. /\ creates < MaxCreates /\ creates' = creates + 1
        /\ idButex' = v /\ joinButex' = v /\ firstVer' = v /\ lockedVer' = Wrap(v + range)
        /\ known' = known \cup {[v |-> Wrap(v + i), n |-> creates + 1] : i \in 0..range - 1}
    BY DEF Create
  <1>2. Restarts(idButex) <=> idButex = 0 \/ idButex + IdMaxRange + 2 >= IdModulus
    BY RestartFacts DEF IdTypes
  <1>3. v \in Nat \ {0} /\ v + IdMaxRange + 2 < IdModulus BY <1>2, Words, Bounds
  <1>4. range \in Ranges /\ range \in 1..IdMaxRange BY RangeFacts
  <1>. HIDE DEF v
  <1>5. \A i \in 0..range : Wrap(v + i) = v + i
    <2>1. \A i \in 0..range : v + i \in 0..IdModulus - 1 BY <1>3, <1>4, Bounds
    <2>. QED BY <2>1, WrapFacts
  <1>6. PICK l \in Nat : l = v + range /\ lockedVer' = l BY <1>1, <1>3, <1>4, <1>5
  <1>7. v < l /\ l - v = range /\ v \in 0..IdModulus - 1 /\ l \in 0..IdModulus - 1
    BY <1>3, <1>4, <1>6, Bounds
  <1>8. Live' BY <1>1, <1>6, <1>7 DEF Live
  <1>9. LiveInv'
    <2>1. creates' > 0 BY <1>1, Words
    <2>2. lockedVer' - firstVer' \in Ranges BY <1>1, <1>4, <1>6, <1>7
    <2>3. firstVer' > 0 /\ firstVer' + IdMaxRange + 2 < IdModulus BY <1>1, <1>3
    <2>4. joinButex' = firstVer' /\ idButex' = firstVer' BY <1>1
    <2>. QED BY <2>1, <2>2, <2>3, <2>4 DEF LiveInv
  <1>10. creates' \in 0..MaxCreates /\ creates' \in Nat BY <1>1, Words, Bounds
  <1>11. known' \subseteq [v : Nat \ {0}, n : 1..creates']
    <2>1. known \subseteq [v : Nat \ {0}, n : 1..creates] BY DEF IdTypes
    <2>2. 1..creates \subseteq 1..creates' /\ creates + 1 \in 1..creates' BY <1>1, Words
    <2>3. \A i \in 0..range - 1 : Wrap(v + i) \in Nat \ {0} BY <1>3, <1>4, <1>5, Bounds
    <2>. QED BY <1>1, <2>1, <2>2, <2>3
  <1>12. \A id \in known' : \/ id \in known /\ id.n # creates'
                            \/ id.n = creates' /\ HasVersion(id.v)'
    <2>. SUFFICES ASSUME NEW id \in known', id \notin known
                  PROVE  id.n = creates' /\ HasVersion(id.v)'
      <3>1. ASSUME NEW id \in known PROVE id.n # creates'
        <4>1. id.n \in 1..creates BY DEF IdTypes
        <4>. QED BY <4>1, <1>1, Words
      <3>. QED BY <3>1
    <2>1. PICK i \in 0..range - 1 : id = [v |-> Wrap(v + i), n |-> creates + 1] BY <1>1
    <2>2. id.v = v + i /\ id.n = creates' BY <2>1, <1>1, <1>4, <1>5, Bounds
    <2>3. v <= v + i /\ v + i < l BY <1>3, <1>4, <1>6, Bounds
    <2>. QED BY <2>2, <2>3, <1>1, <1>6 DEF HasVersion
  <1>13. Pos' = v BY <1>1, <1>8 DEF Pos
  <1>14. Spanned' = Spanned
    <2>1. Over' = creates /\ Over = creates BY <1>1, <1>8, Words DEF Over
    <2>. QED BY <2>1 DEF Spanned
  <1>15. LiveInv BY Zenon DEF VersionInv
  <1>16. PICK s \in Nat : /\ s = Spanned /\ s + IdMaxRange + 4 < IdModulus
                          /\ s + IdMaxRange + 3 + IdMaxRange + 4 < IdModulus
    <2>1. Over = creates /\ Spanned \in Nat BY <1>15, PosFacts, Zenon
    <2>2. creates \in 0..MaxCreates /\ creates + 1 \in 0..MaxCreates BY <1>1, Words, Bounds
    <2>3. /\ (creates + 1) * (IdMaxRange + 3) = creates * (IdMaxRange + 3) + IdMaxRange + 3
          /\ (creates + 1) * (IdMaxRange + 3) + (creates + 1) + IdMaxRange + 4 < IdModulus
      BY <2>2, Numbers
    <2>4. Spanned = creates * (IdMaxRange + 3) BY <2>1 DEF Spanned
    <2>5. Spanned + IdMaxRange + 3 + (creates + 1) + IdMaxRange + 4 < IdModulus
      BY <2>3, <2>4
    <2>. QED BY <2>1, <2>2, <2>5, Bounds
  <1>17. PICK p \in Nat \ {0} : p = Pos /\ p = IF idButex = 0 THEN IdModulus ELSE idButex
    BY <1>15, PosFacts, Zenon
  <1>18. ASSUME NEW after, PastOf(low, p, s) \subseteq PastOf(after, v, s), v \notin PastOf(low, p, s),
                after => v <= 1 + s
         PROVE  IdBegins(low, after)
    <2>1. Past(low) = PastOf(low, p, s) BY <1>16, <1>17 DEF Past
    <2>2. Past(after)' = PastOf(after, v, s) BY <1>13, <1>14, <1>16 DEF Past, PastOf
    <2>3. VersionInv(after)'
      <3>1. after => Pos' <= 1 + Spanned' BY <1>13, <1>14, <1>16, <1>18
      <3>2. \A id \in known : id.v \in Past(low) BY Zenon DEF VersionInv
      <3>3. \A id \in known' : IF Live' /\ id.n = creates' THEN HasVersion(id.v)'
                                                         ELSE id.v \in Past(after)'
        BY <1>8, <1>12, <1>18, <2>1, <2>2, <3>2
      <3>. QED BY <1>9, <3>1, <3>3 DEF VersionInv
    <2>4. ASSUME NEW x \in Past(low) PROVE ~HasVersion(x)'
      <3>1. x \in Nat /\ (x < v \/ x - v >= IdModulus - IdMaxRange - 3 - s)
        BY <1>18, <2>1 DEF PastOf
      <3>2. ~(v <= x /\ x < l) BY <1>3, <1>4, <1>6, <1>16, <3>1, Bounds
      <3>. QED BY <1>1, <1>3, <1>6, <3>1, <3>2 DEF HasVersion
    <2>. QED BY <1>1, <1>6, <1>7, <1>8, <1>10, <1>11, <1>18, <2>1, <2>2, <2>3, <2>4 DEF IdBegins
  <1>19. CASE ~Restarts(idButex)
    <2>1. v = p BY <1>2, <1>17, <1>19 DEF v
    <2>2. p \notin PastOf(low, p, s) BY <1>16, <1>17, Bounds DEF PastOf
    <2>3. low => v <= 1 + s BY <1>16, <1>17, <2>1 DEF VersionInv
    <2>. QED BY <1>18, <2>1, <2>2, <2>3
  <1>20. CASE Restarts(idButex)
    <2>1. v = 1 BY <1>20 DEF v
    <2>2. p + IdMaxRange + 2 >= IdModulus BY <1>2, <1>17, <1>20, Bounds
    <2>3. ~low
      <3>0. low => Pos <= 1 + Spanned BY Zenon DEF VersionInv
      <3>1. low => p <= 1 + s BY <1>16, <1>17, <3>0
      <3>2. s + IdMaxRange + 4 < IdModulus /\ p \in Nat BY <1>16, <1>17
      <3>3. ~(p <= 1 + s) BY <2>2, <3>2, FarFromStart, Zenon
      <3>. QED BY <3>1, <3>3, Zenon
    <2>4. PastOf(low, p, s) \subseteq PastOf(TRUE, 1, s) /\ 1 \notin PastOf(low, p, s)
      BY <1>16, <2>2, <2>3, PastRestarts
    <2>5. 1 <= 1 + s OBVIOUS
    <2>. QED BY <1>18, <2>1, <2>4, <2>5
  <1>. QED BY <1>19, <1>20, Zenon

-----------------------------------------------------------------------------
(* What a step has to show *)

\* A step that leaves the words alone is steady.
LEMMA Unmoved ==
  ASSUME IdTypes, LiveInv,
         UNCHANGED <<idButex, joinButex, firstVer, lockedVer, known, creates>>
  PROVE  Steady
  <1>1. Live => lockedVer \in Nat /\ lockedVer <= lockedVer BY Words
  <1>. QED BY <1>1 DEF Steady, LiveInv

Kept(low, t) == IdInvAt(low)' /\ Steady /\ Moved(t)

\* A steady step keeps the invariant if the mover, the holder and the sleepers do.
LEMMA SteadyStep ==
  ASSUME NEW low, IdInvAt(low), Steady, Touches, NEW t \in IdThreads, Moved(t),
         ThreadInv(low, t)', HolderInv', SleepInv',
         \A u \in IdThreads : u # t /\ Holding(u) => idButex' # firstVer',
         touched' \in BOOLEAN, touched' \/ idButex' = idButex,
         pendingQ' \in Seq(Nat), Len(pendingQ') <= MaxPending, inUse' \in BOOLEAN,
         inUse' = inUse \/ (~Live /\ \A u \in IdThreads : u # t => doing[u].pc \notin Finishing)
  PROVE  Kept(low, t)
  <1>1. IdTypes /\ VersionInv(low) /\ LiveInv /\ UseInv /\ \A u \in IdThreads : ThreadInv(low, u)
    BY Zenon DEF IdInvAt, VersionInv
  <1>2. VersionInv(low)' BY <1>1, SteadyVersions, Zenon
  <1>3. IdTypes'
    <2>1. idButex' \in 0..IdModulus - 1 /\ lockedVer' \in 0..IdModulus - 1
      BY <1>1, SteadyWords, Zenon
    <2>2. /\ joinButex' = joinButex /\ firstVer' = firstVer
          /\ creates' = creates /\ known' = known
      BY DEF Steady
    <2>3. doing' \in [IdThreads -> Threads] BY Zenon DEF Moved
    <2>. QED BY <1>1, <2>1, <2>2, <2>3, Zenon DEF IdTypes
  <1>4. UseInv'
    <2>1. (Live <=> Live') /\ firstVer' = firstVer
      BY <1>1, SteadyWords DEF Steady
    <2>2. touched => touched' BY Zenon DEF Touches
    <2>. QED BY <1>1, <2>1, <2>2, Zenon DEF UseInv
  <1>5. ASSUME NEW u \in IdThreads PROVE ThreadInv(low, u)'
    <2>1. CASE u = t BY <2>1, Zenon
    <2>2. CASE u # t
      <3>1. doing'[u] = doing[u] \/ WokenUp(u) BY <2>2, Zenon DEF Moved
      <3>2. (Holding(u) => idButex' # firstVer') /\ (inUse' = inUse \/ doing[u].pc \notin Finishing)
        BY <2>2, Zenon
      <3>. QED BY <1>1, <3>1, <3>2, ThreadKept, Zenon
    <2>. QED BY <2>1, <2>2, Zenon
  <1>6. IdInvAt(low)' BY <1>2, <1>3, <1>4, <1>5, Zenon DEF IdInvAt
  <1>. QED BY <1>6, Zenon DEF Kept

\* The knowledge of a mover by where it goes.
LEMMA PlainThread ==
  ASSUME NEW low, NEW t \in IdThreads, doing'[t].pc \in {"idle", "wakeone"}
  PROVE  ThreadInv(low, t)'
  BY DEF ThreadInv, Holding, Finishing, Using

LEMMA UsingThread ==
  ASSUME NEW low, NEW t \in IdThreads, doing'[t].pc \in {"lock", "join", "asleep", "joinasleep"},
         doing'[t].pc = "asleep" => doing'[t].ever,
         \E id \in known' : id.v = doing'[t].v, Live' /\ HasVersion(doing[t].v)' => touched'
  PROVE  ThreadInv(low, t)'
  BY DEF ThreadInv, Holding, Finishing, Using

LEMMA HoldingThread ==
  ASSUME NEW low, NEW t \in IdThreads, doing'[t].pc \in {"holding", "wakelockers"},
         Live', idButex' # firstVer', HasVersion(doing[t].v)'
  PROVE  ThreadInv(low, t)'
  BY DEF ThreadInv, Holding, Finishing, Using

\* A step of a thread that neither locks nor holds.
LEMMA QuietStep ==
  ASSUME NEW low, IdInvAt(low), NEW t \in IdThreads, Moved(t),
         UNCHANGED <<idButex, joinButex, firstVer, lockedVer, pendingQ, inUse, known, creates>>,
         touched => touched', touched' \in BOOLEAN,
         doing[t].pc \notin {"wakeall", "wakejoiners"},
         Holding(t)' <=> Holding(t), doing'[t].pc \in Finishing => doing[t].pc \in Finishing,
         doing'[t].pc \in {"asleep", "joinasleep"} => Live' /\ HasVersion(doing[t].v)',
         ThreadInv(low, t)'
  PROVE  Kept(low, t)
  <1>1. IdTypes /\ LiveInv /\ HolderInv /\ SleepInv /\ \A u \in IdThreads : ThreadInv(low, u)
    BY Zenon DEF IdInvAt, VersionInv
  <1>2. Steady BY <1>1, Unmoved, Zenon
  <1>3. Touches BY Zenon DEF Touches
  <1>4. HolderInv' BY <1>1, <1>2, HolderKept, Zenon
  <1>5. SleepInv' BY <1>1, <1>2, SleepKept, Zenon
  <1>6. pendingQ' \in Seq(Nat) /\ Len(pendingQ') <= MaxPending /\ inUse' \in BOOLEAN
    BY <1>1, Zenon DEF IdTypes
  <1>7. \A u \in IdThreads : u # t /\ Holding(u) => idButex' # firstVer' BY <1>1, Zenon DEF ThreadInv
  <1>. QED BY <1>2, <1>3, <1>4, <1>5, <1>6, <1>7, SteadyStep, Zenon

\* The step that takes a free lock.
LEMMA TakeStep ==
  ASSUME NEW low, IdInvAt(low), Steady, Touches, NEW t \in IdThreads, Moved(t),
         doing[t].pc \in {"idle", "lock"}, Live, idButex = firstVer, idButex' # firstVer',
         doing'[t].pc = "holding", HasVersion(doing[t].v)', touched', touched' \in BOOLEAN,
         pendingQ' = pendingQ, inUse' = inUse
  PROVE  Kept(low, t)
  <1>1. IdTypes /\ LiveInv /\ HolderInv /\ SleepInv /\ \A u \in IdThreads : ThreadInv(low, u)
    BY Zenon DEF IdInvAt, VersionInv
  <1>2. \A u \in IdThreads : ~Holding(u) BY <1>1, Zenon DEF ThreadInv
  <1>3. pendingQ = <<>> BY <1>1, <1>2, Zenon DEF HolderInv
  <1>4. \A u \in IdThreads : Holding(u)' => u = t BY <1>2, OthersStay, Zenon
  <1>5. Holding(t)' BY DEF Holding
  <1>6. \A u \in IdThreads : doing'[u].pc \in Finishing => doing[u].pc \in Finishing
    <2>1. doing'[t].pc \notin Finishing BY DEF Finishing
    <2>. QED BY <2>1, OthersStay, Zenon
  <1>7. HolderInv'
    <2>1. \A i \in 1..Len(pendingQ') : HasVersion(pendingQ[i])'
      <3>1. 1..Len(pendingQ') = {} BY <1>3
      <3>. QED BY <3>1
    <2>. QED BY <1>1, <1>4, <1>5, <1>6, <2>1, Zenon DEF HolderInv
  <1>8. SleepInv' BY <1>1, SleepKept
  <1>9. Live' BY <1>1, SteadyWords, Zenon
  <1>10. ThreadInv(low, t)' BY <1>9, HoldingThread, Zenon
  <1>11. pendingQ' \in Seq(Nat) /\ Len(pendingQ') <= MaxPending /\ inUse' \in BOOLEAN
    BY <1>1, Zenon DEF IdTypes
  <1>. QED BY <1>2, <1>7, <1>8, <1>10, <1>11, SteadyStep, Zenon

\* Where a thread goes.
LEMMA MovedTo ==
  ASSUME IdTypes, NEW t \in IdThreads, NEW d \in Threads, doing' = [doing EXCEPT ![t] = d]
  PROVE  Moved(t) /\ doing'[t] = d
  BY DEF Moved, IdTypes

\* A valid version is a version of a living id.
LEMMA ValidLives ==
  ASSUME IdTypes, NEW v \in Nat, HasVersion(v)
  PROVE  Live
  BY Words DEF HasVersion, Live

\* The parts of the invariant.
LEMMA InvParts ==
  ASSUME NEW low, IdInvAt(low)
  PROVE  /\ IdTypes /\ VersionInv(low) /\ LiveInv /\ UseInv /\ HolderInv /\ SleepInv
         /\ \A u \in IdThreads : ThreadInv(low, u)
  BY Zenon DEF IdInvAt, VersionInv

\* The records that threads are set to.
LEMMA DoingFacts ==
  ASSUME NEW pc \in IdPCs, NEW v \in Nat
  PROVE  Doing(pc, v) \in Threads /\ Doing(pc, v).pc = pc /\ Doing(pc, v).v = v
  BY DEF Doing, Threads

\* What changing some of the fields of a thread leaves of the others.
LEMMA FieldFacts ==
  ASSUME NEW d \in Threads, NEW pc \in IdPCs
  PROVE  \E e \in Threads : /\ e = [d EXCEPT !.pc = pc] /\ e.pc = pc /\ e.v = d.v
                            /\ e.ever = d.ever /\ e.expected = d.expected
  <1>. DEFINE e == [d EXCEPT !.pc = pc]
  <1>1. e \in Threads /\ e.pc = pc /\ e.v = d.v /\ e.ever = d.ever /\ e.expected = d.expected
    BY DEF Threads
  <1>. QED BY <1>1, Zenon

JoinWaiting(e, d, x) ==
    /\ e = [d EXCEPT !.pc = "joinwait", !.expected = x]
    /\ e.pc = "joinwait" /\ e.v = d.v /\ e.expected = x
LockWaiting(e, d, x) ==
    /\ e = [d EXCEPT !.pc = "wait", !.ever = TRUE, !.expected = x]
    /\ e.pc = "wait" /\ e.ever = TRUE /\ e.v = d.v /\ e.expected = x

LEMMA WaitFacts ==
  ASSUME NEW d \in Threads, NEW x \in Nat
  PROVE  /\ \E e \in Threads : JoinWaiting(e, d, x)
         /\ \E e \in Threads : LockWaiting(e, d, x)
  <1>. DEFINE e == [d EXCEPT !.pc = "joinwait", !.expected = x]
              f == [d EXCEPT !.pc = "wait", !.ever = TRUE, !.expected = x]
  <1>1. "joinwait" \in IdPCs /\ "wait" \in IdPCs BY DEF IdPCs
  <1>2. e \in Threads /\ e.pc = "joinwait" /\ e.v = d.v /\ e.expected = x BY <1>1 DEF Threads
  <1>3. f \in Threads /\ f.pc = "wait" /\ f.ever = TRUE /\ f.v = d.v /\ f.expected = x
    BY <1>1 DEF Threads
  <1>4. JoinWaiting(e, d, x) /\ LockWaiting(f, d, x) BY <1>2, <1>3 DEF JoinWaiting, LockWaiting
  <1>. HIDE DEF e, f
  <1>. QED BY <1>2, <1>3, <1>4, Zenon

LEMMA KnownFacts ==
  ASSUME IdTypes, NEW id \in known
  PROVE  id.v \in Nat \ {0}
  BY DEF IdTypes

\* A thread that starts something, stops, or goes on.
Started(t, pc, v) == Moved(t) /\ doing'[t].pc = pc /\ doing'[t].v = v
Gone(t, pc) ==
    /\ Moved(t) /\ doing'[t].pc = pc /\ doing'[t].v = doing[t].v
    /\ doing'[t].ever = doing[t].ever /\ doing'[t].expected = doing[t].expected

LEMMA StartsTo ==
  ASSUME IdTypes, NEW t \in IdThreads, NEW pc \in IdPCs, NEW v \in Nat, Do(t, Doing(pc, v))
  PROVE  Started(t, pc, v)
  <1>1. PICK d \in Threads : d = Doing(pc, v) /\ d.pc = pc /\ d.v = v BY DoingFacts
  <1>2. doing' = [doing EXCEPT ![t] = d] BY <1>1 DEF Do
  <1>3. Moved(t) /\ doing'[t] = d BY <1>2, MovedTo
  <1>. QED BY <1>1, <1>3 DEF Started

LEMMA StopsTo ==
  ASSUME IdTypes, NEW t \in IdThreads, IdIdle(t)
  PROVE  Started(t, "idle", 0)
  <1>1. Do(t, Doing("idle", 0)) BY Zenon DEF IdIdle
  <1>2. "idle" \in IdPCs /\ 0 \in Nat BY DEF IdPCs
  <1>. QED BY <1>1, <1>2, StartsTo, Zenon

LEMMA GoesTo ==
  ASSUME IdTypes, NEW t \in IdThreads, NEW pc \in IdPCs, Go(t, pc)
  PROVE  Gone(t, pc)
  <1>1. doing[t] \in Threads /\ doing \in [IdThreads -> Threads] BY DEF IdTypes
  <1>2. PICK d \in Threads : /\ d = [doing[t] EXCEPT !.pc = pc] /\ d.pc = pc /\ d.v = doing[t].v
                             /\ d.ever = doing[t].ever /\ d.expected = doing[t].expected
    BY <1>1, FieldFacts
  <1>3. doing' = [doing EXCEPT ![t] = d] BY <1>1, <1>2 DEF Go
  <1>4. Moved(t) /\ doing'[t] = d BY <1>3, MovedTo
  <1>. QED BY <1>2, <1>4 DEF Gone

\* A living id's lock changes its value.
LEMMA LockMoves ==
  ASSUME IdTypes, LiveInv, Live,
         UNCHANGED <<joinButex, firstVer, lockedVer, known, creates>>,
         idButex' \in {firstVer, lockedVer, lockedVer + 1, lockedVer + 2}
  PROVE  Steady
  <1>1. lockedVer \in Nat /\ lockedVer <= lockedVer BY Words
  <1>2. lockedVer - firstVer \in Ranges BY Zenon DEF LiveInv
  <1>. QED BY <1>1, <1>2 DEF Steady

-----------------------------------------------------------------------------
(* The actions *)

\* bthread_id_lock() and bthread_id_join() are called.
LEMMA StartStep ==
  ASSUME NEW low, IdInvAt(low), NEW t \in IdThreads, NEW id \in known,
         LockStart(t, id) \/ IdJoin(t, id)
  PROVE  Kept(low, t)
  <1>1. IdTypes BY InvParts, Zenon
  <1>2. PICK pc \in {"lock", "join"} : Do(t, Doing(pc, id.v)) BY DEF LockStart, IdJoin
  <1>3. /\ doing[t].pc = "idle" /\ touched' = TRUE
        /\ UNCHANGED <<idButex, joinButex, firstVer, lockedVer, pendingQ, inUse, known, creates>>
    BY DEF LockStart, IdJoin, metaVars
  <1>4. PICK v \in Nat : v = id.v BY <1>1, KnownFacts
  <1>5. Started(t, pc, v)
    <2>1. pc \in IdPCs BY DEF IdPCs
    <2>2. Do(t, Doing(pc, v)) BY <1>2, <1>4
    <2>. QED BY <1>1, <2>1, <2>2, StartsTo, Zenon
  <1>6. Moved(t) /\ doing'[t].pc = pc /\ doing'[t].v = id.v BY <1>4, <1>5 DEF Started
  <1>7. ThreadInv(low, t)'
    <2>1. doing'[t].pc \in {"lock", "join", "asleep", "joinasleep"} /\ doing'[t].pc # "asleep"
      BY <1>6
    <2>2. \E x \in known' : x.v = doing'[t].v BY <1>3, <1>6
    <2>. QED BY <1>3, <2>1, <2>2, UsingThread, Zenon
  <1>8. ~Holding(t) /\ ~Holding(t)' BY <1>3, <1>6 DEF Holding
  <1>9. doing'[t].pc \notin Finishing /\ doing'[t].pc \notin {"asleep", "joinasleep"}
        /\ doing[t].pc \notin {"wakeall", "wakejoiners"}
    BY <1>3, <1>6 DEF Finishing
  <1>10. touched' \in BOOLEAN /\ touched' BY <1>3
  <1>. QED BY <1>3, <1>6, <1>7, <1>8, <1>9, <1>10, QuietStep, Zenon

\* A thread that gives up goes away.
LEMMA StopStep ==
  ASSUME NEW low, IdInvAt(low), NEW t \in IdThreads, IdIdle(t), ~Holding(t),
         doing[t].pc \notin {"wakeall", "wakejoiners"},
         UNCHANGED <<idButex, joinButex, firstVer, lockedVer, pendingQ, inUse, touched, known, creates>>
  PROVE  Kept(low, t)
  <1>1. IdTypes BY InvParts, Zenon
  <1>2. Moved(t) /\ doing'[t].pc = "idle" BY <1>1, StopsTo, Zenon DEF Started
  <1>3. ThreadInv(low, t)' BY <1>2, PlainThread
  <1>4. ~Holding(t)' BY <1>2 DEF Holding
  <1>5. doing'[t].pc \notin Finishing /\ doing'[t].pc \notin {"asleep", "joinasleep"}
    BY <1>2 DEF Finishing
  <1>6. touched' \in BOOLEAN /\ (touched => touched') BY <1>1, Zenon DEF IdTypes
  <1>. QED BY <1>2, <1>3, <1>4, <1>5, <1>6, QuietStep, Zenon

\* bthread_id_join() looks at the id.
LEMMA JoinCheckStep ==
  ASSUME NEW low, IdInvAt(low), NEW t \in IdThreads, JoinCheck(t)
  PROVE  Kept(low, t)
  <1>1. IdTypes /\ LiveInv /\ ThreadInv(low, t) BY InvParts, Zenon
  <1>2. /\ doing[t].pc = "join"
        /\ UNCHANGED <<idButex, joinButex, firstVer, lockedVer, pendingQ, inUse, touched, known, creates>>
    BY DEF JoinCheck, metaVars
  <1>3. ~Holding(t) /\ doing[t].pc \notin {"wakeall", "wakejoiners"} BY <1>2 DEF Holding
  <1>4. CASE HasVersion(doing[t].v)
    <2>1. doing[t] \in Threads BY <1>1 DEF IdTypes
    <2>2. Live BY <1>1, <1>4, <2>1, ValidLives DEF Threads
    <2>3. PICK d \in Threads : /\ d = [doing[t] EXCEPT !.pc = "joinwait", !.expected = joinButex]
                               /\ d.pc = "joinwait" /\ d.v = doing[t].v /\ d.expected = joinButex
      <3>1. joinButex \in Nat BY <1>1, Words
      <3>2. PICK b \in Threads, x \in Nat : b = doing[t] /\ x = joinButex BY <2>1, <3>1, Zenon
      <3>3. PICK d \in Threads : JoinWaiting(d, b, x) BY WaitFacts, Zenon
      <3>. QED BY <3>2, <3>3 DEF JoinWaiting
    <2>4. doing' = [doing EXCEPT ![t] = d] BY <1>4, <2>3 DEF JoinCheck, Do
    <2>5. Moved(t) /\ doing'[t] = d BY <1>1, <2>4, MovedTo
    <2>6. ThreadInv(low, t)'
      <3>1. Live' BY <1>2, <2>2 DEF Live
      <3>2. HasVersion(doing[t].v)' BY <1>2, <1>4, <2>3, <2>5 DEF HasVersion
      <3>3. doing'[t].expected = firstVer' BY <1>1, <1>2, <2>2, <2>3, <2>5 DEF LiveInv
      <3>4. JoinsNow(t)' BY <3>1, <3>2, <3>3, Zenon DEF JoinsNow
      <3>5. doing[t].pc \in Using BY <1>2 DEF Using
      <3>6. touched' BY <1>1, <1>2, <1>4, <2>2, <3>5, Zenon DEF ThreadInv
      <3>7. \E id \in known' : id.v = doing'[t].v BY <1>1, <1>2, <2>3, <2>5, <3>5 DEF ThreadInv
      <3>8. doing'[t].pc = "joinwait" BY <2>3, <2>5
      <3>. QED BY <3>4, <3>6, <3>7, <3>8 DEF ThreadInv, Holding, Finishing
    <2>7. doing'[t].pc = "joinwait" BY <2>3, <2>5
    <2>8. ~Holding(t)' /\ doing'[t].pc \notin Finishing /\ doing'[t].pc \notin {"asleep", "joinasleep"}
      BY <2>7 DEF Holding, Finishing
    <2>9. touched' \in BOOLEAN /\ (touched => touched') BY <1>1, <1>2, Zenon DEF IdTypes
    <2>. QED BY <1>2, <1>3, <2>5, <2>6, <2>8, <2>9, QuietStep, Zenon
  <1>5. CASE ~HasVersion(doing[t].v)
    <2>1. IdIdle(t) BY <1>5, Zenon DEF JoinCheck
    <2>. QED BY <1>2, <1>3, <2>1, StopStep, Zenon
  <1>. QED BY <1>4, <1>5, Zenon

\* butex_wait(): who falls asleep, sleeps on a living id.
LEMMA WaitStep ==
  ASSUME NEW low, IdInvAt(low), NEW t \in IdThreads, Wait(t)
  PROVE  /\ Kept(low, t)
         /\ doing'[t].pc = "asleep" => WaitsNow(t) /\ doing[t].expected = idButex
  <1>1. IdTypes /\ LiveInv /\ VersionInv(low) /\ ThreadInv(low, t) BY InvParts, Zenon
  <1>2. /\ doing[t].pc \in {"wait", "joinwait"}
        /\ UNCHANGED <<idButex, joinButex, firstVer, lockedVer, pendingQ, inUse, touched, known, creates>>
    BY DEF Wait, metaVars
  <1>3. PICK pc \in {"asleep", "joinasleep", "lock", "join"} :
          /\ Go(t, pc)
          /\ pc = "asleep" => doing[t].pc = "wait" /\ doing[t].expected = idButex
          /\ pc = "joinasleep" => doing[t].pc = "joinwait" /\ doing[t].expected = joinButex
    <2>1. CASE doing[t].pc = "wait" /\ idButex = doing[t].expected BY <2>1 DEF Wait
    <2>2. CASE doing[t].pc = "wait" /\ idButex # doing[t].expected BY <2>2 DEF Wait
    <2>3. CASE doing[t].pc = "joinwait" /\ joinButex = doing[t].expected BY <2>3 DEF Wait
    <2>4. CASE doing[t].pc = "joinwait" /\ joinButex # doing[t].expected BY <2>4 DEF Wait
    <2>. QED BY <1>2, <2>1, <2>2, <2>3, <2>4
  <1>4. Gone(t, pc)
    <2>1. pc \in IdPCs BY DEF IdPCs
    <2>. QED BY <1>1, <1>3, <2>1, GoesTo, Zenon
  <1>5. /\ Moved(t) /\ doing'[t].pc = pc /\ doing'[t].v = doing[t].v
        /\ doing'[t].ever = doing[t].ever
    BY <1>4, Zenon DEF Gone
  <1>6. pc = "asleep" => WaitsNow(t)
    <2>. SUFFICES ASSUME pc = "asleep", doing[t].expected \in Past(low) PROVE FALSE
      BY <1>1, <1>3, Zenon DEF ThreadInv
    <2>1. idButex \in Past(low) BY <1>3
    <2>2. Live => idButex < firstVer \/ idButex > firstVer + IdMaxRange + 3
      BY <1>1, <2>1, PastApart, Zenon
    <2>3. ~Live => idButex # idButex BY <1>1, <2>1, PastApart, Zenon
    <2>4. CASE Live
      <3>1. /\ firstVer \in Nat \ {0} /\ lockedVer \in Nat /\ firstVer < lockedVer
            /\ lockedVer <= firstVer + IdMaxRange
        BY <1>1, <2>4, LiveFacts, Zenon
      <3>2. idButex \in {firstVer, lockedVer, lockedVer + 1, lockedVer + 2}
        BY <1>1, <2>4, Zenon DEF LiveInv
      <3>. QED BY <2>2, <2>4, <3>1, <3>2, Bounds
    <2>. QED BY <2>3, <2>4, Zenon
  <1>7. pc = "joinasleep" => JoinsNow(t) BY <1>1, <1>3, Zenon DEF ThreadInv
  <1>8. pc \in {"asleep", "joinasleep"} => Live' /\ HasVersion(doing[t].v)'
    <2>1. pc \in {"asleep", "joinasleep"} => Live /\ HasVersion(doing[t].v)
      BY <1>6, <1>7 DEF WaitsNow, JoinsNow
    <2>. QED BY <1>2, <1>5, <2>1 DEF Live, HasVersion
  <1>9. ThreadInv(low, t)'
    <2>1. doing[t].pc \in Using BY <1>2 DEF Using
    <2>2. \E id \in known' : id.v = doing'[t].v BY <1>1, <1>2, <1>5, <2>1 DEF ThreadInv
    <2>3. Live' /\ HasVersion(doing[t].v)' => touched'
      <3>1. Live' /\ HasVersion(doing[t].v)' => Live /\ HasVersion(doing[t].v)
        BY <1>2, <1>5 DEF Live, HasVersion
      <3>. QED BY <1>1, <1>2, <2>1, <3>1, Zenon DEF ThreadInv
    <2>4. doing'[t].pc = "asleep" => doing'[t].ever BY <1>1, <1>2, <1>3, <1>5 DEF ThreadInv
    <2>5. doing'[t].pc \in {"lock", "join", "asleep", "joinasleep"} BY <1>5
    <2>. QED BY <2>2, <2>3, <2>4, <2>5, UsingThread, Zenon
  <1>10. ~Holding(t) /\ ~Holding(t)' /\ doing'[t].pc \notin Finishing
         /\ doing[t].pc \notin {"wakeall", "wakejoiners"}
    BY <1>2, <1>5 DEF Holding, Finishing
  <1>11. touched' \in BOOLEAN /\ (touched => touched') BY <1>1, <1>2, Zenon DEF IdTypes
  <1>12. Kept(low, t) BY <1>2, <1>5, <1>8, <1>9, <1>10, <1>11, QuietStep, Zenon
  <1>. QED BY <1>3, <1>5, <1>6, <1>12

\* bthread_id_trylock() and bthread_id_error() on a free id take it.
LEMMA GrabStep ==
  ASSUME NEW low, IdInvAt(low), NEW t \in IdThreads, NEW id \in known,
         doing[t].pc = "idle", HasVersion(id.v), Unlocked, idButex' = lockedVer, touched' = TRUE,
         Do(t, Doing("holding", id.v)),
         UNCHANGED <<joinButex, firstVer, lockedVer, pendingQ, inUse, known, creates>>
  PROVE  Kept(low, t)
  <1>1. IdTypes /\ LiveInv BY InvParts, Zenon
  <1>2. PICK v \in Nat : v = id.v BY <1>1, KnownFacts
  <1>3. Live BY <1>1, <1>2, ValidLives
  <1>4. Steady
    <2>1. idButex' \in {firstVer, lockedVer, lockedVer + 1, lockedVer + 2} OBVIOUS
    <2>. QED BY <1>1, <1>3, <2>1, LockMoves, Zenon
  <1>5. Touches BY Zenon DEF Touches
  <1>6. Started(t, "holding", v)
    <2>1. "holding" \in IdPCs /\ Do(t, Doing("holding", v)) BY <1>2 DEF IdPCs
    <2>. QED BY <1>1, <2>1, StartsTo, Zenon
  <1>7. Moved(t) /\ doing'[t].pc = "holding" /\ doing'[t].v = id.v BY <1>2, <1>6 DEF Started
  <1>8. HasVersion(doing[t].v)' BY <1>7 DEF HasVersion
  <1>9. idButex = firstVer /\ idButex' # firstVer' BY <1>3 DEF Live, Unlocked
  <1>10. doing[t].pc \in {"idle", "lock"} /\ touched' /\ touched' \in BOOLEAN OBVIOUS
  <1>. QED BY <1>3, <1>4, <1>5, <1>7, <1>8, <1>9, <1>10, TakeStep, Zenon

LEMMA TryLockStep ==
  ASSUME NEW low, IdInvAt(low), NEW t \in IdThreads, NEW id \in known, TryLock(t, id)
  PROVE  Kept(low, t)
  <1>1. /\ doing[t].pc = "idle" /\ HasVersion(id.v) /\ Unlocked /\ idButex' = lockedVer
        /\ touched' = TRUE /\ Do(t, Doing("holding", id.v))
        /\ UNCHANGED <<joinButex, firstVer, lockedVer, pendingQ, inUse, known, creates>>
    BY DEF TryLock
  <1>. QED BY <1>1, GrabStep, Zenon

\* bthread_id_error() on a locked id queues the error for the holder.
LEMMA ErrorStep ==
  ASSUME NEW low, IdInvAt(low), NEW t \in IdThreads, NEW id \in known, Error(t, id)
  PROVE  Kept(low, t)
  <1>1. /\ doing[t].pc = "idle" /\ HasVersion(id.v) /\ touched' = TRUE
        /\ UNCHANGED <<joinButex, firstVer, lockedVer, inUse, known, creates>>
    BY DEF Error
  <1>2. CASE Unlocked
    <2>1. idButex' = lockedVer /\ Do(t, Doing("holding", id.v)) /\ pendingQ' = pendingQ
      BY <1>2 DEF Error
    <2>. QED BY <1>1, <1>2, <2>1, GrabStep, Zenon
  <1>3. CASE ~Unlocked
    <2>1. /\ Len(pendingQ) < MaxPending /\ pendingQ' = Append(pendingQ, id.v)
          /\ UNCHANGED <<idButex, doing>>
      BY <1>3 DEF Error
    <2>2. /\ IdTypes /\ VersionInv(low) /\ LiveInv /\ HolderInv /\ SleepInv
          /\ \A u \in IdThreads : ThreadInv(low, u)
      BY InvParts, Zenon
    <2>3. PICK v \in Nat : v = id.v BY <2>2, KnownFacts
    <2>4. Live BY <1>1, <2>2, <2>3, ValidLives
    <2>5. Steady BY <1>1, <2>1, <2>2, Unmoved, Zenon
    <2>6. Touches BY <1>1, Zenon DEF Touches
    <2>7. Moved(t) BY <2>1, <2>2, Zenon DEF Moved, IdTypes
    <2>8. pendingQ \in Seq(Nat) /\ Len(pendingQ) \in Nat BY <2>2 DEF IdTypes
    <2>9. pendingQ' \in Seq(Nat) /\ Len(pendingQ') = Len(pendingQ) + 1 BY <2>1, <2>3, <2>8
    <2>10. Len(pendingQ') <= MaxPending BY <2>1, <2>8, <2>9, Bounds, PendingBound
    <2>11. \A u \in IdThreads : Holding(u)' <=> Holding(u) BY <2>1, Zenon DEF Holding
    <2>12. HolderInv'
      <3>1. PICK h \in IdThreads : Holding(h) BY <1>3, <2>2, <2>4, Zenon DEF HolderInv, Unlocked
      <3>2. \A i \in 1..Len(pendingQ') : HasVersion(pendingQ[i])'
        <4>. SUFFICES ASSUME NEW i \in 1..Len(pendingQ') PROVE HasVersion(pendingQ[i])'
          OBVIOUS
        <4>1. CASE i \in 1..Len(pendingQ)
          <5>1. pendingQ'[i] = pendingQ[i] BY <2>1, <2>3, <2>8, <4>1
          <5>2. HasVersion(pendingQ[i]) BY <2>2, <4>1, Zenon DEF HolderInv
          <5>. QED BY <1>1, <5>1, <5>2 DEF HasVersion
        <4>2. CASE i \notin 1..Len(pendingQ)
          <5>1. i = Len(pendingQ) + 1 BY <2>8, <2>9, <4>2
          <5>2. pendingQ'[i] = id.v BY <2>1, <2>3, <2>8, <5>1
          <5>. QED BY <1>1, <5>2 DEF HasVersion
        <4>. QED BY <4>1, <4>2, Zenon
      <3>3. \E h2 \in IdThreads : Holding(h2)' BY <2>11, <3>1, Zenon
      <3>. QED BY <2>1, <2>2, <2>11, <3>2, <3>3, Zenon DEF HolderInv
    <2>13. SleepInv'
      <3>1. doing[t].pc \notin {"wakeall", "wakejoiners"} /\ doing'[t].pc \notin {"asleep", "joinasleep"}
        BY <1>1, <2>1
      <3>. QED BY <2>2, <2>5, <2>7, <3>1, SleepKept, Zenon
    <2>14. \A u \in IdThreads : Holding(u) => idButex' # firstVer'
      BY <1>1, <2>1, <2>2, Zenon DEF ThreadInv
    <2>15. ThreadInv(low, t)'
      <3>1. doing'[t] = doing[t] BY <2>1
      <3>. QED BY <1>1, <2>2, <2>5, <2>6, <2>14, <3>1, ThreadKept, Zenon
    <2>16. inUse' \in BOOLEAN /\ touched' \in BOOLEAN /\ touched' BY <1>1, <2>2, Zenon DEF IdTypes
    <2>. QED BY <1>1, <2>5, <2>6, <2>7, <2>9, <2>10, <2>12, <2>13, <2>14, <2>15, <2>16, SteadyStep, Zenon
  <1>. QED BY <1>2, <1>3, Zenon

\* A step of the holder that keeps, drops or passes on the lock.
LEMMA HolderStep ==
  ASSUME NEW low, IdInvAt(low), NEW t \in IdThreads, Moved(t), Holding(t),
         UNCHANGED <<joinButex, firstVer, lockedVer, inUse, touched, known, creates>>,
         idButex' \in {firstVer, lockedVer, lockedVer + 1, lockedVer + 2},
         Holding(t)' \/ (doing'[t].pc \in {"idle", "wakeone"} /\ pendingQ' = <<>> /\ idButex' = firstVer),
         Holding(t)' => idButex' # firstVer /\ HasVersion(doing[t].v)',
         pendingQ' \in Seq(Nat), Len(pendingQ') <= MaxPending,
         \A i \in 1..Len(pendingQ') : HasVersion(pendingQ[i])'
  PROVE  Kept(low, t)
  <1>1. /\ IdTypes /\ VersionInv(low) /\ LiveInv /\ UseInv /\ HolderInv /\ SleepInv
        /\ \A u \in IdThreads : ThreadInv(low, u)
    BY InvParts, Zenon
  <1>2. Live /\ idButex # firstVer BY <1>1, Zenon DEF ThreadInv
  <1>3. touched /\ touched' BY <1>1, <1>2, Zenon DEF UseInv
  <1>4. Steady BY <1>1, <1>2, LockMoves, Zenon
  <1>5. Touches BY <1>3, Zenon DEF Touches
  <1>6. Live' BY <1>2 DEF Live
  <1>7. \A u \in IdThreads : u # t => ~Holding(u) /\ ~Holding(u)'
    BY <1>1, OthersStay, Zenon DEF HolderInv
  <1>8. ThreadInv(low, t)'
    <2>1. CASE Holding(t)'
      <3>1. doing'[t].pc \in {"holding", "wakelockers"} BY <2>1, Zenon DEF Holding
      <3>2. idButex' # firstVer' /\ HasVersion(doing[t].v)' BY <2>1
      <3>. QED BY <1>6, <3>1, <3>2, HoldingThread, Zenon
    <2>2. CASE doing'[t].pc \in {"idle", "wakeone"} BY <2>2, PlainThread, Zenon
    <2>. QED BY <2>1, <2>2, Zenon
  <1>9. doing'[t].pc \notin Finishing /\ doing'[t].pc \notin {"asleep", "joinasleep"}
        /\ doing[t].pc \notin {"wakeall", "wakejoiners"}
    <2>1. doing[t].pc \in {"holding", "wakelockers"} BY Zenon DEF Holding
    <2>2. doing'[t].pc \in {"holding", "wakelockers", "idle", "wakeone"} BY Zenon DEF Holding
    <2>. QED BY <2>1, <2>2 DEF Finishing
  <1>10. HolderInv'
    <2>1. \A u \in IdThreads : doing'[u].pc \in Finishing => doing[u].pc \in Finishing
      BY <1>9, OthersStay, Zenon
    <2>2. \A u \in IdThreads : Holding(u)' => u = t BY <1>7, Zenon
    <2>3. Live' /\ idButex' # firstVer' => Holding(t)' BY Zenon
    <2>4. pendingQ' # <<>> => Holding(t)' BY Zenon
    <2>. QED BY <1>1, <2>1, <2>2, <2>3, <2>4, Zenon DEF HolderInv
  <1>11. SleepInv' BY <1>1, <1>4, <1>9, SleepKept, Zenon
  <1>12. inUse' \in BOOLEAN /\ touched' \in BOOLEAN BY <1>1, Zenon DEF IdTypes
  <1>. QED BY <1>3, <1>4, <1>5, <1>7, <1>8, <1>10, <1>11, <1>12, SteadyStep, Zenon

\* bthread_id_unlock().
LEMMA UnlockStep ==
  ASSUME NEW low, IdInvAt(low), NEW t \in IdThreads, Unlock(t)
  PROVE  Kept(low, t)
  <1>1. /\ IdTypes /\ LiveInv /\ HolderInv /\ ThreadInv(low, t) BY InvParts, Zenon
  <1>2. /\ doing[t].pc = "holding"
        /\ UNCHANGED <<joinButex, firstVer, lockedVer, inUse, touched, known, creates>>
    BY DEF Unlock
  <1>3. Holding(t) BY <1>2 DEF Holding
  <1>4. Live /\ idButex # firstVer /\ HasVersion(doing[t].v) BY <1>1, <1>3, Zenon DEF ThreadInv
  <1>5. pendingQ \in Seq(Nat) /\ Len(pendingQ) <= MaxPending BY <1>1, Zenon DEF IdTypes
  <1>6. CASE pendingQ # <<>>
    <2>1. /\ pendingQ' = Tail(pendingQ) /\ Do(t, Doing("holding", Head(pendingQ)))
          /\ idButex' = idButex
      BY <1>6 DEF Unlock, TakesError
    <2>2. PICK v \in Nat : v = Head(pendingQ) BY <1>5, <1>6
    <2>3. Started(t, "holding", v)
      <3>1. "holding" \in IdPCs /\ Do(t, Doing("holding", v)) BY <2>1, <2>2 DEF IdPCs
      <3>. QED BY <1>1, <3>1, StartsTo, Zenon
    <2>4. Moved(t) /\ doing'[t].pc = "holding" /\ doing'[t].v = v BY <2>3, Zenon DEF Started
    <2>5. Holding(t)' BY <2>4 DEF Holding
    <2>6. \A i \in 1..Len(pendingQ) : HasVersion(pendingQ[i]) BY <1>1, Zenon DEF HolderInv
    <2>7. 1 \in 1..Len(pendingQ) /\ pendingQ[1] = v BY <1>5, <1>6, <2>2
    <2>8. HasVersion(doing[t].v)' BY <1>2, <2>4, <2>6, <2>7 DEF HasVersion
    <2>9. /\ pendingQ' \in Seq(Nat) /\ Len(pendingQ') <= MaxPending
          /\ \A i \in 1..Len(pendingQ') : i + 1 \in 1..Len(pendingQ) /\ pendingQ'[i] = pendingQ[i + 1]
      BY <1>5, <1>6, <2>1, PendingBound
    <2>10. \A i \in 1..Len(pendingQ') : HasVersion(pendingQ[i])'
      BY <1>2, <2>6, <2>9 DEF HasVersion
    <2>11. idButex' \in {firstVer, lockedVer, lockedVer + 1, lockedVer + 2} /\ idButex' # firstVer
      BY <1>1, <1>4, <2>1 DEF LiveInv
    <2>. QED BY <1>2, <1>3, <2>4, <2>5, <2>8, <2>9, <2>10, <2>11, HolderStep, Zenon
  <1>7. CASE pendingQ = <<>>
    <2>1. /\ idButex' = firstVer /\ pendingQ' = <<>>
          /\ IF idButex = ContendedVer THEN Go(t, "wakeone") ELSE IdIdle(t)
      BY <1>7 DEF Unlock, TakesError
    <2>2. Moved(t) /\ doing'[t].pc \in {"idle", "wakeone"}
      <3>1. CASE Go(t, "wakeone")
        <4>1. "wakeone" \in IdPCs BY DEF IdPCs
        <4>2. Gone(t, "wakeone") BY <1>1, <3>1, <4>1, GoesTo, Zenon
        <4>. QED BY <4>2 DEF Gone
      <3>2. CASE IdIdle(t)
        <4>1. Started(t, "idle", 0) BY <1>1, <3>2, StopsTo, Zenon
        <4>. QED BY <4>1 DEF Started
      <3>. QED BY <2>1, <3>1, <3>2, Zenon
    <2>3. ~Holding(t)' BY <2>2 DEF Holding
    <2>4. /\ pendingQ' \in Seq(Nat) /\ Len(pendingQ') <= MaxPending
          /\ \A i \in 1..Len(pendingQ') : HasVersion(pendingQ[i])'
      <3>1. Len(pendingQ') = 0 /\ 1..Len(pendingQ') = {} BY <2>1
      <3>. QED BY <1>5, <1>7, <2>1, <3>1
    <2>5. idButex' \in {firstVer, lockedVer, lockedVer + 1, lockedVer + 2} BY <2>1
    <2>. QED BY <1>2, <1>3, <2>1, <2>2, <2>3, <2>4, <2>5, HolderStep, Zenon
  <1>. QED BY <1>6, <1>7, Zenon

\* bthread_id_about_to_destroy().
LEMMA AboutToDestroyStep ==
  ASSUME NEW low, IdInvAt(low), NEW t \in IdThreads, AboutToDestroy(t)
  PROVE  Kept(low, t) /\ Marked'
  <1>1. /\ IdTypes /\ LiveInv /\ HolderInv /\ ThreadInv(low, t) BY InvParts, Zenon
  <1>2. /\ doing[t].pc = "holding" /\ idButex' = UnlockableVer /\ pendingQ' = pendingQ
        /\ UNCHANGED <<joinButex, firstVer, lockedVer, inUse, touched, known, creates>>
    BY DEF AboutToDestroy
  <1>3. Holding(t) BY <1>2 DEF Holding
  <1>4. Live /\ HasVersion(doing[t].v) BY <1>1, <1>3, Zenon DEF ThreadInv
  <1>5. PICK pc \in {"wakelockers", "holding"} : Go(t, pc) BY DEF AboutToDestroy
  <1>6. Gone(t, pc)
    <2>1. pc \in IdPCs BY DEF IdPCs
    <2>. QED BY <1>1, <1>5, <2>1, GoesTo, Zenon
  <1>7. Moved(t) /\ doing'[t].pc = pc /\ doing'[t].v = doing[t].v BY <1>6, Zenon DEF Gone
  <1>8. Holding(t)' BY <1>7 DEF Holding
  <1>9. HasVersion(doing[t].v)' BY <1>2, <1>4, <1>7 DEF HasVersion
  <1>10. /\ firstVer \in Nat /\ lockedVer \in Nat /\ firstVer < lockedVer
         /\ UnlockableVer = lockedVer + 2
    BY <1>1, <1>4, LiveFacts
  <1>11. idButex' = lockedVer + 2 BY <1>2, <1>10
  <1>12. idButex' \in {firstVer, lockedVer, lockedVer + 1, lockedVer + 2} /\ idButex' # firstVer
    BY <1>10, <1>11
  <1>13. /\ pendingQ' \in Seq(Nat) /\ Len(pendingQ') <= MaxPending
         /\ \A i \in 1..Len(pendingQ') : HasVersion(pendingQ[i])'
    <2>1. pendingQ \in Seq(Nat) /\ Len(pendingQ) <= MaxPending BY <1>1, Zenon DEF IdTypes
    <2>2. \A i \in 1..Len(pendingQ) : HasVersion(pendingQ[i]) BY <1>1, Zenon DEF HolderInv
    <2>. QED BY <1>2, <2>1, <2>2 DEF HasVersion
  <1>14. Kept(low, t)
    BY <1>2, <1>3, <1>7, <1>8, <1>9, <1>12, <1>13, HolderStep, Zenon
  <1>15. Live' BY <1>2, <1>4 DEF Live
  <1>. QED BY <1>2, <1>11, <1>14, <1>15 DEF Marked

\* What lock_and_reset_range() makes of the range.
LEMMA NewRange ==
  ASSUME IdTypes, LiveInv, Live, NEW range \in LockRanges
  PROVE  /\ NewLockedVer(range) \in Nat /\ lockedVer <= NewLockedVer(range)
         /\ NewLockedVer(range) <= firstVer + IdMaxRange
         /\ NewLockedVer(range) - firstVer \in Ranges
         /\ NewLockedVer(range) = lockedVer \/ NewLockedVer(range) - firstVer \in LockRanges
         /\ Wrap(NewLockedVer(range) + 1) = NewLockedVer(range) + 1
  <1>1. /\ firstVer \in Nat \ {0} /\ lockedVer \in Nat /\ firstVer < lockedVer
        /\ lockedVer <= firstVer + IdMaxRange /\ lockedVer - firstVer \in Ranges
        /\ firstVer + IdMaxRange + 2 < IdModulus
    BY LiveFacts DEF LiveInv
  <1>2. range \in 0..IdMaxRange BY IdAssumption
  <1>3. Wrap(range + firstVer) = firstVer + range /\ Wrap(firstVer + range) = firstVer + range
    <2>1. firstVer + range \in 0..IdModulus - 1 /\ range + firstVer = firstVer + range
      BY <1>1, <1>2, Bounds
    <2>. QED BY <2>1, WrapFacts
  <1>4. PICK l \in Nat : l = NewLockedVer(range)
                         /\ l = IF range = 0 \/ firstVer + range <= lockedVer THEN lockedVer ELSE firstVer + range
    BY <1>1, <1>2, <1>3 DEF NewLockedVer
  <1>5. lockedVer <= l /\ l <= firstVer + IdMaxRange BY <1>1, <1>2, <1>4, Bounds
  <1>6. l = lockedVer \/ (l = firstVer + range /\ range # 0) BY <1>4
  <1>7. l - firstVer \in Ranges /\ (l = lockedVer \/ l - firstVer \in LockRanges)
    <2>1. CASE l = lockedVer BY <1>1, <2>1
    <2>2. CASE l = firstVer + range /\ range # 0
      <3>1. l - firstVer = range BY <1>1, <1>2, <2>2, Bounds
      <3>2. range \in Ranges BY <2>2 DEF Ranges
      <3>. QED BY <3>1, <3>2
    <2>. QED BY <1>6, <2>1, <2>2, Zenon
  <1>8. Wrap(l + 1) = l + 1
    <2>1. l + 1 \in 0..IdModulus - 1 BY <1>1, <1>5, Bounds
    <2>. QED BY <2>1, WrapFacts
  <1>. QED BY <1>4, <1>5, <1>7, <1>8

\* bthread_id_lock() under the mutex: who waited before leaves the lock marked.
LEMMA LockStep ==
  ASSUME NEW low, IdInvAt(low), NEW t \in IdThreads, NEW range \in LockRanges, Lock(t, range)
  PROVE  /\ Kept(low, t) /\ doing'[t].pc # "asleep"
         /\ Marked \/ (doing[t].ever /\ HasVersion(doing[t].v)) => Marked'
  <1>1. IdTypes /\ LiveInv /\ ThreadInv(low, t) BY InvParts, Zenon
  <1>2. /\ doing[t].pc = "lock"
        /\ UNCHANGED <<joinButex, firstVer, pendingQ, inUse, touched, known, creates>>
    BY DEF Lock
  <1>3. ~Holding(t) /\ doing[t].pc \notin {"wakeall", "wakejoiners"} /\ doing[t].pc \in Using
    BY <1>2 DEF Holding, Using
  <1>4. doing[t] \in Threads /\ doing[t].v \in Nat BY <1>1 DEF IdTypes, Threads
  <1>5. ASSUME IdIdle(t), UNCHANGED <<idButex, lockedVer>>
        PROVE  Kept(low, t) /\ doing'[t].pc # "asleep" /\ (Marked => Marked')
    <2>1. Kept(low, t) BY <1>2, <1>3, <1>5, StopStep, Zenon
    <2>2. Started(t, "idle", 0) BY <1>1, <1>5, StopsTo, Zenon
    <2>3. doing'[t].pc # "asleep" BY <2>2 DEF Started
    <2>4. Marked => Marked' BY <1>2, <1>5 DEF Marked, Live
    <2>. QED BY <2>1, <2>3, <2>4, Zenon
  <1>6. CASE ~HasVersion(doing[t].v)
    <2>1. IdIdle(t) /\ UNCHANGED <<idButex, lockedVer>> BY <1>6 DEF Lock
    <2>. QED BY <1>5, <1>6, <2>1
  <1>7. CASE HasVersion(doing[t].v)
    <2>1. Live BY <1>1, <1>4, <1>7, ValidLives
    <2>2. touched BY <1>1, <1>3, <1>7, <2>1, Zenon DEF ThreadInv
    <2>3. touched' /\ touched' \in BOOLEAN /\ Touches BY <1>1, <1>2, <2>2, Zenon DEF IdTypes, Touches
    <2>4. /\ firstVer \in Nat \ {0} /\ lockedVer \in Nat /\ firstVer < lockedVer
          /\ ContendedVer = lockedVer + 1 /\ UnlockableVer = lockedVer + 2
      BY <1>1, <2>1, LiveFacts, Zenon
    <2>5. CASE Unlocked
      <3>1. /\ lockedVer' = NewLockedVer(range) /\ idButex' = TakenAs(doing[t].ever, lockedVer')
            /\ Do(t, Doing("holding", doing[t].v))
        BY <1>7, <2>5 DEF Lock
      <3>2. PICK l \in Nat :
              /\ lockedVer' = l /\ lockedVer <= l /\ l <= firstVer + IdMaxRange
              /\ l - firstVer \in Ranges /\ (l = lockedVer \/ l - firstVer \in LockRanges)
              /\ Wrap(l + 1) = l + 1
        BY <1>1, <2>1, <3>1, NewRange
      <3>3. idButex' = IF doing[t].ever THEN l + 1 ELSE l BY <3>1, <3>2 DEF TakenAs
      <3>4. Steady
        <4>1. idButex' \in {firstVer, l, l + 1, l + 2} BY <3>3
        <4>. QED BY <1>2, <2>1, <3>2, <4>1 DEF Steady
      <3>5. PICK v \in Nat : v = doing[t].v BY <1>4
      <3>6. Started(t, "holding", v)
        <4>1. "holding" \in IdPCs /\ Do(t, Doing("holding", v)) BY <3>1, <3>5 DEF IdPCs
        <4>. QED BY <1>1, <4>1, StartsTo, Zenon
      <3>7. Moved(t) /\ doing'[t].pc = "holding" /\ doing'[t].v = v BY <3>6, Zenon DEF Started
      <3>8. HasVersion(doing[t].v)'
        <4>1. v >= firstVer /\ v < lockedVer BY <1>7, <3>5 DEF HasVersion
        <4>2. v < l BY <2>4, <3>2, <4>1
        <4>. QED BY <1>2, <3>2, <3>7, <4>1, <4>2 DEF HasVersion
      <3>9. idButex = firstVer BY <2>5 DEF Unlocked
      <3>10. idButex' # firstVer'
        <4>1. l # firstVer /\ l + 1 # firstVer BY <2>4, <3>2
        <4>. QED BY <1>2, <3>3, <4>1
      <3>11. Kept(low, t)
        <4>1. doing[t].pc \in {"idle", "lock"} BY <1>2
        <4>. QED BY <1>2, <2>1, <2>3, <3>4, <3>7, <3>8, <3>9, <3>10, <4>1, TakeStep, Zenon
      <3>12. ~Marked
        <4>1. firstVer \notin {lockedVer + 1, lockedVer + 2} BY <2>4
        <4>. QED BY <3>9, <4>1, Zenon DEF Marked
      <3>13. doing[t].ever => Marked'
        <4>1. Live' BY <1>1, <2>1, <3>4, SteadyWords, Zenon
        <4>. QED BY <3>2, <3>3, <4>1 DEF Marked
      <3>. QED BY <3>7, <3>11, <3>12, <3>13
    <2>6. CASE ~Unlocked /\ idButex # UnlockableVer
      <3>1. /\ idButex' = ContendedVer /\ lockedVer' = lockedVer
            /\ doing' = [doing EXCEPT ![t] =
                  [doing[t] EXCEPT !.pc = "wait", !.ever = TRUE, !.expected = ContendedVer]]
        BY <1>7, <2>6 DEF Lock, Do
      <3>2. PICK d \in Threads :
              /\ d = [doing[t] EXCEPT !.pc = "wait", !.ever = TRUE, !.expected = ContendedVer]
              /\ d.pc = "wait" /\ d.ever = TRUE /\ d.v = doing[t].v /\ d.expected = lockedVer + 1
        <4>1. ContendedVer \in Nat BY <2>4
        <4>2. PICK b \in Threads, x \in Nat : b = doing[t] /\ x = ContendedVer BY <1>4, <4>1, Zenon
        <4>3. PICK d \in Threads : LockWaiting(d, b, x) BY WaitFacts, Zenon
        <4>4. x = lockedVer + 1 BY <2>4, <4>2
        <4>. QED BY <4>2, <4>3, <4>4 DEF LockWaiting
      <3>3. Moved(t) /\ doing'[t] = d
        <4>1. doing' = [doing EXCEPT ![t] = d] BY <3>1, <3>2
        <4>. QED BY <1>1, <4>1, MovedTo
      <3>4. idButex' = lockedVer + 1 BY <2>4, <3>1
      <3>5. Steady
        <4>1. idButex' \in {firstVer, lockedVer, lockedVer + 1, lockedVer + 2} BY <3>4
        <4>. QED BY <1>1, <1>2, <2>1, <3>1, <4>1, LockMoves, Zenon
      <3>6. Live' /\ HasVersion(doing[t].v)'
        BY <1>2, <1>7, <2>1, <3>1, <3>2, <3>3 DEF Live, HasVersion
      <3>7. WaitsNow(t)'
        <4>1. PICK c \in Ranges : c = lockedVer - firstVer BY <1>1, <2>1 DEF LiveInv
        <4>2. lockedVer + 1 = firstVer + c + 1 /\ firstVer + c = lockedVer BY <2>4, <4>1
        <4>3. doing'[t].expected = firstVer' + c + 1 BY <1>2, <3>2, <3>3, <4>2
        <4>4. firstVer' + c = lockedVer' BY <1>2, <3>1, <4>2
        <4>5. doing'[t].expected <= lockedVer' + 1
          <5>1. doing'[t].expected = lockedVer + 1 /\ lockedVer' = lockedVer BY <3>1, <3>2, <3>3
          <5>2. lockedVer + 1 <= lockedVer + 1 BY <2>4
          <5>. QED BY <5>1, <5>2
        <4>. QED BY <3>6, <4>1, <4>3, <4>4, <4>5 DEF WaitsNow
      <3>8. ThreadInv(low, t)'
        <4>1. doing'[t].pc = "wait" /\ doing'[t].ever BY <3>2, <3>3
        <4>2. \E id \in known' : id.v = doing'[t].v BY <1>1, <1>2, <1>3, <3>2, <3>3 DEF ThreadInv
        <4>. QED BY <2>3, <3>7, <4>1, <4>2 DEF ThreadInv, Holding, Finishing
      <3>9. ~Holding(t)' /\ doing'[t].pc \notin Finishing /\ doing'[t].pc \notin {"asleep", "joinasleep"}
        BY <3>2, <3>3 DEF Holding, Finishing
      <3>10. idButex # firstVer BY <2>6 DEF Unlocked
      <3>11. HolderInv /\ SleepInv BY InvParts, Zenon
      <3>12. HolderInv' BY <1>1, <1>2, <1>3, <3>3, <3>5, <3>9, <3>10, <3>11, HolderKept, Zenon
      <3>13. SleepInv' BY <1>1, <1>3, <3>3, <3>5, <3>9, <3>11, SleepKept, Zenon
      <3>14. idButex' # firstVer' BY <1>2, <2>4, <3>4
      <3>15. /\ pendingQ' \in Seq(Nat) /\ Len(pendingQ') <= MaxPending /\ inUse' \in BOOLEAN
        BY <1>1, <1>2, Zenon DEF IdTypes
      <3>16. Kept(low, t)
        BY <1>2, <2>3, <3>3, <3>5, <3>8, <3>12, <3>13, <3>14, <3>15, SteadyStep, Zenon
      <3>17. Marked' BY <3>1, <3>4, <3>6 DEF Marked
      <3>. QED BY <3>9, <3>16, <3>17
    <2>7. CASE ~Unlocked /\ idButex = UnlockableVer
      <3>1. IdIdle(t) /\ UNCHANGED <<idButex, lockedVer>> BY <1>7, <2>7 DEF Lock
      <3>2. Marked BY <2>1, <2>4, <2>7 DEF Marked
      <3>. QED BY <1>5, <3>1, <3>2
    <2>. QED BY <2>5, <2>6, <2>7, Zenon
  <1>. QED BY <1>6, <1>7, Zenon

-----------------------------------------------------------------------------
(* The wakes *)

\* Who is woken, and where the waker goes.
Woke(S, pc, t, next) ==
    /\ Moved(t) /\ doing'[t].pc = next
    /\ next # "idle" => doing'[t].v = doing[t].v
    /\ \A u \in S : u # t => doing'[u].pc = pc /\ doing'[u].v = doing[u].v
                             /\ doing'[u].ever = doing[u].ever

LEMMA AwakeMoves ==
  ASSUME IdTypes, NEW t \in IdThreads, NEW S, NEW pc \in {"lock", "join"}, NEW next \in IdPCs,
         S \subseteq Asleep("asleep") \cup Asleep("joinasleep"), Awake(S, pc, t, next)
  PROVE  Woke(S, pc, t, next)
  <1>1. \A u \in IdThreads : doing[u] \in Threads BY DEF IdTypes
  <1>2. doing' = [u \in IdThreads |->
           IF u = t THEN (IF next = "idle" THEN Doing("idle", 0) ELSE [doing[t] EXCEPT !.pc = next])
           ELSE IF u \in S THEN [doing[u] EXCEPT !.pc = pc] ELSE doing[u]]
    BY DEF Awake
  <1>3. PICK d \in Threads :
          /\ d = IF next = "idle" THEN Doing("idle", 0) ELSE [doing[t] EXCEPT !.pc = next]
          /\ d.pc = next /\ (next # "idle" => d.v = doing[t].v)
    <2>1. CASE next = "idle"
      <3>1. "idle" \in IdPCs /\ 0 \in Nat BY DEF IdPCs
      <3>. QED BY <2>1, <3>1, DoingFacts
    <2>2. CASE next # "idle" BY <1>1, <2>2, FieldFacts
    <2>. QED BY <2>1, <2>2
  <1>4. doing'[t] = d BY <1>2, <1>3
  <1>5. ASSUME NEW u \in IdThreads, u # t, u \in S
        PROVE  /\ doing'[u] \in Threads /\ doing'[u].pc = pc /\ doing'[u].v = doing[u].v
               /\ doing'[u].ever = doing[u].ever /\ WokenUp(u)
    <2>1. doing'[u] = [doing[u] EXCEPT !.pc = pc] BY <1>2, <1>5
    <2>2. pc \in IdPCs BY DEF IdPCs
    <2>3. /\ doing'[u] \in Threads /\ doing'[u].pc = pc /\ doing'[u].v = doing[u].v
          /\ doing'[u].ever = doing[u].ever
      BY <1>1, <2>1, <2>2 DEF Threads
    <2>4. doing[u].pc \in {"asleep", "joinasleep"} BY <1>5 DEF Asleep
    <2>. QED BY <2>3, <2>4 DEF WokenUp
  <1>6. ASSUME NEW u \in IdThreads, u # t, u \notin S PROVE doing'[u] = doing[u]
    BY <1>2, <1>6
  <1>7. doing' \in [IdThreads -> Threads]
    <2>1. \A u \in IdThreads : doing'[u] \in Threads BY <1>1, <1>3, <1>4, <1>5, <1>6
    <2>2. DOMAIN doing' = IdThreads /\ doing' = [u \in IdThreads |-> doing'[u]] BY <1>2
    <2>. QED BY <2>1, <2>2
  <1>8. Moved(t) BY <1>5, <1>6, <1>7 DEF Moved
  <1>9. S \subseteq IdThreads BY DEF Asleep
  <1>. QED BY <1>3, <1>4, <1>5, <1>8, <1>9 DEF Woke

\* The unlocker wakes one.
LEMMA WakeOneStep ==
  ASSUME NEW low, IdInvAt(low), NEW t \in IdThreads, WakeOne(t)
  PROVE  /\ Kept(low, t)
         /\ \/ Asleep("asleep") = {} /\ doing'[t].pc = "idle"
            \/ \E u \in IdThreads : /\ u # t /\ doing[u].pc = "asleep" /\ doing'[u].pc = "lock"
                                    /\ doing'[u].v = doing[u].v /\ doing'[u].ever = doing[u].ever
  <1>1. IdTypes BY InvParts, Zenon
  <1>2. /\ doing[t].pc = "wakeone"
        /\ UNCHANGED <<idButex, joinButex, firstVer, lockedVer, pendingQ, inUse, touched, known, creates>>
    BY DEF WakeOne, metaVars
  <1>3. ~Holding(t) /\ doing[t].pc \notin {"wakeall", "wakejoiners"} BY <1>2 DEF Holding
  <1>4. CASE Asleep("asleep") = {}
    <2>1. IdIdle(t) BY <1>4, Zenon DEF WakeOne
    <2>2. Kept(low, t) BY <1>2, <1>3, <2>1, StopStep, Zenon
    <2>3. Started(t, "idle", 0) BY <1>1, <2>1, StopsTo, Zenon
    <2>. QED BY <1>4, <2>2, <2>3 DEF Started
  <1>5. CASE Asleep("asleep") # {}
    <2>1. PICK u \in Asleep("asleep") : Awake({u}, "lock", t, "idle") BY <1>5, Zenon DEF WakeOne
    <2>2. PICK S : S = {u} OBVIOUS
    <2>3. "idle" \in IdPCs /\ "lock" \in {"lock", "join"} /\ S \subseteq Asleep("asleep") \cup Asleep("joinasleep")
          /\ Awake(S, "lock", t, "idle")
      BY <2>1, <2>2 DEF IdPCs
    <2>4. /\ Moved(t) /\ doing'[t].pc = "idle"
          /\ \A w \in S : w # t => doing'[w].pc = "lock" /\ doing'[w].v = doing[w].v
                                   /\ doing'[w].ever = doing[w].ever
      <3>1. Woke(S, "lock", t, "idle") BY <1>1, <2>3, AwakeMoves, Zenon
      <3>. QED BY <3>1, Zenon DEF Woke
    <2>5. u \in IdThreads /\ u \in S /\ doing[u].pc = "asleep" /\ u # t BY <1>2, <2>1, <2>2 DEF Asleep
    <2>6. ThreadInv(low, t)' BY <2>4, PlainThread
    <2>7. ~Holding(t)' /\ doing'[t].pc \notin Finishing /\ doing'[t].pc \notin {"asleep", "joinasleep"}
      BY <2>4 DEF Holding, Finishing
    <2>8. touched' \in BOOLEAN /\ (touched => touched') BY <1>1, <1>2, Zenon DEF IdTypes
    <2>9. Kept(low, t) BY <1>2, <1>3, <2>4, <2>6, <2>7, <2>8, QuietStep, Zenon
    <2>. QED BY <2>4, <2>5, <2>9, Zenon
  <1>. QED BY <1>4, <1>5, Zenon

LEMMA FinishingThread ==
  ASSUME NEW low, NEW t \in IdThreads, doing'[t].pc \in Finishing, inUse', ~Live'
  PROVE  ThreadInv(low, t)'
  BY DEF ThreadInv, Holding, Finishing, Using

\* The step of a thread that ends an id, and leaves nobody asleep that it should wake.
LEMMA FinishStep ==
  ASSUME NEW low, IdInvAt(low), NEW t \in IdThreads, Moved(t),
         UNCHANGED <<idButex, joinButex, firstVer, lockedVer, pendingQ, inUse, touched, known, creates>>,
         doing[t].pc \in Finishing, doing'[t].pc \in Finishing, SleepInv'
  PROVE  Kept(low, t)
  <1>1. /\ IdTypes /\ LiveInv /\ HolderInv /\ \A u \in IdThreads : ThreadInv(low, u)
    BY InvParts, Zenon
  <1>2. inUse' /\ ~Live'
    <2>1. inUse /\ ~Live BY <1>1, Zenon DEF ThreadInv
    <2>. QED BY <2>1 DEF Live
  <1>3. Steady BY <1>1, Unmoved, Zenon
  <1>4. Touches BY Zenon DEF Touches
  <1>5. ThreadInv(low, t)' BY <1>2, FinishingThread, Zenon
  <1>6. ~Holding(t) /\ ~Holding(t)' BY DEF Holding, Finishing
  <1>7. HolderInv' BY <1>1, <1>3, <1>6, HolderKept, Zenon
  <1>8. /\ pendingQ' \in Seq(Nat) /\ Len(pendingQ') <= MaxPending
        /\ inUse' \in BOOLEAN /\ touched' \in BOOLEAN
    BY <1>1, Zenon DEF IdTypes
  <1>9. \A u \in IdThreads : u # t /\ Holding(u) => idButex' # firstVer' BY <1>1, Zenon DEF ThreadInv
  <1>. QED BY <1>3, <1>4, <1>5, <1>7, <1>8, <1>9, SteadyStep, Zenon

\* Destroy and AboutToDestroy wake all lockers.
LEMMA WakeLockersStep ==
  ASSUME NEW low, IdInvAt(low), NEW t \in IdThreads, WakeLockers(t)
  PROVE  Kept(low, t) /\ Asleep("asleep")' = {}
  <1>1. IdTypes /\ LiveInv /\ ThreadInv(low, t) BY InvParts, Zenon
  <1>2. /\ doing[t].pc \in {"wakelockers", "wakeall"}
        /\ UNCHANGED <<idButex, joinButex, firstVer, lockedVer, pendingQ, inUse, touched, known, creates>>
    BY DEF WakeLockers, metaVars
  <1>3. PICK S : S = Asleep("asleep") OBVIOUS
  <1>4. PICK next \in {"wakejoiners", "holding"} :
          /\ next = IF doing[t].pc = "wakeall" THEN "wakejoiners" ELSE "holding"
          /\ Awake(S, "lock", t, next)
    BY <1>3 DEF WakeLockers
  <1>5. next \in IdPCs /\ "lock" \in {"lock", "join"} /\ S \subseteq Asleep("asleep") \cup Asleep("joinasleep")
        /\ next # "idle"
    BY <1>3 DEF IdPCs
  <1>6. /\ Moved(t) /\ doing'[t].pc = next /\ doing'[t].v = doing[t].v
        /\ \A u \in S : u # t => doing'[u].pc = "lock"
    <2>1. Woke(S, "lock", t, next) BY <1>1, <1>4, <1>5, AwakeMoves, Zenon
    <2>. QED BY <1>5, <2>1, Zenon DEF Woke
  <1>7. \A u \in IdThreads : doing'[u].pc # "asleep"
    <2>. SUFFICES ASSUME NEW u \in IdThreads, doing'[u].pc = "asleep" PROVE FALSE
      OBVIOUS
    <2>1. u # t BY <1>6
    <2>2. doing'[u] = doing[u] BY <1>6, <2>1, OthersStay
    <2>3. u \in S BY <1>3, <2>2 DEF Asleep
    <2>. QED BY <1>6, <2>1, <2>3
  <1>8. Asleep("asleep")' = {} BY <1>7 DEF Asleep
  <1>9. CASE doing[t].pc = "wakelockers"
    <2>1. Holding(t) /\ Holding(t)' BY <1>4, <1>6, <1>9 DEF Holding
    <2>2. Live /\ idButex # firstVer /\ HasVersion(doing[t].v) BY <1>1, <2>1, Zenon DEF ThreadInv
    <2>3. Live' /\ idButex' # firstVer' /\ HasVersion(doing[t].v)'
      BY <1>2, <1>6, <2>2 DEF Live, HasVersion
    <2>4. doing'[t].pc \in {"holding", "wakelockers"} BY <1>4, <1>6, <1>9
    <2>5. ThreadInv(low, t)' BY <2>3, <2>4, HoldingThread, Zenon
    <2>6. doing'[t].pc \notin Finishing /\ doing'[t].pc \notin {"asleep", "joinasleep"}
          /\ doing[t].pc \notin {"wakeall", "wakejoiners"}
      BY <1>9, <2>4 DEF Finishing
    <2>7. touched' \in BOOLEAN /\ (touched => touched') BY <1>1, <1>2, Zenon DEF IdTypes
    <2>. QED BY <1>2, <1>6, <1>8, <2>1, <2>5, <2>6, <2>7, QuietStep, Zenon
  <1>10. CASE doing[t].pc = "wakeall"
    <2>1. doing[t].pc \in Finishing /\ doing'[t].pc \in Finishing /\ doing'[t].pc = "wakejoiners"
      BY <1>4, <1>6, <1>10 DEF Finishing
    <2>2. SleepInv'
      <3>1. \E u \in IdThreads : doing'[u].pc \in {"wakeall", "wakejoiners"} BY <2>1
      <3>. QED BY <1>7, <3>1, Zenon DEF SleepInv
    <2>. QED BY <1>2, <1>6, <1>8, <2>1, <2>2, FinishStep, Zenon
  <1>. QED BY <1>2, <1>9, <1>10

\* The destroyer wakes the joiners last.
LEMMA WakeJoinersStep ==
  ASSUME NEW low, IdInvAt(low), NEW t \in IdThreads, IdWakeJoiners(t)
  PROVE  Kept(low, t) /\ doing'[t].pc = "return"
  <1>1. IdTypes /\ LiveInv /\ SleepInv /\ HolderInv /\ ThreadInv(low, t) BY InvParts, Zenon
  <1>2. /\ doing[t].pc = "wakejoiners"
        /\ UNCHANGED <<idButex, joinButex, firstVer, lockedVer, pendingQ, inUse, touched, known, creates>>
    BY DEF IdWakeJoiners, metaVars
  <1>3. PICK S : S = Asleep("joinasleep") OBVIOUS
  <1>4. "return" \in IdPCs /\ "join" \in {"lock", "join"} /\ S \subseteq Asleep("asleep") \cup Asleep("joinasleep")
        /\ Awake(S, "join", t, "return")
    BY <1>3 DEF IdPCs, IdWakeJoiners
  <1>5. /\ Moved(t) /\ doing'[t].pc = "return"
        /\ \A u \in S : u # t => doing'[u].pc = "join"
    <2>1. Woke(S, "join", t, "return") BY <1>1, <1>4, AwakeMoves, Zenon
    <2>. QED BY <2>1, Zenon DEF Woke
  <1>6. doing[t].pc \in Finishing /\ doing'[t].pc \in Finishing BY <1>2, <1>5 DEF Finishing
  <1>7. ASSUME NEW u \in IdThreads, doing'[u].pc \in {"asleep", "joinasleep"} PROVE FALSE
    <2>1. u # t BY <1>5, <1>7
    <2>2. doing'[u] = doing[u] BY <1>5, <1>7, <2>1, OthersStay
    <2>3. CASE doing[u].pc = "joinasleep"
      <3>1. u \in S BY <1>3, <2>3 DEF Asleep
      <3>. QED BY <1>5, <1>7, <2>1, <3>1
    <2>4. CASE doing[u].pc = "asleep"
      <3>1. ~Live BY <1>1, <1>6, Zenon DEF ThreadInv
      <3>2. PICK w \in IdThreads : doing[w].pc = "wakeall" BY <1>1, <2>4, <3>1, Zenon DEF SleepInv
      <3>3. doing[w].pc \in Finishing BY <3>2 DEF Finishing
      <3>4. w = t BY <1>1, <1>6, <3>3, Zenon DEF HolderInv
      <3>. QED BY <1>2, <3>2, <3>4
    <2>. QED BY <1>7, <2>2, <2>3, <2>4
  <1>8. SleepInv' BY <1>7 DEF SleepInv
  <1>. QED BY <1>2, <1>5, <1>6, <1>8, FinishStep, Zenon

\* The slot goes back to the pool.
LEMMA ReturnSlotStep ==
  ASSUME NEW low, IdInvAt(low), NEW t \in IdThreads, ReturnSlot(t)
  PROVE  Kept(low, t) /\ doing'[t].pc = "idle"
  <1>1. /\ IdTypes /\ LiveInv /\ HolderInv /\ SleepInv /\ \A u \in IdThreads : ThreadInv(low, u)
    BY InvParts, Zenon
  <1>2. /\ doing[t].pc = "return" /\ inUse' = FALSE /\ IdIdle(t)
        /\ UNCHANGED <<idButex, joinButex, firstVer, lockedVer, pendingQ, touched, known, creates>>
    BY DEF ReturnSlot, metaVars
  <1>3. doing[t].pc \in Finishing /\ doing[t].pc \notin {"wakeall", "wakejoiners"} /\ ~Holding(t)
    BY <1>2 DEF Finishing, Holding
  <1>4. ~Live /\ \A u \in IdThreads : u # t => doing[u].pc \notin Finishing
    BY <1>1, <1>3, Zenon DEF ThreadInv, HolderInv
  <1>5. Steady BY <1>1, <1>2, Unmoved, Zenon
  <1>6. Touches BY <1>2, Zenon DEF Touches
  <1>7. Started(t, "idle", 0) BY <1>1, <1>2, StopsTo, Zenon
  <1>8. Moved(t) /\ doing'[t].pc = "idle" BY <1>7, Zenon DEF Started
  <1>9. ThreadInv(low, t)' BY <1>8, PlainThread
  <1>10. ~Holding(t)' /\ doing'[t].pc \notin Finishing /\ doing'[t].pc \notin {"asleep", "joinasleep"}
    BY <1>8 DEF Holding, Finishing
  <1>11. HolderInv' BY <1>1, <1>2, <1>3, <1>5, <1>8, <1>10, HolderKept, Zenon
  <1>12. SleepInv' BY <1>1, <1>3, <1>5, <1>8, <1>10, SleepKept, Zenon
  <1>13. /\ pendingQ' \in Seq(Nat) /\ Len(pendingQ') <= MaxPending
         /\ inUse' \in BOOLEAN /\ touched' \in BOOLEAN
    BY <1>1, <1>2, Zenon DEF IdTypes
  <1>14. \A u \in IdThreads : u # t /\ Holding(u) => idButex' # firstVer'
    BY <1>1, <1>2, Zenon DEF ThreadInv
  <1>. QED BY <1>2, <1>4, <1>5, <1>6, <1>8, <1>9, <1>11, <1>12, <1>13, <1>14, SteadyStep, Zenon

-----------------------------------------------------------------------------
(* The end of an id and its beginning *)

\* Whoever had to do with an id that ends has to do with one that is over.
LEMMA EndThread ==
  ASSUME IdTypes, NEW low, VersionInv(low), IdEnds, NEW u \in IdThreads, ThreadInv(low, u),
         doing'[u] = doing[u], ~Holding(u),
         doing[u].pc = "joinwait" /\ JoinsNow(u) => joinButex' = EndVer,
         joinButex' = EndVer \/ joinButex' = joinButex
  PROVE  ThreadInv(low, u)'
  <1>1. LiveInv /\ Live BY Zenon DEF VersionInv, IdEnds
  <1>2. /\ ~Live' /\ Past(low) \subseteq Past(low)'
        /\ \A x \in Nat : firstVer <= x /\ x <= lockedVer + 2 => x \in Past(low)'
        /\ EndVer \notin Past(low) /\ EndVer # firstVer
    BY EndVersions, Zenon
  <1>3. /\ firstVer \in Nat \ {0} /\ lockedVer \in Nat /\ firstVer < lockedVer
    BY <1>1, LiveFacts, Zenon
  <1>4. doing[u].v \in Nat /\ doing[u].expected \in Nat BY DEF IdTypes, Threads
  <1>5. ~Holding(u)' BY DEF Holding
  <1>6. doing'[u].pc \notin Finishing BY <1>1 DEF ThreadInv
  <1>7. doing[u].pc = "wait" => doing'[u].expected \in Past(low)'
    <2>1. WaitsNow(u) => doing[u].expected \in Past(low)'
      <3>. SUFFICES ASSUME WaitsNow(u) PROVE doing[u].expected \in Past(low)'
        OBVIOUS
      <3>1. PICK c \in Ranges : doing[u].expected = firstVer + c + 1 BY DEF WaitsNow
      <3>2. c \in Nat BY RangeFacts
      <3>3. doing[u].expected <= lockedVer + 1 BY DEF WaitsNow
      <3>4. firstVer <= doing[u].expected /\ doing[u].expected <= lockedVer + 2
        BY <1>3, <1>4, <3>1, <3>2, <3>3
      <3>. QED BY <1>2, <1>4, <3>4, Zenon
    <2>. QED BY <1>2, <2>1 DEF ThreadInv
  <1>8. doing[u].pc = "joinwait" => doing'[u].expected \in Past(low)' /\ doing'[u].expected # joinButex'
    <2>. SUFFICES ASSUME doing[u].pc = "joinwait"
                  PROVE  doing'[u].expected \in Past(low)' /\ doing'[u].expected # joinButex'
      OBVIOUS
    <2>1. CASE JoinsNow(u)
      <3>1. doing'[u].expected = firstVer /\ joinButex' = EndVer BY <2>1 DEF JoinsNow
      <3>2. firstVer <= lockedVer + 2 /\ firstVer <= firstVer /\ firstVer \in Nat BY <1>3
      <3>. QED BY <1>2, <3>1, <3>2, Zenon
    <2>2. CASE doing[u].expected \in Past(low) /\ doing[u].expected # joinButex
      BY <1>2, <2>2
    <2>. QED BY <2>1, <2>2, Zenon DEF ThreadInv
  <1>9. known' = known BY DEF IdEnds
  <1>. QED BY <1>2, <1>5, <1>6, <1>7, <1>8, <1>9 DEF ThreadInv

\* What is left to show of the end of an id.
LEMMA EndStep ==
  ASSUME NEW low, IdInvAt(low), IdEnds, NEW t \in IdThreads, Moved(t),
         doing'[t].pc \in {"wakeall", "return"}, UNCHANGED <<inUse, touched>>,
         joinButex' = EndVer \/ joinButex' = joinButex,
         \A u \in IdThreads : u # t => doing'[u] = doing[u] /\ ~Holding(u),
         \A u \in IdThreads : doing[u].pc = "joinwait" /\ JoinsNow(u) => joinButex' = EndVer,
         pendingQ' = <<>>, SleepInv'
  PROVE  IdInvAt(low)'
  <1>1. /\ IdTypes /\ VersionInv(low) /\ UseInv /\ HolderInv
        /\ \A u \in IdThreads : ThreadInv(low, u)
    BY InvParts, Zenon
  <1>2. Live BY Zenon DEF IdEnds
  <1>3. ~Live' /\ VersionInv(low)' /\ EndVer \in 0..IdModulus - 1 BY <1>1, EndVersions, Zenon
  <1>4. IdTypes'
    <2>1. /\ idButex' = EndVer /\ firstVer' = EndVer /\ lockedVer' = EndVer
          /\ creates' = creates /\ known' = known
      BY DEF IdEnds
    <2>2. pendingQ' \in Seq(Nat) /\ Len(pendingQ') <= MaxPending BY PendingBound
    <2>3. doing' \in [IdThreads -> Threads] BY Zenon DEF Moved
    <2>4. joinButex' \in 0..IdModulus - 1 BY <1>1, <1>3, Zenon DEF IdTypes
    <2>. QED BY <1>1, <1>3, <2>1, <2>2, <2>3, <2>4, Zenon DEF IdTypes
  <1>5. UseInv' BY <1>3, Zenon DEF UseInv
  <1>6. \A u \in IdThreads : doing[u].pc \notin Finishing BY <1>1, <1>2, Zenon DEF ThreadInv
  <1>7. doing'[t].pc \in Finishing /\ ~Holding(t)' BY DEF Finishing, Holding
  <1>8. ASSUME NEW u \in IdThreads PROVE ThreadInv(low, u)'
    <2>1. CASE u = t
      <3>1. inUse' BY <1>1, <1>2, Zenon DEF UseInv
      <3>. QED BY <1>3, <1>7, <2>1, <3>1, FinishingThread, Zenon
    <2>2. CASE u # t
      <3>1. doing'[u] = doing[u] /\ ~Holding(u) BY <2>2, Zenon
      <3>. QED BY <1>1, <3>1, EndThread, Zenon
    <2>. QED BY <2>1, <2>2, Zenon
  <1>9. HolderInv'
    <2>1. \A u \in IdThreads : ~Holding(u)'
      <3>1. \A u \in IdThreads : u # t => ~Holding(u)' BY OthersStay, Zenon
      <3>. QED BY <1>7, <3>1, Zenon
    <2>2. \A u \in IdThreads : doing'[u].pc \in Finishing => u = t BY <1>6, OthersStay, Zenon
    <2>3. \A i \in 1..Len(pendingQ') : HasVersion(pendingQ[i])'
      <3>1. 1..Len(pendingQ') = {} OBVIOUS
      <3>. QED BY <3>1
    <2>. QED BY <1>3, <2>1, <2>2, <2>3, Zenon DEF HolderInv
  <1>. QED BY <1>3, <1>4, <1>5, <1>8, <1>9, Zenon DEF IdInvAt

\* bthread_id_unlock_and_destroy().
LEMMA DestroyStep ==
  ASSUME NEW low, IdInvAt(low), NEW t \in IdThreads, Destroy(t)
  PROVE  IdInvAt(low)' /\ doing'[t].pc = "wakeall"
  <1>1. /\ IdTypes /\ HolderInv /\ \A u \in IdThreads : ThreadInv(low, u) BY InvParts, Zenon
  <1>2. /\ doing[t].pc = "holding" /\ idButex' = EndVer /\ joinButex' = EndVer
        /\ firstVer' = EndVer /\ lockedVer' = EndVer /\ pendingQ' = <<>> /\ Go(t, "wakeall")
        /\ UNCHANGED <<inUse, touched, known, creates>>
    BY DEF Destroy
  <1>3. Holding(t) BY <1>2 DEF Holding
  <1>4. IdEnds
    <2>1. Live BY <1>1, <1>3, Zenon DEF ThreadInv
    <2>. QED BY <1>2, <2>1 DEF IdEnds
  <1>5. Gone(t, "wakeall")
    <2>1. "wakeall" \in IdPCs BY DEF IdPCs
    <2>. QED BY <1>1, <1>2, <2>1, GoesTo, Zenon
  <1>6. Moved(t) /\ doing'[t].pc = "wakeall" BY <1>5, Zenon DEF Gone
  <1>7. \A u \in IdThreads : u # t => doing'[u] = doing[u] /\ ~Holding(u)
    <2>1. \A u \in IdThreads : u # t => doing'[u] = doing[u] BY <1>1, <1>2 DEF Go, IdTypes
    <2>. QED BY <1>1, <1>3, <2>1, Zenon DEF HolderInv
  <1>8. SleepInv'
    <2>1. \E u \in IdThreads : doing'[u].pc = "wakeall" BY <1>6
    <2>2. \E u \in IdThreads : doing'[u].pc \in {"wakeall", "wakejoiners"} BY <1>6
    <2>. QED BY <2>1, <2>2, Zenon DEF SleepInv
  <1>9. doing'[t].pc \in {"wakeall", "return"} BY <1>6
  <1>10. IdInvAt(low)' BY <1>2, <1>4, <1>6, <1>7, <1>8, <1>9, EndStep, Zenon
  <1>. QED BY <1>6, <1>10, Zenon

\* Nobody sleeps, waits for or holds an id that nobody has used.
LEMMA UnusedQuiet ==
  ASSUME NEW low, IdInvAt(low), Live, ~touched
  PROVE  /\ \A u \in IdThreads : ~Holding(u)
         /\ \A u \in IdThreads : doing[u].pc = "joinwait" => ~JoinsNow(u)
         /\ \A u \in IdThreads : doing[u].pc \notin {"asleep", "joinasleep"}
         /\ pendingQ = <<>>
  <1>1. /\ UseInv /\ HolderInv /\ SleepInv /\ \A u \in IdThreads : ThreadInv(low, u) BY InvParts, Zenon
  <1>2. \A u \in IdThreads : ~Holding(u) BY <1>1, Zenon DEF UseInv, ThreadInv
  <1>3. pendingQ = <<>> BY <1>1, <1>2, Zenon DEF HolderInv
  <1>4. \A u \in IdThreads : doing[u].pc \in Using => ~HasVersion(doing[u].v)
    BY <1>1, Zenon DEF ThreadInv
  <1>5. \A u \in IdThreads : doing[u].pc \in {"wait", "joinwait", "asleep", "joinasleep"} => doing[u].pc \in Using
    BY DEF Using
  <1>6. \A u \in IdThreads : doing[u].pc \notin {"wakeall", "wakejoiners"}
    <2>1. \A u \in IdThreads : doing[u].pc \notin Finishing BY <1>1, Zenon DEF ThreadInv
    <2>. QED BY <2>1 DEF Finishing
  <1>7. \A u \in IdThreads : doing[u].pc \notin {"asleep", "joinasleep"}
    <2>. SUFFICES ASSUME NEW u \in IdThreads, doing[u].pc \in {"asleep", "joinasleep"} PROVE FALSE
      OBVIOUS
    <2>1. ~HasVersion(doing[u].v) BY <1>4, <1>5
    <2>2. CASE doing[u].pc = "asleep"
      <3>1. PICK w \in IdThreads : doing[w].pc = "wakeall" BY <1>1, <2>1, <2>2, Zenon DEF SleepInv
      <3>. QED BY <1>6, <3>1
    <2>3. CASE doing[u].pc = "joinasleep" BY <1>1, <1>6, <2>1, <2>3, Zenon DEF SleepInv
    <2>. QED BY <2>2, <2>3
  <1>8. ASSUME NEW u \in IdThreads, doing[u].pc = "joinwait" PROVE ~JoinsNow(u)
    <2>1. doing[u].pc \in Using BY <1>8 DEF Using
    <2>. QED BY <1>4, <2>1, Zenon DEF JoinsNow
  <1>. QED BY <1>2, <1>3, <1>7, <1>8, Zenon

\* bthread_id_cancel() of an id that nobody has used.
LEMMA CancelStep ==
  ASSUME NEW low, IdInvAt(low), NEW t \in IdThreads, NEW id \in known, Cancel(t, id)
  PROVE  IdInvAt(low)' /\ \A u \in IdThreads : doing'[u].pc # "asleep"
  <1>1. IdTypes /\ \A u \in IdThreads : ThreadInv(low, u) BY InvParts, Zenon
  <1>2. /\ doing[t].pc = "idle" /\ HasVersion(id.v) /\ ~touched /\ idButex' = EndVer
        /\ firstVer' = EndVer /\ lockedVer' = EndVer /\ Go(t, "return")
        /\ UNCHANGED <<joinButex, pendingQ, inUse, touched, known, creates>>
    BY DEF Cancel
  <1>3. Live
    <2>1. PICK v \in Nat : v = id.v BY <1>1, KnownFacts
    <2>. QED BY <1>1, <1>2, <2>1, ValidLives
  <1>4. IdEnds BY <1>2, <1>3 DEF IdEnds
  <1>5. /\ \A u \in IdThreads : ~Holding(u)
        /\ \A u \in IdThreads : doing[u].pc \notin {"asleep", "joinasleep"}
        /\ pendingQ = <<>>
    BY <1>2, <1>3, UnusedQuiet, Zenon
  <1>6. Gone(t, "return")
    <2>1. "return" \in IdPCs BY DEF IdPCs
    <2>. QED BY <1>1, <1>2, <2>1, GoesTo, Zenon
  <1>7. Moved(t) /\ doing'[t].pc = "return" BY <1>6, Zenon DEF Gone
  <1>8. \A u \in IdThreads : u # t => doing'[u] = doing[u] BY <1>1, <1>2 DEF Go, IdTypes
  <1>9. \A u \in IdThreads : doing'[u].pc \notin {"asleep", "joinasleep"} BY <1>5, <1>7, <1>8
  <1>10. SleepInv' BY <1>9 DEF SleepInv
  <1>11. doing'[t].pc \in {"wakeall", "return"} BY <1>7
  <1>12. \A u \in IdThreads : doing[u].pc = "joinwait" => ~JoinsNow(u) BY <1>2, <1>3, UnusedQuiet, Zenon
  <1>13. pendingQ' = <<>> BY <1>2, <1>5, Zenon
  <1>14. IdInvAt(low)'
    BY <1>2, <1>4, <1>5, <1>7, <1>8, <1>10, <1>11, <1>12, <1>13, EndStep, Zenon
  <1>. QED BY <1>9, <1>14

\* id_create().
LEMMA CreateStep ==
  ASSUME NEW low, IdInvAt(low), NEW t \in IdThreads, NEW range \in CreateRanges, Create(t, range)
  PROVE  /\ IdInvAt(low)' \/ IdInvAt(TRUE)'
         /\ \A u \in IdThreads : doing'[u].pc # "asleep"
  <1>1. /\ IdTypes /\ VersionInv(low) /\ UseInv /\ HolderInv /\ SleepInv
        /\ \A u \in IdThreads : ThreadInv(low, u)
    BY InvParts, Zenon
  <1>2. /\ ~inUse /\ inUse' = TRUE /\ touched' = FALSE /\ UNCHANGED <<pendingQ, doing>>
    BY DEF Create
  <1>3. ~Live BY <1>1, <1>2, Zenon DEF UseInv
  <1>4. \A u \in IdThreads : ~Holding(u) /\ doing[u].pc \notin Finishing
    BY <1>1, <1>2, <1>3, Zenon DEF ThreadInv
  <1>5. pendingQ = <<>> BY <1>1, <1>4, Zenon DEF HolderInv
  <1>6. \A u \in IdThreads : doing[u].pc \notin {"asleep", "joinasleep"}
    <2>1. \A u \in IdThreads : doing[u].pc \notin {"wakeall", "wakejoiners"} BY <1>4 DEF Finishing
    <2>2. \A u \in IdThreads : doing[u].pc # "wakeall" BY <2>1
    <2>3. \A u \in IdThreads : doing[u].pc # "asleep" BY <1>1, <1>3, <2>2, Zenon DEF SleepInv
    <2>4. \A u \in IdThreads : doing[u].pc # "joinasleep" BY <1>1, <1>3, <2>1, Zenon DEF SleepInv
    <2>. QED BY <2>3, <2>4
  <1>7. ASSUME NEW after, IdBegins(low, after) PROVE IdInvAt(after)'
    <2>1. /\ Live' /\ idButex' = firstVer' /\ known \subseteq known' /\ Past(low) \subseteq Past(after)'
          /\ joinButex' \notin Past(low) /\ (\A x \in Past(low) : ~HasVersion(x)')
          /\ VersionInv(after)'
      BY <1>7, Zenon DEF IdBegins
    <2>2. IdTypes'
      <3>1. pendingQ' \in Seq(Nat) /\ Len(pendingQ') <= MaxPending /\ doing' \in [IdThreads -> Threads]
        BY <1>1, <1>2, Zenon DEF IdTypes
      <3>2. inUse' \in BOOLEAN /\ touched' \in BOOLEAN BY <1>2
      <3>. QED BY <1>7, <3>1, <3>2, Zenon DEF IdTypes, IdBegins
    <2>3. UseInv' BY <1>2, <2>1, Zenon DEF UseInv
    <2>4. HolderInv'
      <3>1. \A u \in IdThreads : ~Holding(u)' BY <1>2, <1>4, Zenon DEF Holding
      <3>2. \A u \in IdThreads : doing'[u].pc \notin Finishing BY <1>2, <1>4, Zenon
      <3>3. \A i \in 1..Len(pendingQ') : HasVersion(pendingQ[i])'
        <4>1. 1..Len(pendingQ') = {} BY <1>2, <1>5
        <4>. QED BY <4>1
      <3>. QED BY <1>2, <1>5, <2>1, <3>1, <3>2, <3>3, Zenon DEF HolderInv
    <2>5. SleepInv' BY <1>2, <1>6 DEF SleepInv
    <2>6. ASSUME NEW u \in IdThreads PROVE ThreadInv(after, u)'
      <3>1. doing'[u] = doing[u] /\ ThreadInv(low, u) BY <1>1, <1>2
      <3>2. ~Holding(u)' /\ doing'[u].pc \notin Finishing
            /\ doing'[u].pc \notin {"asleep", "joinasleep"}
        BY <1>4, <1>6, <3>1 DEF Holding
      <3>3. doing'[u].pc = "wait" => doing'[u].ever /\ doing'[u].expected \in Past(after)'
        <4>1. doing[u].pc = "wait" => doing[u].ever BY <3>1 DEF ThreadInv
        <4>2. doing[u].pc = "wait" => doing[u].expected \in Past(low)
          BY <1>3, <3>1, Zenon DEF ThreadInv, WaitsNow
        <4>. QED BY <2>1, <3>1, <4>1, <4>2
      <3>4. doing'[u].pc = "joinwait" =>
               doing'[u].expected \in Past(after)' /\ doing'[u].expected # joinButex'
        <4>1. doing[u].pc = "joinwait" => doing[u].expected \in Past(low)
          BY <1>3, <3>1, Zenon DEF ThreadInv, JoinsNow
        <4>. QED BY <2>1, <3>1, <4>1
      <3>5. doing'[u].pc \in Using => /\ \E id \in known' : id.v = doing'[u].v
                                      /\ ~HasVersion(doing[u].v)'
        <4>. SUFFICES ASSUME doing[u].pc \in Using
                      PROVE  (\E id \in known' : id.v = doing'[u].v) /\ ~HasVersion(doing[u].v)'
          BY <3>1
        <4>1. PICK id \in known : id.v = doing[u].v BY <3>1, Zenon DEF ThreadInv
        <4>2. id.v \in Past(low) BY <1>1, <1>3, <4>1, Zenon DEF VersionInv
        <4>3. PICK x \in Past(low) : x = doing[u].v BY <4>1, <4>2
        <4>4. ~HasVersion(x)' BY <2>1, Zenon
        <4>5. ~HasVersion(doing[u].v)' BY <3>1, <4>3, <4>4 DEF HasVersion
        <4>. QED BY <2>1, <3>1, <4>1, <4>5
      <3>. QED BY <3>2, <3>3, <3>4, <3>5 DEF ThreadInv
    <2>. QED BY <2>1, <2>2, <2>3, <2>4, <2>5, <2>6, Zenon DEF IdInvAt
  <1>8. IdInvAt(low)' \/ IdInvAt(TRUE)'
    <2>1. IdBegins(low, low) \/ IdBegins(low, TRUE) BY <1>1, <1>3, CreateVersions, Zenon
    <2>. QED BY <1>7, <2>1, Zenon
  <1>. QED BY <1>2, <1>6, <1>8

-----------------------------------------------------------------------------
(* The invariant *)

LEMMA IdInvInit == IdInit => IdInv
  <1>. SUFFICES ASSUME IdInit PROVE IdInvAt(FALSE)
    BY Zenon DEF IdInv
  <1>1. /\ idButex \in StartVersions /\ joinButex = 0 /\ firstVer = 0 /\ lockedVer = 0
        /\ pendingQ = <<>> /\ inUse = FALSE /\ touched = FALSE /\ known = {} /\ creates = 0
        /\ doing = [t \in IdThreads |-> Doing("idle", 0)]
    BY DEF IdInit
  <1>2. ~Live BY <1>1 DEF Live
  <1>3. \A t \in IdThreads : doing[t].pc = "idle" /\ doing[t] \in Threads
    <2>1. "idle" \in IdPCs /\ 0 \in Nat BY DEF IdPCs
    <2>2. Doing("idle", 0) \in Threads /\ Doing("idle", 0).pc = "idle" BY <2>1, DoingFacts
    <2>. QED BY <1>1, <2>2
  <1>4. IdTypes
    <2>1. idButex \in 0..IdModulus - 1 BY <1>1, IdAssumption
    <2>2. 0 \in 0..IdModulus - 1 /\ creates \in 0..MaxCreates BY <1>1, Bounds
    <2>3. pendingQ \in Seq(Nat) /\ Len(pendingQ) <= MaxPending BY <1>1, PendingBound
    <2>4. doing \in [IdThreads -> Threads] BY <1>1, <1>3
    <2>. QED BY <1>1, <2>1, <2>2, <2>3, <2>4 DEF IdTypes
  <1>5. VersionInv(FALSE) BY <1>1, <1>2 DEF VersionInv, LiveInv
  <1>6. UseInv BY <1>2 DEF UseInv
  <1>7. \A t \in IdThreads : ThreadInv(FALSE, t) BY <1>3 DEF ThreadInv, Holding, Finishing, Using
  <1>8. HolderInv
    <2>1. 1..Len(pendingQ) = {} BY <1>1
    <2>. QED BY <1>1, <1>2, <1>3, <2>1 DEF HolderInv, Holding, Finishing
  <1>9. SleepInv BY <1>3 DEF SleepInv
  <1>. QED BY <1>4, <1>5, <1>6, <1>7, <1>8, <1>9, Zenon DEF IdInvAt

\* The steps by action.
LEMMA IdStep ==
  ASSUME NEW low, IdInvAt(low), IdNext
  PROVE  IdInvAt(low)' \/ IdInvAt(TRUE)'
  <1>1. PICK t \in IdThreads :
          \/ \E range \in CreateRanges : Create(t, range)
          \/ \E id \in known :
               \/ LockStart(t, id) \/ TryLock(t, id) \/ Error(t, id)
               \/ Cancel(t, id) \/ IdJoin(t, id)
          \/ \E range \in LockRanges : Lock(t, range)
          \/ Wait(t) \/ Unlock(t) \/ AboutToDestroy(t) \/ Destroy(t) \/ JoinCheck(t)
          \/ WakeOne(t) \/ WakeLockers(t) \/ IdWakeJoiners(t) \/ ReturnSlot(t)
    BY Zenon DEF IdNext, IdAct
  <1>2. Kept(low, t) => IdInvAt(low)' BY Zenon DEF Kept
  <1>3. ASSUME NEW range \in CreateRanges, Create(t, range) PROVE IdInvAt(low)' \/ IdInvAt(TRUE)'
    BY <1>3, CreateStep, Zenon
  <1>4. ASSUME NEW id \in known, LockStart(t, id) \/ IdJoin(t, id) PROVE Kept(low, t)
    BY <1>4, StartStep, Zenon
  <1>5. ASSUME NEW id \in known, TryLock(t, id) PROVE Kept(low, t) BY <1>5, TryLockStep, Zenon
  <1>6. ASSUME NEW id \in known, Error(t, id) PROVE Kept(low, t) BY <1>6, ErrorStep, Zenon
  <1>7. ASSUME NEW id \in known, Cancel(t, id) PROVE IdInvAt(low)' BY <1>7, CancelStep, Zenon
  <1>8. ASSUME NEW range \in LockRanges, Lock(t, range) PROVE Kept(low, t)
    BY <1>8, LockStep, Zenon
  <1>9. CASE Wait(t) BY <1>2, <1>9, WaitStep, Zenon
  <1>10. CASE Unlock(t) BY <1>2, <1>10, UnlockStep, Zenon
  <1>11. CASE AboutToDestroy(t) BY <1>2, <1>11, AboutToDestroyStep, Zenon
  <1>12. CASE Destroy(t) BY <1>12, DestroyStep, Zenon
  <1>13. CASE JoinCheck(t) BY <1>2, <1>13, JoinCheckStep, Zenon
  <1>14. CASE WakeOne(t) BY <1>2, <1>14, WakeOneStep, Zenon
  <1>15. CASE WakeLockers(t) BY <1>2, <1>15, WakeLockersStep, Zenon
  <1>16. CASE IdWakeJoiners(t) BY <1>2, <1>16, WakeJoinersStep, Zenon
  <1>17. CASE ReturnSlot(t) BY <1>2, <1>17, ReturnSlotStep, Zenon
  <1>. QED BY <1>1, <1>2, <1>3, <1>4, <1>5, <1>6, <1>7, <1>8, <1>9, <1>10, <1>11, <1>12, <1>13,
              <1>14, <1>15, <1>16, <1>17, Zenon

\* A step that leaves the id alone.
LEMMA IdStutter ==
  ASSUME NEW low, IdInvAt(low), UNCHANGED idVars
  PROVE  IdInvAt(low)'
  <1>1. /\ idButex' = idButex /\ joinButex' = joinButex /\ firstVer' = firstVer
        /\ lockedVer' = lockedVer /\ pendingQ' = pendingQ /\ inUse' = inUse /\ touched' = touched
        /\ known' = known /\ creates' = creates /\ doing' = doing
    BY DEF idVars
  <1>2. /\ IdTypes /\ VersionInv(low) /\ UseInv /\ HolderInv /\ SleepInv
        /\ \A t \in IdThreads : ThreadInv(low, t)
    BY Zenon DEF IdInvAt
  <1>3. Live' <=> Live BY <1>1 DEF Live
  <1>4. Past(low)' = Past(low) BY <1>1 DEF Past, PastOf, Pos, Spanned, Over, Live
  <1>5. Pos' = Pos /\ Spanned' = Spanned BY <1>1 DEF Pos, Spanned, Over, Live
  <1>6. IdTypes' BY <1>1, <1>2 DEF IdTypes
  <1>7. VersionInv(low)'
    <2>1. LiveInv' BY <1>1, <1>2, <1>3 DEF VersionInv, LiveInv
    <2>2. low => Pos' <= 1 + Spanned' BY <1>2, <1>5 DEF VersionInv
    <2>3. \A id \in known' : IF Live' /\ id.n = creates' THEN HasVersion(id.v)' ELSE id.v \in Past(low)'
      BY <1>1, <1>2, <1>3, <1>4 DEF VersionInv, HasVersion
    <2>. QED BY <2>1, <2>2, <2>3 DEF VersionInv
  <1>8. UseInv' BY <1>1, <1>2, <1>3 DEF UseInv
  <1>9. ASSUME NEW t \in IdThreads PROVE ThreadInv(low, t)'
    BY <1>1, <1>2, <1>3, <1>4 DEF ThreadInv, Holding, WaitsNow, JoinsNow, HasVersion
  <1>10. HolderInv' BY <1>1, <1>2, <1>3 DEF HolderInv, Holding, HasVersion
  <1>11. SleepInv' BY <1>1, <1>2, <1>3 DEF SleepInv, HasVersion
  <1>. QED BY <1>6, <1>7, <1>8, <1>9, <1>10, <1>11, Zenon DEF IdInvAt

-----------------------------------------------------------------------------
(* Nobody is forgotten *)

Wakers == {"wakeone", "wakelockers", "wakeall"}

\* A step keeps the wakes that are to come if its own thread does.
LEMMA WakeKept ==
  ASSUME NEW low, IdInvAt(low), NEW t \in IdThreads, Kept(low, t), WakeInv,
         doing'[t].pc # "asleep", doing[t].pc \notin Wakers,
         Marked => Marked' \/ doing'[t].pc \in Wakers,
         doing[t].pc = "lock" /\ doing[t].ever /\ HasVersion(doing[t].v) => Marked'
  PROVE  WakeInv'
  <1>1. IdTypes /\ LiveInv BY InvParts, Zenon
  <1>2. Steady /\ Moved(t) BY Zenon DEF Kept
  <1>3. \A v \in Nat : HasVersion(v) => HasVersion(v)' BY <1>1, <1>2, SteadyWords, Zenon
  <1>. SUFFICES ASSUME NEW s \in IdThreads, doing'[s].pc = "asleep"
                PROVE  \/ Marked'
                       \/ \E u \in IdThreads : doing'[u].pc \in Wakers
                       \/ \E u \in IdThreads : doing'[u].pc = "lock" /\ doing'[u].ever /\ HasVersion(doing[u].v)'
    BY DEF WakeInv, Asleep, Wakers
  <1>4. doing[s].pc = "asleep"
    <2>1. s # t OBVIOUS
    <2>2. doing'[s] = doing[s] BY <1>2, <2>1, OthersStay
    <2>. QED BY <2>2
  <1>5. \/ Marked
        \/ \E u \in IdThreads : doing[u].pc \in Wakers
        \/ \E u \in IdThreads : doing[u].pc = "lock" /\ doing[u].ever /\ HasVersion(doing[u].v)
    BY <1>4 DEF WakeInv, Asleep, Wakers
  <1>6. CASE Marked BY <1>6, Zenon
  <1>7. ASSUME NEW u \in IdThreads, doing[u].pc \in Wakers
        PROVE  doing'[u].pc \in Wakers
    <2>1. u # t BY <1>7
    <2>2. doing[u].pc \notin {"asleep", "joinasleep"} BY <1>7 DEF Wakers
    <2>3. doing'[u] = doing[u] BY <1>2, <2>1, <2>2, OthersStay
    <2>. QED BY <1>7, <2>3
  <1>8. ASSUME NEW u \in IdThreads, doing[u].pc = "lock", doing[u].ever, HasVersion(doing[u].v)
        PROVE  Marked' \/ (doing'[u].pc = "lock" /\ doing'[u].ever /\ HasVersion(doing[u].v)')
    <2>1. CASE u = t BY <1>8, <2>1
    <2>2. CASE u # t
      <3>1. doing[u].pc \notin {"asleep", "joinasleep"} BY <1>8
      <3>2. doing'[u] = doing[u] BY <1>2, <2>2, <3>1, OthersStay
      <3>3. PICK v \in Nat : v = doing[u].v BY <1>1 DEF IdTypes, Threads
      <3>4. HasVersion(v)' BY <1>3, <1>8, <3>3
      <3>5. HasVersion(doing[u].v)' BY <3>2, <3>3, <3>4 DEF HasVersion
      <3>. QED BY <1>8, <3>2, <3>5
    <2>. QED BY <2>1, <2>2, Zenon
  <1>. QED BY <1>5, <1>6, <1>7, <1>8, Zenon

\* An id whose lock does not change stays marked.
LEMMA MarkKept ==
  ASSUME UNCHANGED <<idButex, firstVer, lockedVer>>
  PROVE  Marked => Marked'
  BY DEF Marked, Live

\* A free lock is not marked.
LEMMA FreeUnmarked ==
  ASSUME IdTypes, LiveInv, Unlocked
  PROVE  ~Marked
  <1>1. CASE Live
    <2>1. firstVer \in Nat /\ lockedVer \in Nat /\ firstVer < lockedVer BY <1>1, LiveFacts
    <2>. QED BY <2>1 DEF Marked, Unlocked
  <1>. QED BY <1>1, Zenon DEF Marked

\* A step within an incarnation after which no sleeper has slipped lost sight of none.
LEMMA NoneSlipped ==
  ASSUME Remember, ~slipped', Steady
  PROVE  ~slipped /\ ~Slips
  <1>1. creates' = creates BY DEF Steady
  <1>. QED BY <1>1, Zenon DEF Remember

\* Who falls asleep without slipping does so on a marked lock.
LEMMA WaitMarked ==
  ASSUME IdTypes, LiveInv, NEW t \in IdThreads, WaitsNow(t), doing[t].pc = "wait",
         doing'[t].pc = "asleep", ~Slips
  PROVE  Marked
  <1>1. Live BY Zenon DEF WaitsNow
  <1>2. idButex = ContendedVer BY Zenon DEF Slips
  <1>3. ContendedVer = lockedVer + 1 BY <1>1, LiveFacts
  <1>. QED BY <1>1, <1>2, <1>3 DEF Marked

\* The steps by action.
LEMMA WakeStep ==
  ASSUME NEW low, IdInvAt(low), slipped \/ WakeInv, IdNext, ~slipped'
  PROVE  WakeInv'
  <1>1. PICK t \in IdThreads :
          \/ \E range \in CreateRanges : Create(t, range)
          \/ \E id \in known :
               \/ LockStart(t, id) \/ TryLock(t, id) \/ Error(t, id)
               \/ Cancel(t, id) \/ IdJoin(t, id)
          \/ \E range \in LockRanges : Lock(t, range)
          \/ Wait(t) \/ Unlock(t) \/ AboutToDestroy(t) \/ Destroy(t) \/ JoinCheck(t)
          \/ WakeOne(t) \/ WakeLockers(t) \/ IdWakeJoiners(t) \/ ReturnSlot(t)
    BY Zenon DEF IdNext, IdAct
  <1>2. IdTypes /\ LiveInv /\ SleepInv /\ \A u \in IdThreads : ThreadInv(low, u) BY InvParts, Zenon
  <1>3. (\A u \in IdThreads : doing'[u].pc # "asleep") => WakeInv' BY DEF WakeInv, Asleep
  <1>0. Kept(low, t) => WakeInv /\ ~Slips
    BY NoneSlipped, Zenon DEF Kept, IdNext
  <1>4. ASSUME NEW range \in CreateRanges, Create(t, range) PROVE WakeInv'
    BY <1>3, <1>4, CreateStep, Zenon
  <1>5. ASSUME NEW id \in known, LockStart(t, id) \/ IdJoin(t, id) PROVE WakeInv'
    <2>1. Kept(low, t) BY <1>5, StartStep, Zenon
    <2>2. doing'[t].pc # "asleep" /\ doing[t].pc \notin Wakers /\ doing[t].pc # "lock"
      BY <1>2, <1>5, SMTT(30) DEF LockStart, IdJoin, Do, Doing, IdTypes, Wakers
    <2>3. UNCHANGED <<idButex, firstVer, lockedVer>> BY <1>5 DEF LockStart, IdJoin, metaVars
    <2>. QED BY <2>1, <2>2, <2>3, MarkKept, <1>0, WakeKept, Zenon
  <1>6. ASSUME NEW id \in known, TryLock(t, id) PROVE WakeInv'
    <2>1. Kept(low, t) BY <1>6, TryLockStep, Zenon
    <2>2. doing'[t].pc # "asleep" /\ doing[t].pc \notin Wakers /\ doing[t].pc # "lock"
      BY <1>2, <1>6 DEF TryLock, Do, Doing, IdTypes, Wakers
    <2>3. Unlocked BY <1>6 DEF TryLock
    <2>. QED BY <1>2, <2>1, <2>2, <2>3, FreeUnmarked, <1>0, WakeKept, Zenon
  <1>7. ASSUME NEW id \in known, Error(t, id) PROVE WakeInv'
    <2>1. Kept(low, t) BY <1>7, ErrorStep, Zenon
    <2>2. doing'[t].pc # "asleep" /\ doing[t].pc \notin Wakers /\ doing[t].pc # "lock"
      BY <1>2, <1>7, SMTT(30) DEF Error, Do, Doing, IdTypes, Wakers
    <2>3. Unlocked \/ UNCHANGED <<idButex, firstVer, lockedVer>> BY <1>7 DEF Error
    <2>4. Marked => Marked' BY <1>2, <2>3, FreeUnmarked, MarkKept, Zenon
    <2>. QED BY <2>1, <2>2, <2>4, <1>0, WakeKept, Zenon
  <1>8. ASSUME NEW id \in known, Cancel(t, id) PROVE WakeInv' BY <1>3, <1>8, CancelStep, Zenon
  <1>9. ASSUME NEW range \in LockRanges, Lock(t, range) PROVE WakeInv'
    <2>1. /\ Kept(low, t) /\ doing'[t].pc # "asleep"
          /\ Marked \/ (doing[t].ever /\ HasVersion(doing[t].v)) => Marked'
      BY <1>9, LockStep, Zenon
    <2>2. doing[t].pc \notin Wakers BY <1>9 DEF Lock, Wakers
    <2>. QED BY <2>1, <2>2, <1>0, WakeKept, Zenon
  <1>10. CASE Wait(t)
    <2>1. Kept(low, t) /\ (doing'[t].pc = "asleep" => WaitsNow(t) /\ doing[t].expected = idButex)
      BY <1>10, WaitStep, Zenon
    <2>2. doing[t].pc \notin Wakers /\ doing[t].pc # "lock" BY <1>10 DEF Wait, Wakers
    <2>3. UNCHANGED <<idButex, firstVer, lockedVer>> BY <1>10 DEF Wait, metaVars
    <2>4. CASE doing'[t].pc = "asleep"
      <3>1. doing[t].pc = "wait"
        <4>1. CASE doing[t].pc = "joinwait"
          <5>1. Go(t, "joinasleep") \/ Go(t, "join") BY <1>10, <4>1 DEF Wait
          <5>2. "joinasleep" \in IdPCs /\ "join" \in IdPCs BY DEF IdPCs
          <5>3. Gone(t, "joinasleep") \/ Gone(t, "join") BY <1>2, <5>1, <5>2, GoesTo, Zenon
          <5>. QED BY <2>4, <5>3 DEF Gone
        <4>. QED BY <1>10, <4>1 DEF Wait
      <3>3. Marked BY <1>0, <1>2, <2>1, <2>4, <3>1, WaitMarked, Zenon
      <3>2. Marked' BY <2>3, <3>3, MarkKept, Zenon
      <3>. QED BY <3>2, Zenon DEF WakeInv
    <2>5. CASE doing'[t].pc # "asleep" BY <2>1, <2>2, <2>3, <2>5, MarkKept, <1>0, WakeKept, Zenon
    <2>. QED BY <2>4, <2>5, Zenon
  <1>11. CASE Unlock(t)
    <2>1. Kept(low, t) BY <1>11, UnlockStep, Zenon
    <2>2. doing[t].pc \notin Wakers /\ doing[t].pc # "lock" /\ Holding(t) BY <1>11 DEF Unlock, Wakers, Holding
    <2>3. Live BY <1>2, <2>2, Zenon DEF ThreadInv
    <2>4. ContendedVer = lockedVer + 1 /\ UnlockableVer = lockedVer + 2 BY <1>2, <2>3, LiveFacts
    <2>6. CASE pendingQ # <<>>
      <3>1. UNCHANGED <<idButex, firstVer, lockedVer>> BY <1>11, <2>6 DEF Unlock, TakesError
      <3>2. doing'[t].pc # "asleep" BY <1>2, <1>11, <2>6 DEF Unlock, TakesError, Do, Doing, IdTypes
      <3>. QED BY <2>1, <2>2, <3>1, <3>2, MarkKept, <1>0, WakeKept, Zenon
    <2>7. CASE pendingQ = <<>>
      <3>1. IF idButex = ContendedVer THEN Go(t, "wakeone") ELSE IdIdle(t)
        BY <1>11, <2>7 DEF Unlock, TakesError
      <3>2. doing'[t].pc = IF idButex = ContendedVer THEN "wakeone" ELSE "idle"
        <4>1. CASE idButex = ContendedVer
          <5>1. Go(t, "wakeone") /\ "wakeone" \in IdPCs BY <3>1, <4>1 DEF IdPCs
          <5>2. Gone(t, "wakeone") BY <1>2, <5>1, GoesTo, Zenon
          <5>. QED BY <4>1, <5>2 DEF Gone
        <4>2. CASE idButex # ContendedVer
          <5>1. IdIdle(t) BY <3>1, <4>2, Zenon
          <5>2. Started(t, "idle", 0) BY <1>2, <5>1, StopsTo, Zenon
          <5>. QED BY <4>2, <5>2 DEF Started
        <4>. QED BY <4>1, <4>2, Zenon
      <3>3. doing'[t].pc # "asleep" BY <3>2
      <3>4. CASE idButex = UnlockableVer
        <4>1. idButex' = firstVer BY <1>11, <2>7 DEF Unlock, TakesError
        <4>2. Asleep("asleep") = {} BY <1>0, <2>1, <3>4, <4>1, Zenon DEF Slips
        <4>3. Moved(t) BY <2>1, Zenon DEF Kept
        <4>4. ASSUME NEW u \in IdThreads, doing'[u].pc = "asleep" PROVE FALSE
          <5>1. u # t BY <3>3, <4>4
          <5>2. doing'[u] = doing[u] BY <4>3, <4>4, <5>1, OthersStay
          <5>. QED BY <4>2, <4>4, <5>2 DEF Asleep
        <4>. QED BY <1>3, <4>4, Zenon
      <3>5. CASE idButex # UnlockableVer
        <4>1. Marked => doing'[t].pc \in Wakers BY <2>4, <3>2, <3>5 DEF Marked, Wakers
        <4>. QED BY <2>1, <2>2, <3>3, <4>1, <1>0, WakeKept, Zenon
      <3>. QED BY <3>4, <3>5, Zenon
    <2>. QED BY <2>6, <2>7, Zenon
  <1>12. CASE AboutToDestroy(t)
    <2>1. Marked' BY <1>12, AboutToDestroyStep, Zenon
    <2>. QED BY <2>1, Zenon DEF WakeInv
  <1>13. CASE Destroy(t)
    <2>1. doing'[t].pc = "wakeall" BY <1>13, DestroyStep, Zenon
    <2>. QED BY <2>1 DEF WakeInv
  <1>14. CASE JoinCheck(t)
    <2>1. Kept(low, t) BY <1>14, JoinCheckStep, Zenon
    <2>2. doing[t].pc \notin Wakers /\ doing[t].pc # "lock" BY <1>14 DEF JoinCheck, Wakers
    <2>3. doing'[t].pc # "asleep"
      <3>1. CASE IdIdle(t)
        <4>1. Started(t, "idle", 0) BY <1>2, <3>1, StopsTo, Zenon
        <4>. QED BY <4>1 DEF Started
      <3>2. CASE Do(t, [doing[t] EXCEPT !.pc = "joinwait", !.expected = joinButex])
        BY <1>2, <3>2 DEF Do, IdTypes, Threads
      <3>. QED BY <1>14, <3>1, <3>2 DEF JoinCheck
    <2>4. UNCHANGED <<idButex, firstVer, lockedVer>> BY <1>14 DEF JoinCheck, metaVars
    <2>. QED BY <2>1, <2>2, <2>3, <2>4, MarkKept, <1>0, WakeKept, Zenon
  <1>15. CASE WakeOne(t)
    <2>1. Kept(low, t) BY <1>15, WakeOneStep, Zenon
    <2>2. Steady /\ Moved(t) BY <2>1, Zenon DEF Kept
    <2>3. \/ Asleep("asleep") = {} /\ doing'[t].pc = "idle"
          \/ \E u \in IdThreads : /\ u # t /\ doing[u].pc = "asleep" /\ doing'[u].pc = "lock"
                                  /\ doing'[u].v = doing[u].v /\ doing'[u].ever = doing[u].ever
      BY <1>15, WakeOneStep, Zenon
    <2>4. CASE Asleep("asleep") = {} /\ doing'[t].pc = "idle"
      <3>1. ASSUME NEW u \in IdThreads, doing'[u].pc = "asleep" PROVE FALSE
        <4>1. u # t BY <2>4, <3>1
        <4>2. doing'[u] = doing[u] BY <2>2, <3>1, <4>1, OthersStay
        <4>. QED BY <2>4, <3>1, <4>2 DEF Asleep
      <3>. QED BY <1>3, <3>1
    <2>5. ASSUME NEW u \in IdThreads, u # t, doing[u].pc = "asleep", doing'[u].pc = "lock",
                 doing'[u].v = doing[u].v, doing'[u].ever = doing[u].ever
          PROVE  WakeInv'
      <3>1. doing'[u].ever BY <1>2, <2>5 DEF ThreadInv
      <3>2. CASE Live /\ HasVersion(doing[u].v)
        <4>1. PICK v \in Nat : v = doing[u].v BY <1>2 DEF IdTypes, Threads
        <4>2. HasVersion(v) BY <3>2, <4>1
        <4>3. HasVersion(v)' BY <1>2, <2>2, <4>2, SteadyWords, Zenon
        <4>4. HasVersion(doing[u].v)' BY <2>5, <4>1, <4>3 DEF HasVersion
        <4>. QED BY <2>5, <3>1, <4>4, Zenon DEF WakeInv
      <3>3. CASE \E w \in IdThreads : doing[w].pc = "wakeall"
        <4>1. PICK w \in IdThreads : doing[w].pc = "wakeall" BY <3>3
        <4>2. w # t /\ doing[w].pc \notin {"asleep", "joinasleep"} BY <1>15, <4>1 DEF WakeOne
        <4>3. doing'[w] = doing[w] BY <2>2, <4>2, OthersStay
        <4>. QED BY <4>1, <4>3 DEF WakeInv
      <3>. QED BY <1>2, <2>5, <3>2, <3>3, Zenon DEF SleepInv
    <2>. QED BY <2>3, <2>4, <2>5, Zenon
  <1>16. CASE WakeLockers(t)
    <2>1. Asleep("asleep")' = {} BY <1>16, WakeLockersStep, Zenon
    <2>. QED BY <2>1, Zenon DEF WakeInv
  <1>17. CASE IdWakeJoiners(t)
    <2>1. Kept(low, t) /\ doing'[t].pc # "asleep" BY <1>17, WakeJoinersStep
    <2>2. doing[t].pc \notin Wakers /\ doing[t].pc # "lock" BY <1>17 DEF IdWakeJoiners, Wakers
    <2>3. UNCHANGED <<idButex, firstVer, lockedVer>> BY <1>17 DEF IdWakeJoiners, metaVars
    <2>. QED BY <2>1, <2>2, <2>3, MarkKept, <1>0, WakeKept, Zenon
  <1>18. CASE ReturnSlot(t)
    <2>1. Kept(low, t) /\ doing'[t].pc # "asleep" BY <1>18, ReturnSlotStep
    <2>2. doing[t].pc \notin Wakers /\ doing[t].pc # "lock" BY <1>18 DEF ReturnSlot, Wakers
    <2>3. UNCHANGED <<idButex, firstVer, lockedVer>> BY <1>18 DEF ReturnSlot, metaVars
    <2>. QED BY <2>1, <2>2, <2>3, MarkKept, <1>0, WakeKept, Zenon
  <1>. QED BY <1>1, <1>4, <1>5, <1>6, <1>7, <1>8, <1>9, <1>10, <1>11, <1>12, <1>13, <1>14, <1>15,
              <1>16, <1>17, <1>18, Zenon

-----------------------------------------------------------------------------
(* The theorems *)

LEMMA InvExclusive ==
  ASSUME NEW low, IdInvAt(low)
  PROVE  IdExclusive
  <1>1. /\ IdTypes /\ VersionInv(low) /\ LiveInv /\ UseInv /\ HolderInv
        /\ \A t \in IdThreads : ThreadInv(low, t)
    BY InvParts, Zenon
  <1>2. \A t, u \in IdThreads : Holding(t) /\ Holding(u) => t = u BY <1>1, Zenon DEF HolderInv
  <1>3. pendingQ # <<>> => \E t \in IdThreads : Holding(t) BY <1>1, Zenon DEF HolderInv
  <1>4. \A t \in IdThreads : Holding(t) => HasVersion(doing[t].v) /\ ~Unlocked /\ inUse
    BY <1>1, Zenon DEF ThreadInv, UseInv, Unlocked
  <1>5. ASSUME NEW id \in known
        PROVE  id.v # 0 /\ (id.n # creates \/ ~inUse => ~HasVersion(id.v))
    <2>1. PICK v \in Nat \ {0} : v = id.v BY <1>1, KnownFacts
    <2>2. CASE Live
      <3>1. inUse BY <1>1, <2>2, Zenon DEF UseInv
      <3>2. ASSUME id.n # creates PROVE ~HasVersion(v)
        <4>1. v \in Past(low) BY <1>1, <2>1, <3>2 DEF VersionInv
        <4>2. v < firstVer \/ v > firstVer + IdMaxRange + 3 BY <1>1, <2>2, <4>1, PastApart
        <4>3. /\ firstVer \in Nat /\ lockedVer \in Nat /\ lockedVer <= firstVer + IdMaxRange
          BY <1>1, <2>2, LiveFacts
        <4>. QED BY <4>2, <4>3, Bounds DEF HasVersion
      <3>. QED BY <2>1, <3>1, <3>2
    <2>3. CASE ~Live
      <3>1. ~HasVersion(v) BY <1>1, <2>3, ValidLives
      <3>. QED BY <2>1, <3>1
    <2>. QED BY <2>2, <2>3, Zenon
  <1>. QED BY <1>2, <1>3, <1>4, <1>5, Zenon DEF IdExclusive

LEMMA InvForgetsNobody ==
  ASSUME NEW low, IdInvAt(low), slipped \/ WakeInv
  PROVE  NoneForgotten
  <1>1. IdTypes /\ LiveInv /\ HolderInv /\ SleepInv BY InvParts, Zenon
  <1>2. Marked => idButex \in {ContendedVer, UnlockableVer} /\ \E t \in IdThreads : Holding(t)
    <2>. SUFFICES ASSUME Marked
                  PROVE  idButex \in {ContendedVer, UnlockableVer} /\ \E t \in IdThreads : Holding(t)
      BY Zenon
    <2>1. Live /\ idButex \in {lockedVer + 1, lockedVer + 2} BY Zenon DEF Marked
    <2>2. /\ firstVer \in Nat /\ lockedVer \in Nat /\ firstVer < lockedVer
          /\ ContendedVer = lockedVer + 1 /\ UnlockableVer = lockedVer + 2
      BY <1>1, <2>1, LiveFacts
    <2>3. idButex # firstVer BY <2>1, <2>2
    <2>4. \E t \in IdThreads : Holding(t) BY <1>1, <2>1, <2>3, Zenon DEF HolderInv
    <2>. QED BY <2>1, <2>2, <2>4
  <1>3. \A t \in Asleep("joinasleep") :
          HasVersion(doing[t].v) \/ \E u \in IdThreads : doing[u].pc \in {"wakeall", "wakejoiners"}
    BY <1>1, Zenon DEF SleepInv, Asleep
  <1>4. WakeInv => LockersAwaited BY <1>2, Zenon DEF WakeInv, LockersAwaited
  <1>. QED BY <1>3, <1>4, Zenon DEF NoneForgotten

\* A bthread_id has one holder, through a version that is valid, and no version of an
\* incarnation that is over becomes valid again (src/src-bthread/id.cpp:325-382, 405-455,
\* 567-640, 709-742).
THEOREM IdHeldOnce == IdSpec => []IdExclusive
  <1>1. IdInit => IdInv BY IdInvInit, Zenon
  <1>2. IdInv /\ [IdNext]_idVars => IdInv'
    BY IdStep, IdStutter, Zenon DEF IdInv
  <1>3. IdInv => IdExclusive BY InvExclusive, Zenon DEF IdInv
  <1>. QED BY <1>1, <1>2, <1>3, PTL DEF IdSpec

\* With that, a joiner of a bthread_id is never forgotten, and a locker only by an unlock
\* that takes back bthread_id_about_to_destroy() while it sleeps, or when it falls asleep
\* after the range was raised by one, and not beyond the end of the id
\* (src/src-bthread/id.cpp:405-455, 462-486, 513-536, 567-640).
THEOREM IdsKeptSafe == IdSpec => []IdsSafe
  <1>. DEFINE Inv == IdInv /\ (slipped \/ WakeInv)
  <1>1. IdInit => Inv
    <2>1. IdInit => Asleep("asleep") = {} BY DEF IdInit, Asleep, Doing
    <2>. QED BY <2>1, IdInvInit, Zenon DEF WakeInv
  <1>2. Inv /\ [IdNext]_idVars => Inv'
    <2>1. IdInv /\ [IdNext]_idVars => IdInv' BY IdStep, IdStutter, Zenon DEF IdInv
    <2>2. IdInv /\ (slipped \/ WakeInv) /\ IdNext => slipped' \/ WakeInv'
      BY WakeStep, Zenon DEF IdInv
    <2>3. (slipped \/ WakeInv) /\ UNCHANGED idVars => slipped' \/ WakeInv'
      BY DEF WakeInv, idVars, Asleep, Marked, Live, HasVersion
    <2>. QED BY <2>1, <2>2, <2>3, Zenon
  <1>3. Inv => IdsSafe BY InvExclusive, InvForgetsNobody, Zenon DEF IdInv, IdsSafe
  <1>. QED BY <1>1, <1>2, <1>3, PTL DEF IdSpec
=============================================================================
