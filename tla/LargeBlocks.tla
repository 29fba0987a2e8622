---------------------------- MODULE LargeBlocks ----------------------------
(***************************************************************************)
(* The cache of large registered blocks (src-common/fast_large_block.cc):  *)
(* a list per thread, ascending in size, from which a request takes the    *)
(* first block that is large enough; a block is returned by the thread     *)
(* that finished the transfer, which need not be the one that allocated.   *)
(***************************************************************************)
EXTENDS Naturals, Sequences, SequencesExt, FiniteSets

CONSTANTS
  LargeThreads,           \* threads that start and finish transfers
  LargeSizes,             \* sizes asked for
  kMaxCachedLargeBlocks,
  MaxRegistered           \* bound: blocks ever registered

ASSUME LargeBlocksAssumption ==
  /\ LargeSizes \subseteq Nat /\ kMaxCachedLargeBlocks \in Nat \ {0} /\ MaxRegistered \in Nat

VARIABLES
  cachedLarge,            \* tls_large_block_list: memory regions, in list order
  largeInUse,             \* region -> the size its user asked for
  mrSize,                 \* ibv_mr::length of every region registered so far
  deregistered            \* regions given back to the device

largeVars == <<cachedLarge, largeInUse, mrSize, deregistered>>

LargeInit ==
  /\ cachedLarge = [t \in LargeThreads |-> <<>>] /\ largeInUse = <<>> /\ mrSize = <<>>
  /\ deregistered = {}

\* Mutant: any block after the smaller ones, the last one if there is none.
FirstFitMutant(list, size) == IF list = <<>> THEN 0 ELSE Len(list)

\* LargeBlockFindBestFit(): the first block that is large enough, or 0.
FirstFit(list, size) ==
  LET fits == {i \in 1..Len(list) : mrSize[list[i]] >= size}
  IN IF fits = {} THEN 0 ELSE CHOOSE i \in fits : \A j \in fits : i <= j

Hand(mr, size) == largeInUse' = [m \in DOMAIN largeInUse \cup {mr} |->
                                   IF m = mr THEN size ELSE largeInUse[m]]
LargeBlockAlloc(t, size) ==
  LET i == FirstFit(cachedLarge[t], size)
      new == Len(mrSize) + 1
  IN
  \/ /\ i # 0 /\ Hand(cachedLarge[t][i], size)
     /\ cachedLarge' = [cachedLarge EXCEPT ![t] = RemoveAt(@, i)]
     /\ UNCHANGED <<mrSize, deregistered>>
  \/ /\ i = 0 /\ new <= MaxRegistered /\ Hand(new, size) /\ mrSize' = Append(mrSize, size)
     /\ UNCHANGED <<cachedLarge, deregistered>>

\* LargeBlockInsertSorted()
InsertSorted(list, mr) ==
  LET at == Cardinality({i \in 1..Len(list) : mrSize[list[i]] <= mrSize[mr]})
  IN SubSeq(list, 1, at) \o <<mr>> \o SubSeq(list, at + 1, Len(list))

\* Mutant: the list may grow by one more.
TooManyMutant(list) == Len(list) > kMaxCachedLargeBlocks + 1

TooMany(list) == Len(list) > kMaxCachedLargeBlocks

\* The block is inserted, and LargeBlockPopLast() follows if the list is too long.
ReturnLargeBlock(t, mr) ==
  LET list == InsertSorted(cachedLarge[t], mr)
      full == TooMany(list)
  IN
  /\ largeInUse' = [m \in DOMAIN largeInUse \ {mr} |-> largeInUse[m]]
  /\ cachedLarge' = [cachedLarge EXCEPT ![t] = IF full THEN Front(list) ELSE list]
  /\ deregistered' = IF full THEN deregistered \cup {Last(list)} ELSE deregistered
  /\ UNCHANGED mrSize

\* RecycleTLSLargeBlocks() at the exit of the thread.
RecycleTLSLargeBlocks(t) ==
  /\ cachedLarge[t] # <<>> /\ cachedLarge' = [cachedLarge EXCEPT ![t] = <<>>]
  /\ deregistered' = deregistered \cup ToSet(cachedLarge[t])
  /\ UNCHANGED <<largeInUse, mrSize>>

LargeNext ==
  \E t \in LargeThreads :
    \/ \E size \in LargeSizes : LargeBlockAlloc(t, size)
    \/ \E mr \in DOMAIN largeInUse : ReturnLargeBlock(t, mr)
    \/ RecycleTLSLargeBlocks(t)

LargeSpec == LargeInit /\ [][LargeNext]_largeVars

LargeTypeOK ==
  /\ mrSize \in Seq(LargeSizes) /\ Len(mrSize) <= MaxRegistered
  /\ \A t \in LargeThreads : Len(cachedLarge[t]) <= kMaxCachedLargeBlocks

\* A large block is large enough for the transfer that uses it, and it is used once: no
\* block is in use while a thread's cache holds it or after it was deregistered, and the
\* first fit is the best one because every list stays ascending
\* (src/src-common/fast_large_block.cc:27-104).
LargeBlocksApart ==
  LET places == [t \in LargeThreads |-> ToSet(cachedLarge[t])] IN
  /\ \A mr \in DOMAIN largeInUse : mrSize[mr] >= largeInUse[mr] /\ mr \notin deregistered
  /\ \A t \in LargeThreads :
       /\ IsInjective(cachedLarge[t])
       /\ places[t] \cap (DOMAIN largeInUse \cup deregistered) = {}
       /\ \A u \in LargeThreads \ {t} : places[t] \cap places[u] = {}
       /\ \A i, j \in 1..Len(cachedLarge[t]) :
            i < j => mrSize[cachedLarge[t][i]] <= mrSize[cachedLarge[t][j]]
  /\ 1..Len(mrSize) = DOMAIN largeInUse \cup deregistered \cup UNION {places[t] : t \in LargeThreads}
=============================================================================
