----------------------------- MODULE BlockPool -----------------------------
(***************************************************************************)
(* The registered-memory block pool (src-common/fast_block_pool.cc):       *)
(* regions cut into buckets, per bucket an idle list and an expansion list *)
(* of nodes that cover runs of blocks, a per-thread list for the default   *)
(* block type, and the return of that list when the thread exits, among    *)
(* the other exit callbacks (inc/fast_utils.h).  A bucket's lists are used *)
(* under its lock, the expansion lists under the extend lock, so one call  *)
(* is one step; the exit of a thread takes one step per node.              *)
(***************************************************************************)
EXTENDS Naturals, Sequences, SequencesExt, FiniteSets

CONSTANTS
  PoolThreads,      \* threads that allocate and free
  BlockTypes,       \* {0} or {0, 1}: 0 is the default type, cached per thread
  Buckets,          \* RDMA_MEMPOOL_BUCKETS
  BucketBlocks,     \* blocks of a bucket of a region
  MaxRegions,       \* RDMA_MEMPOOL_MAX_REGIONS
  TlsCacheNum,      \* RDMA_MEMPOOL_TLS_CACHE_NUM
  MaxPoolOps        \* bound: operations of the threads

ASSUME BlockPoolAssumption ==
  /\ 0 \in BlockTypes /\ BlockTypes \subseteq {0, 1}
  /\ {Buckets, BucketBlocks, MaxRegions, MaxPoolOps} \subseteq Nat \ {0}
  /\ TlsCacheNum \in {2 * i : i \in 1..64}

VARIABLES
  regions,          \* g_regions: the block type of each region
  idleList,         \* idle_list: type, bucket -> nodes
  expansion,        \* expansion_list
  tlsIdle,          \* tls_idle_list: blocks, each a node of its own
  tlsInited,        \* threads with tls_inited set
  callbacks,        \* the thread's exit callbacks, in order of registration
  exits,            \* threads running their exit callbacks
  chained,          \* the block an IOBuf chain of the thread keeps, if any
  blocksInUse,      \* blocks handed out
  poolOps,          \* operations done so far
  lost,             \* blocks no list leads to any more
  dangling          \* a thread's exit loop is in a vector that was reallocated

poolVars == <<regions, idleList, expansion, tlsIdle, tlsInited, callbacks, exits, chained,
              blocksInUse, poolOps, lost, dangling>>

Bkts == 1..Buckets
\* A node: n blocks from block o of region r.
BlocksOfNode(d) == {<<d.r, o>> : o \in d.o..(d.o + d.n) - 1}
BlocksOfList(list) == UNION {BlocksOfNode(list[i]) : i \in DOMAIN list}
One(b) == [r |-> b[1], o |-> b[2], n |-> 1]
Ones(bs) == [i \in 1..Len(bs) |-> One(bs[i])]
Empty == [ty \in BlockTypes |-> [ix \in Bkts |-> <<>>]]

\* ExtendBlockPoolImpl(): one node per bucket, put before the bucket's other expansions.
Extended(exp, r, ty) ==
  [exp EXCEPT ![ty] = [ix \in Bkts |->
     <<[r |-> r, o |-> (ix - 1) * BucketBlocks, n |-> BucketBlocks]>> \o @[ix]]]

\* InitBlockPool() extends the pool once for the default type.
PoolInit ==
  /\ regions = <<0>> /\ idleList = Empty /\ expansion = Extended(Empty, 1, 0)
  /\ tlsIdle = [t \in PoolThreads |-> <<>>] /\ callbacks = [t \in PoolThreads |-> <<>>]
  /\ exits = {} /\ chained = [t \in PoolThreads |-> <<>>] /\ blocksInUse = {} /\ lost = {}
  /\ poolOps = 0 /\ tlsInited = {} /\ dangling = FALSE

---------------------------------------------------------------------------
(* AllocBlockFrom(): what one call returns and leaves behind.              *)

\* Mutant: the block handed out stays in a node of several blocks.
CutHeadMutant(list) == IF Head(list).n > 1 THEN list ELSE Tail(list)
CutHead(list) ==
  IF Head(list).n > 1 THEN <<[Head(list) EXCEPT !.o = @ + 1, !.n = @ - 1]>> \o Tail(list)
  ELSE Tail(list)

\* How many single blocks follow, up to half of what the thread may cache.
Refill(list) ==
  LET ok(m) == m <= Len(list) /\ m <= TlsCacheNum \div 2 /\ \A i \in 1..m : list[i].n = 1
  IN CHOOSE m \in 0..Len(list) : ok(m) /\ ~ok(m + 1)

\* The bucket's list after MoveExpansionList2EmptyIdleList(), extending if needed.
Stocked(ty, ix) ==
  LET grow == idleList[ty][ix] = <<>> /\ expansion[ty][ix] = <<>>
      exp == IF grow THEN Extended(expansion, Len(regions) + 1, ty) ELSE expansion
  IN [ok |-> ~grow \/ Len(regions) < MaxRegions,
      regions |-> IF grow THEN Append(regions, ty) ELSE regions,
      list |-> IF idleList[ty][ix] = <<>> THEN exp[ty][ix] ELSE idleList[ty][ix],
      exp |-> IF idleList[ty][ix] = <<>> THEN [exp EXCEPT ![ty][ix] = <<>>] ELSE exp]

FromTls(t, ty) == ty = 0 /\ tlsIdle[t] # <<>>
AllocTls(t, b) ==
  /\ b = Head(tlsIdle[t]) /\ tlsIdle' = [tlsIdle EXCEPT ![t] = Tail(@)]
  /\ UNCHANGED <<regions, idleList, expansion, lost>>

\* After the block is cut off, a default-type call moves single blocks to the thread's
\* list; when there is none, it ends the list at the head all the same.
AllocBucket(t, ty, ix, b) ==
  LET s == Stocked(ty, ix)
      rest == CutHead(s.list)
      m == IF ty = 0 THEN Refill(rest) ELSE 0
      cutsShort == ty = 0 /\ m = 0 /\ rest # <<>>
  IN
  /\ s.ok /\ b = <<Head(s.list).r, Head(s.list).o>>
  /\ regions' = s.regions /\ expansion' = s.exp
  /\ idleList' = [idleList EXCEPT ![ty][ix] =
       IF cutsShort THEN <<Head(rest)>> ELSE SubSeq(rest, m + 1, Len(rest))]
  /\ tlsIdle' = IF ty = 0 THEN [tlsIdle EXCEPT ![t] = [i \in 1..m |-> <<rest[i].r, rest[i].o>>]]
                ELSE tlsIdle
  /\ lost' = IF cutsShort THEN lost \cup BlocksOfList(Tail(rest)) ELSE lost

AllocBlockFrom(t, ty, b) ==
  \/ FromTls(t, ty) /\ AllocTls(t, b)
  \/ ~FromTls(t, ty) /\ \E ix \in Bkts : AllocBucket(t, ty, ix, b)

AllBlocks == {<<r, o>> : r \in 1..MaxRegions, o \in 0..(Buckets * BucketBlocks) - 1}

\* BlockAllocate(len) with a length of each type.
BlockAllocate(t, ty) ==
  /\ t \notin exits
  /\ \E b \in AllBlocks : AllocBlockFrom(t, ty, b) /\ blocksInUse' = blocksInUse \cup {b}
  /\ UNCHANGED <<tlsInited, callbacks, exits, chained, dangling>>

---------------------------------------------------------------------------
(* BlockDeallocate()                                                       *)

BucketOf(b) == (b[2] \div BucketBlocks) + 1
\* add_callback().  From within an exit callback it is a push_back() into the vector that
\* ~ThreadExitHelper walks backwards: with room in the vector the callback is behind the
\* walk and never runs; without, the vector moves and the walk goes on in freed memory.
\* The callbacks of other components, which are not here, decide whether there is room.
AddCallback(t, c) ==
  \/ t \notin exits /\ callbacks' = [callbacks EXCEPT ![t] = Append(@, c)] /\ UNCHANGED dangling
  \/ t \in exits /\ UNCHANGED <<callbacks, dangling>>
  \/ t \in exits /\ dangling' = TRUE /\ UNCHANGED callbacks

\* Mutant: the half of the cache that is given back also stays in it.
StillCachedMutant(t) == tlsIdle[t]
StillCached(t) == SubSeq(tlsIdle[t], (TlsCacheNum \div 2) + 1, Len(tlsIdle[t]))

Cached(t, b) == regions[b[1]] = 0 /\ Len(tlsIdle[t]) < TlsCacheNum
BlockDeallocate(t, b) ==
  LET ty == regions[b[1]]
      half == SubSeq(tlsIdle[t], 1, TlsCacheNum \div 2)
      given == IF ty = 0 THEN Ones(Append(half, b)) ELSE <<One(b)>>
  IN
  /\ IF Cached(t, b)
       THEN /\ tlsIdle' = [tlsIdle EXCEPT ![t] = <<b>> \o @]
            /\ tlsInited' = tlsInited \cup {t}
            /\ IF t \in tlsInited THEN UNCHANGED <<callbacks, dangling>>
                                  ELSE AddCallback(t, "RecycleAll")
            /\ UNCHANGED idleList
       ELSE /\ idleList' = [idleList EXCEPT ![ty][BucketOf(b)] = given \o @]
            /\ tlsIdle' = IF ty = 0 THEN [tlsIdle EXCEPT ![t] = StillCached(t)] ELSE tlsIdle
            /\ UNCHANGED <<tlsInited, callbacks, dangling>>
  /\ UNCHANGED <<regions, expansion>>

Deallocate(t, b) ==
  /\ t \notin exits /\ b \in blocksInUse
  /\ BlockDeallocate(t, b) /\ blocksInUse' = blocksInUse \ {b}
  /\ UNCHANGED <<exits, chained, lost>>

---------------------------------------------------------------------------
(* The IOBuf chain of a thread, and the exit of a thread.                  *)

\* share_tls_block() on an empty chain registers its callback and takes a block.
ShareTlsBlock(t) ==
  /\ t \notin exits /\ chained[t] = <<>>
  /\ \E b \in AllBlocks : AllocBlockFrom(t, 0, b) /\ chained' = [chained EXCEPT ![t] = <<b>>]
  /\ IF "clear_tls_block_chain" \in ToSet(callbacks[t]) THEN UNCHANGED <<callbacks, dangling>>
     ELSE AddCallback(t, "clear_tls_block_chain")
  /\ UNCHANGED <<tlsInited, exits, blocksInUse>>

ThreadExits(t) ==
  /\ t \notin exits /\ callbacks[t] # <<>> /\ exits' = exits \cup {t}
  /\ UNCHANGED <<regions, idleList, expansion, tlsIdle, tlsInited, callbacks, chained, blocksInUse,
                 lost, dangling>>

RunsCallback(t, c) == t \in exits /\ callbacks[t] # <<>> /\ Last(callbacks[t]) = c
CallbackDone(t) == callbacks' = [callbacks EXCEPT ![t] = Front(@)]

\* RecycleAll(): one node back to its bucket per step.
RecycleOne(t) ==
  /\ RunsCallback(t, "RecycleAll") /\ tlsIdle[t] # <<>>
  /\ tlsIdle' = [tlsIdle EXCEPT ![t] = Tail(@)]
  /\ idleList' = [idleList EXCEPT ![0][BucketOf(Head(tlsIdle[t]))] = <<One(Head(tlsIdle[t]))>> \o @]
  /\ UNCHANGED <<regions, expansion, tlsInited, callbacks, exits, chained, blocksInUse, lost, dangling>>
RecycleDone(t) ==
  /\ RunsCallback(t, "RecycleAll") /\ tlsIdle[t] = <<>> /\ CallbackDone(t)
  /\ UNCHANGED <<regions, idleList, expansion, tlsIdle, tlsInited, exits, chained, blocksInUse, lost,
                 dangling>>

\* clear_tls_block_chain(): the last reference frees the block; a buffer that still
\* refers to it frees it later.
ClearChain(t) ==
  /\ RunsCallback(t, "clear_tls_block_chain") /\ chained[t] # <<>>
  /\ chained' = [chained EXCEPT ![t] = <<>>]
  /\ \/ BlockDeallocate(t, chained[t][1]) /\ UNCHANGED blocksInUse
     \/ /\ blocksInUse' = blocksInUse \cup {chained[t][1]}
        /\ UNCHANGED <<regions, idleList, expansion, tlsIdle, tlsInited, callbacks, dangling>>
  /\ UNCHANGED <<exits, lost>>
ClearDone(t) ==
  /\ RunsCallback(t, "clear_tls_block_chain") /\ chained[t] = <<>> /\ CallbackDone(t)
  /\ UNCHANGED <<regions, idleList, expansion, tlsIdle, tlsInited, exits, chained, blocksInUse, lost,
                 dangling>>

\* The thread is gone with what its list still holds; another takes its name.
ThreadGone(t) ==
  /\ t \in exits /\ callbacks[t] = <<>> /\ exits' = exits \ {t}
  /\ lost' = lost \cup ToSet(tlsIdle[t]) /\ tlsIdle' = [tlsIdle EXCEPT ![t] = <<>>]
  /\ tlsInited' = tlsInited \ {t}
  /\ UNCHANGED <<regions, idleList, expansion, callbacks, chained, blocksInUse, dangling>>

PoolNext ==
  /\ ~dangling /\ poolOps < MaxPoolOps /\ poolOps' = poolOps + 1
  /\ \E t \in PoolThreads :
    \/ \E ty \in BlockTypes : BlockAllocate(t, ty)
    \/ \E b \in blocksInUse : Deallocate(t, b)
    \/ ShareTlsBlock(t) \/ ThreadExits(t) \/ RecycleOne(t) \/ RecycleDone(t)
    \/ ClearChain(t) \/ ClearDone(t) \/ ThreadGone(t)

PoolSpec == PoolInit /\ [][PoolNext]_poolVars

---------------------------------------------------------------------------

PoolTypeOK ==
  /\ regions \in Seq(BlockTypes) /\ Len(regions) <= MaxRegions
  /\ \A t \in PoolThreads : /\ Len(tlsIdle[t]) <= TlsCacheNum /\ Len(chained[t]) <= 1
                            /\ ToSet(callbacks[t]) \subseteq {"RecycleAll", "clear_tls_block_chain"}
  /\ poolOps \in 0..MaxPoolOps /\ dangling \in BOOLEAN /\ exits \cup tlsInited \subseteq PoolThreads
  /\ blocksInUse \subseteq AllBlocks /\ lost \subseteq AllBlocks

\* Every place a block can be in, with how many blocks it holds.
Lists == {idleList[ty][ix] : ty \in BlockTypes, ix \in Bkts}
         \cup {expansion[ty][ix] : ty \in BlockTypes, ix \in Bkts}
PlacedBlocks == UNION {BlocksOfList(l) : l \in Lists} \cup blocksInUse \cup lost
                \cup UNION {ToSet(tlsIdle[t]) \cup ToSet(chained[t]) : t \in PoolThreads}
SizeOf(list) == FoldLeft(LAMBDA n, d : n + d.n, 0, list)
Sum(f, S) == FoldSet(LAMBDA x, n : n + f[x], 0, S)
PlacedCount ==
  Sum([p \in BlockTypes \X Bkts |-> SizeOf(idleList[p[1]][p[2]]) + SizeOf(expansion[p[1]][p[2]])],
      BlockTypes \X Bkts)
  + Sum([t \in PoolThreads |-> Len(tlsIdle[t]) + Len(chained[t])], PoolThreads)
  + Cardinality(blocksInUse) + Cardinality(lost)

\* A block of registered memory is in one place only: handed out once, or in one list of
\* one thread or bucket; so no two buffers ever share memory, through splits of nodes,
\* refills, overflows of a thread's cache and exits, and a list of a type holds blocks of
\* that type.  No list leads to a block only when a refill found a run of blocks at the
\* head and ended the list there (line 358), or when it went to the cache of a thread whose
\* exit callback RecycleAll() was registered too late (line 422)
\* (src/src-common/fast_block_pool.cc:300-466).
BlocksApart ==
  /\ PlacedBlocks = {b \in AllBlocks : b[1] <= Len(regions)}
  /\ PlacedCount = Len(regions) * Buckets * BucketBlocks
  /\ \A ty \in BlockTypes, ix \in Bkts :
       \A b \in BlocksOfList(idleList[ty][ix] \o expansion[ty][ix]) : regions[b[1]] = ty
=============================================================================
