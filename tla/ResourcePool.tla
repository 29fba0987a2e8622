--------------------------- MODULE ResourcePool ----------------------------
(***************************************************************************)
(* butil::ResourcePool (butil/resource_pool_inl.h), which gives out the    *)
(* slots behind bthread ids, versioned references and call ids.  A thread  *)
(* takes an identifier from its free list, from a chunk of the global free *)
(* list, from its current block, or from a block it adds to the last group *)
(* without a lock; another thread may give the identifier back.            *)
(***************************************************************************)
EXTENDS Naturals, Sequences, SequencesExt, FiniteSets

CONSTANTS
  RpThreads,        \* threads that get and return resources
  BlockNitem,       \* BLOCK_NITEM
  ChunkNitem,       \* free_chunk_nitem()
  GroupNblock,      \* RP_GROUP_NBLOCK
  MaxNgroup         \* RP_MAX_BLOCK_NGROUP

ASSUME ResourcePoolAssumption ==
  {BlockNitem, ChunkNitem, GroupNblock, MaxNgroup} \subseteq Nat \ {0} /\ ChunkNitem <= BlockNitem

VARIABLES
  curFree,          \* LocalPool::_cur_free: the thread's free identifiers
  rpBlock,          \* _cur_block_index, or NoBlock
  freeChunks,       \* _free_chunks
  nblock,           \* BlockGroup::nblock of every group added; their number is _ngroup
  publishedBlocks,  \* entries of blocks[] that are set
  nitem,            \* Block::nitem of every published block
  rpAt,             \* where in get_resource() the thread is
  sawGroup,         \* add_block(): the _ngroup the thread read
  claimed,          \* add_block(): the entry it got from fetch_add
  rpHeld            \* identifiers handed out

rpVars == <<curFree, rpBlock, freeChunks, nblock, publishedBlocks, nitem, rpAt, sawGroup,
            claimed, rpHeld>>

NoBlock == GroupNblock * MaxNgroup
BlockIndexes == 0..NoBlock - 1

RpInit ==
  /\ curFree = [t \in RpThreads |-> <<>>] /\ rpBlock = [t \in RpThreads |-> NoBlock]
  /\ freeChunks = <<>> /\ nblock = <<>> /\ publishedBlocks = {}
  /\ nitem = [b \in BlockIndexes |-> 0] /\ rpAt = [t \in RpThreads |-> "idle"]
  /\ sawGroup = [t \in RpThreads |-> 0] /\ claimed = [t \in RpThreads |-> 0] /\ rpHeld = <<>>

RpGoto(t, l) == rpAt' = [rpAt EXCEPT ![t] = l]
\* The identifiers handed out, in order and each as often as it was handed out.
HandsOut(id) ==
  rpHeld' = InsertAt(rpHeld, Cardinality({i \in DOMAIN rpHeld : rpHeld[i] < id}) + 1, id)

---------------------------------------------------------------------------
(* get_resource()                                                          *)

GetLocalFree(t) ==
  /\ rpAt[t] = "idle" /\ curFree[t] # <<>>
  /\ HandsOut(Last(curFree[t])) /\ curFree' = [curFree EXCEPT ![t] = Front(@)]
  /\ UNCHANGED <<rpBlock, freeChunks, nblock, publishedBlocks, nitem, rpAt, sawGroup, claimed>>

\* pop_free_chunk(), under _free_chunks_mutex.
GetFromChunk(t) ==
  /\ rpAt[t] = "idle" /\ curFree[t] = <<>> /\ freeChunks # <<>>
  /\ HandsOut(Last(Last(freeChunks))) /\ freeChunks' = Front(freeChunks)
  /\ curFree' = [curFree EXCEPT ![t] = Front(Last(freeChunks))]
  /\ UNCHANGED <<rpBlock, nblock, publishedBlocks, nitem, rpAt, sawGroup, claimed>>

HasRoom(t) == rpBlock[t] # NoBlock /\ nitem[rpBlock[t]] < BlockNitem
\* The object is constructed in the next item; one its validator rejects is not given out.
GetFromBlock(t) ==
  /\ \/ rpAt[t] = "idle" /\ curFree[t] = <<>> /\ freeChunks = <<>> /\ HasRoom(t)
     \/ rpAt[t] = "added"
  /\ \/ /\ HandsOut((rpBlock[t] * BlockNitem) + nitem[rpBlock[t]])
        /\ nitem' = [nitem EXCEPT ![rpBlock[t]] = @ + 1]
     \/ UNCHANGED <<rpHeld, nitem>>
  /\ RpGoto(t, "idle")
  /\ UNCHANGED <<curFree, rpBlock, freeChunks, nblock, publishedBlocks, sawGroup, claimed>>

\* add_block(): read _ngroup.
AddBlock(t) ==
  /\ \/ rpAt[t] = "idle" /\ curFree[t] = <<>> /\ freeChunks = <<>> /\ ~HasRoom(t)
     \/ rpAt[t] = "again"
  /\ sawGroup' = [sawGroup EXCEPT ![t] = Len(nblock)]
  /\ RpGoto(t, IF nblock = <<>> THEN "grow" ELSE "claim")
  /\ UNCHANGED <<curFree, rpBlock, freeChunks, nblock, publishedBlocks, nitem, claimed, rpHeld>>

ClaimEntry(t) ==
  /\ rpAt[t] = "claim"
  /\ claimed' = [claimed EXCEPT ![t] = nblock[sawGroup[t]]]
  /\ nblock' = [nblock EXCEPT ![sawGroup[t]] = @ + 1]
  /\ RpGoto(t, IF nblock[sawGroup[t]] < GroupNblock THEN "publish" ELSE "unclaim")
  /\ UNCHANGED <<curFree, rpBlock, freeChunks, publishedBlocks, nitem, sawGroup, rpHeld>>

\* Mutant: the index of the block forgets the full groups before.
BlockIndexMutant(t) == claimed[t]
BlockIndex(t) == ((sawGroup[t] - 1) * GroupNblock) + claimed[t]

\* The new block, with nitem 0, is stored and becomes the thread's current one.
PublishBlock(t) ==
  /\ rpAt[t] = "publish"
  /\ publishedBlocks' = publishedBlocks \cup {BlockIndex(t)}
  /\ nitem' = [nitem EXCEPT ![BlockIndex(t)] = 0]
  /\ rpBlock' = [rpBlock EXCEPT ![t] = BlockIndex(t)] /\ RpGoto(t, "added")
  /\ UNCHANGED <<curFree, freeChunks, nblock, sawGroup, claimed, rpHeld>>

UnclaimEntry(t) ==
  /\ rpAt[t] = "unclaim" /\ nblock' = [nblock EXCEPT ![sawGroup[t]] = @ - 1] /\ RpGoto(t, "grow")
  /\ UNCHANGED <<curFree, rpBlock, freeChunks, publishedBlocks, nitem, sawGroup, claimed, rpHeld>>

\* add_block_group(), under _block_group_mutex; when no group can be added the call fails
\* and the thread has no current block.
AddBlockGroup(t) ==
  LET other == Len(nblock) # sawGroup[t]
      full == Len(nblock) = MaxNgroup
  IN
  /\ rpAt[t] = "grow"
  /\ nblock' = IF other \/ full THEN nblock ELSE Append(nblock, 0)
  /\ RpGoto(t, IF ~other /\ full THEN "idle" ELSE "again")
  /\ rpBlock' = IF ~other /\ full THEN [rpBlock EXCEPT ![t] = NoBlock] ELSE rpBlock
  /\ UNCHANGED <<curFree, freeChunks, publishedBlocks, nitem, sawGroup, claimed, rpHeld>>

---------------------------------------------------------------------------
(* return_resource(), and the exit of a thread.                            *)

ReturnId(t, i) ==
  LET id == rpHeld[i]
      room == Len(curFree[t]) < ChunkNitem
  IN
  /\ rpAt[t] = "idle" /\ rpHeld' = RemoveAt(rpHeld, i)
  /\ curFree' = [curFree EXCEPT ![t] = IF room THEN Append(@, id) ELSE <<id>>]
  /\ freeChunks' = IF room THEN freeChunks ELSE Append(freeChunks, curFree[t])
  /\ UNCHANGED <<rpBlock, nblock, publishedBlocks, nitem, rpAt, sawGroup, claimed>>

\* ~LocalPool(): the free list becomes a chunk, the rest of the block is given up.
DeleteLocalPool(t) ==
  /\ rpAt[t] = "idle" /\ (curFree[t] # <<>> \/ rpBlock[t] # NoBlock)
  /\ freeChunks' = IF curFree[t] = <<>> THEN freeChunks ELSE Append(freeChunks, curFree[t])
  /\ curFree' = [curFree EXCEPT ![t] = <<>>] /\ rpBlock' = [rpBlock EXCEPT ![t] = NoBlock]
  /\ UNCHANGED <<nblock, publishedBlocks, nitem, rpAt, sawGroup, claimed, rpHeld>>

RpNext ==
  \E t \in RpThreads :
    \/ GetLocalFree(t) \/ GetFromChunk(t) \/ GetFromBlock(t)
    \/ AddBlock(t) \/ ClaimEntry(t) \/ PublishBlock(t) \/ UnclaimEntry(t) \/ AddBlockGroup(t)
    \/ DeleteLocalPool(t)
    \/ \E i \in 1..Len(rpHeld) : ReturnId(t, i)

RpSpec == RpInit /\ [][RpNext]_rpVars

---------------------------------------------------------------------------

RpTypeOK ==
  /\ \A t \in RpThreads : Len(curFree[t]) <= ChunkNitem /\ rpBlock[t] \in BlockIndexes \cup {NoBlock}
  /\ publishedBlocks \subseteq BlockIndexes /\ nitem \in [BlockIndexes -> 0..BlockNitem]
  /\ Len(nblock) <= MaxNgroup
  /\ rpAt \in [RpThreads -> {"idle", "claim", "publish", "added", "unclaim", "grow", "again"}]

\* address_resource(id) finds the object.
Addressable(id) ==
  LET b == id \div BlockNitem IN b \in publishedBlocks /\ id - (b * BlockNitem) < nitem[b]

AllIds == FoldLeft(LAMBDA s, c : s \o c, rpHeld, freeChunks)
          \o FoldSet(LAMBDA t, s : s \o curFree[t], <<>>, RpThreads)

\* Every identifier is in one place: with one owner or in one free list, so two callers
\* never share an object, whichever threads got and returned it, however their additions
\* of blocks and groups interleave, and whoever exited; every identifier that was made is
\* in some place, address_resource() finds it, and no two threads fill one block
\* (src/src-bthread/butil/resource_pool_inl.h:168-242, 260-279, 392-442, 514-546).
ResourcesApart ==
  /\ IsInjective(AllIds)
  /\ ToSet(AllIds) = {id \in 0..(NoBlock * BlockNitem) - 1 : Addressable(id)}
  /\ \A t, u \in RpThreads : t # u /\ rpBlock[t] # NoBlock => rpBlock[t] # rpBlock[u]
=============================================================================
