------------------------------ MODULE AbaList ------------------------------
(***************************************************************************)
(* ListOfABAFreeId (src/src-bthread/list_of_abafree_id.h), the container   *)
(* behind bthread_id_list and the list of stoppable bthreads: blocks of    *)
(* ids, where an id that no longer exists leaves its position free.  The   *)
(* list is used by one thread at a time; ids come and go between calls.    *)
(***************************************************************************)
EXTENDS Naturals, Sequences, SequencesExt

CONSTANTS
  BlockSize,      \* IdTraits::BLOCK_SIZE
  MaxEntries,     \* IdTraits::MAX_ENTRIES
  InitGcSize,     \* IdTraits::INIT_GC_SIZE
  MaxIds          \* bound: ids ever added

ASSUME AbaAssumption ==
  /\ BlockSize \in Nat /\ BlockSize >= 4 /\ MaxIds \in Nat
  /\ MaxEntries \in Nat /\ MaxEntries > 2 * BlockSize /\ InitGcSize \in Nat

VARIABLES
  blocks,         \* the list of blocks, head first; 0 is ID_INIT
  curBlock, curIndex, nextGc,
  added,          \* ids passed to add() so far
  exists,         \* the ones that still exist
  listed,         \* history: the ones for which add() returned 0
  passedOver      \* history: of those, the ones whose add() collected instead

abaVars == <<blocks, curBlock, curIndex, nextGc, added, exists, listed, passedOver>>

EmptyBlock == [i \in 1..BlockSize |-> 0]

AbaInit ==
  /\ blocks = <<EmptyBlock>> /\ curBlock = 1 /\ curIndex = 1 /\ nextGc = InitGcSize
  /\ added = 0 /\ exists = {} /\ listed = {} /\ passedOver = {}

\* forward_index() over a list bs: the position after <<b, i>>.
ForwardIndex(bs, pos) ==
  CASE pos[2] < BlockSize -> <<pos[1], pos[2] + 1>>
    [] pos[2] = BlockSize /\ pos[1] < Len(bs) -> <<pos[1] + 1, 1>>
    [] OTHER -> <<1, 1>>

Cur == <<curBlock, curIndex>>
At(bs, pos) == bs[pos[1]][pos[2]]
Put(bs, pos, id) == [bs EXCEPT ![pos[1]][pos[2]] = id]

\* The four positions a call looks at, and the position after them.
Pos2 == ForwardIndex(blocks, Cur)
Pos3 == ForwardIndex(blocks, Pos2)
Pos4 == ForwardIndex(blocks, Pos3)
After == ForwardIndex(blocks, Pos4)
Scanned == <<Cur, Pos2, Pos3, Pos4>>

IsFree(pos) == At(blocks, pos) = 0 \/ At(blocks, pos) \notin exists
FreeScanned == {i \in 1..4 : IsFree(Scanned[i])}

Id == added + 1
Adding == added < MaxIds /\ added' = Id /\ exists' = exists \cup {Id}
Moved(pos) == curBlock' = pos[1] /\ curIndex' = pos[2]
Crowded == FreeScanned = {}

AddInPlace ==
  /\ Adding /\ ~Crowded
  /\ LET i == CHOOSE i \in FreeScanned : \A j \in FreeScanned : i <= j IN
     /\ blocks' = Put(blocks, Scanned[i], Id)
     /\ Moved(ForwardIndex(blocks, Scanned[i]))
  /\ listed' = listed \cup {Id}
  /\ UNCHANGED <<nextGc, passedOver>>

AtLimit == Len(blocks) * BlockSize > MaxEntries
WantsGc == Len(blocks) * BlockSize > nextGc

\* EAGAIN, or ENOMEM for the new block.
AddFails ==
  /\ Adding /\ Crowded /\ (AtLimit \/ ~WantsGc)
  /\ Moved(After)
  /\ UNCHANGED <<blocks, nextGc, listed, passedOver>>

---------------------------------------------------------------------------
(* Splitting a crowded block: what follows the four ids moves to a new     *)
(* block, and the four ids are spread with a free position after each.     *)

\* Mutant: the part that moves is not cleared in the old block.
KeptMutant(block, at) == block
Kept(block, at) == [i \in 1..BlockSize |-> IF i < at THEN block[i] ELSE 0]
MovedOut(block, at) == [i \in 1..BlockSize |-> IF i < at THEN 0 ELSE block[i]]

Split ==
  LET b == blocks[After[1]] IN
  SubSeq(blocks, 1, After[1] - 1)
    \o <<Kept(b, After[2]), MovedOut(b, After[2])>>
    \o SubSeq(blocks, After[1] + 1, Len(blocks))

\* Positions keep their place in Split up to After's block; later blocks shift by one.
Shift(pos) == IF pos[1] > After[1] THEN <<pos[1] + 1, pos[2]>> ELSE pos

AddWithNewBlock ==
  LET s0 == Split
      p2 == Shift(Pos2)  p3 == Shift(Pos3)  p4 == Shift(Pos4)
      s1 == Put(s0, After, At(s0, p3))
      s2 == Put(s1, p3, At(s1, p2))
      s3 == Put(s2, p2, 0)
      q1 == ForwardIndex(s0, ForwardIndex(s0, After))
      s4 == Put(s3, q1, At(s3, p4))
      s5 == Put(s4, p4, 0)
      q2 == ForwardIndex(s0, q1)
  IN
  /\ Adding /\ Crowded /\ ~AtLimit /\ ~WantsGc
  /\ blocks' = Put(s5, q2, Id)
  /\ Moved(ForwardIndex(s0, q2))
  /\ listed' = listed \cup {Id}
  /\ UNCHANGED <<nextGc, passedOver>>

---------------------------------------------------------------------------
(* gc(): rebuild the list from the ids that exist, a free position after   *)
(* each.  The call returns what gc() returned, 0 when it succeeds, and its  *)
(* own id is nowhere.                                                      *)

Flat == FlattenSeq(blocks)
Existing == SelectSeq(Flat, LAMBDA id : id # 0 /\ id \in exists)

\* Mutant: gc() forgets the last of the ids.
SurvivorsMutant == IF Existing = <<>> THEN <<>> ELSE Front(Existing)
Survivors == Existing

Compacted ==
  LET n == 2 * Len(Survivors)
      nblock == (n \div BlockSize) + 1
      entry(k) == IF k <= n /\ k % 2 = 1 THEN Survivors[(k + 1) \div 2] ELSE 0
  IN [b \in 1..nblock |-> [i \in 1..BlockSize |-> entry((b - 1) * BlockSize + i)]]

NextGc(freed) ==
  IF freed * BlockSize >= nextGc - (nextGc \div 4) THEN nextGc
  ELSE IF 2 * nextGc >= MaxEntries THEN MaxEntries - 2 * BlockSize ELSE 2 * nextGc

AddCollects ==
  /\ Adding /\ Crowded /\ ~AtLimit /\ WantsGc
  /\ blocks' = <<EmptyBlock>> \o Compacted
  /\ Moved(<<Len(blocks'), ((2 * Len(Survivors)) % BlockSize) + 1>>)
  \* uint32_t: a list that grew counts as a huge number of freed blocks
  /\ nextGc' = IF Len(blocks') > Len(blocks) THEN nextGc ELSE NextGc(Len(blocks) - Len(blocks'))
  /\ listed' = listed \cup {Id} /\ passedOver' = passedOver \cup {Id}

\* No memory for a block of the new list: the old one stays.
AddCollectsFails ==
  /\ Adding /\ Crowded /\ ~AtLimit /\ WantsGc
  /\ Moved(After)
  /\ nextGc' = NextGc(0)
  /\ UNCHANGED <<blocks, listed, passedOver>>

IdEnds(id) ==
  /\ id \in exists /\ exists' = exists \ {id}
  /\ UNCHANGED <<blocks, curBlock, curIndex, nextGc, added, listed, passedOver>>

AbaNext ==
  \/ AddInPlace \/ AddFails \/ AddWithNewBlock \/ AddCollects \/ AddCollectsFails
  \/ \E id \in exists : IdEnds(id)

AbaSpec == AbaInit /\ [][AbaNext]_abaVars

---------------------------------------------------------------------------

AbaTypeOK ==
  /\ \A b \in 1..Len(blocks) : blocks[b] \in [1..BlockSize -> 0..MaxIds]
  /\ curBlock \in 1..Len(blocks) /\ curIndex \in 1..BlockSize
  /\ listed \subseteq 1..added /\ exists \subseteq 1..added /\ passedOver \subseteq listed

\* apply() calls its function once for every id that add() put in the list and that still
\* exists, and for nothing else, however the blocks were reused, split, scattered and
\* compacted on the way.  An id is missed only when its own add() collected: that call
\* returns 0 and drops it (src/src-bthread/list_of_abafree_id.h:148-327).
AppliedOnce ==
  /\ ToSet(Existing) = (listed \ passedOver) \cap exists
  /\ \A i, j \in 1..Len(Existing) : Existing[i] = Existing[j] => i = j

\* "Add an identifier into the list." and "Apply fn(id) to all identifiers."
\* (src/src-bthread/list_of_abafree_id.h:73-76): apply() reaches every existing id for
\* which add() returned 0.
AddedIsApplied == listed \cap exists \subseteq ToSet(Existing)
=============================================================================
