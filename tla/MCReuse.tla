------------------------------- MODULE MCReuse -------------------------------
(***************************************************************************)
(* What is given back and used again, on small instances: the slots of     *)
(* versioned references, write requests, correlation ids, blocks of        *)
(* registered memory and pooled resources.  A behaviour is one of the      *)
(* parts, chosen in the initial state; the variables of the other parts    *)
(* stay as they are.  The threads of the first three are interchangeable.  *)
(***************************************************************************)
EXTENDS VersionedRef, WriteQueue, BthreadId, BlockPool, LargeBlocks, ResourcePool, TLC

CONSTANT PairSize   \* how many threads see all the generations of a slot

Symmetry == Permutations(Threads)

VARIABLES part,
  crew              \* the threads that use the slot of the references
Parts == {"ref", "write_queue", "id", "block_pool", "large_block", "resource_pool"}

\* The variables by group: what a part leaves alone is the rest of its group and the other.
objectVars == <<refVars, vars, idVars>>
memoryVars == <<poolVars, largeVars, rpVars>>
McVars == <<part, crew, objectVars, memoryVars>>

McInit ==
  /\ part \in Parts
  /\ crew \in IF part = "ref" THEN {c \in SUBSET Threads : Cardinality(c) >= PairSize} ELSE {{}}
  /\ RefInit /\ IdInit
  /\ Init /\ (part # "write_queue" => ~hsOk)
  /\ PoolInit /\ LargeInit /\ RpInit

Naming(p, step) == part = p /\ step /\ UNCHANGED <<part, crew, memoryVars>>
Remembering(p, step) == part = p /\ step /\ UNCHANGED <<part, crew, objectVars>>

\* A crew of more than PairSize sees one generation of the slot.
Reused == Cardinality(crew) > PairSize /\ free /\ ver > 0

\* The reference count without Revive and without a direct release: what the constants
\* WithRevive and CleanRelease leave of RefNext when both are FALSE.  MCOwnership has the
\* others.
McNext ==
  \/ Naming("ref", \E t \in crew : UsualStep(t)) /\ (Reused => free') /\ UNCHANGED <<vars, idVars>>
  \/ Naming("write_queue", Next) /\ UNCHANGED <<refVars, idVars>>
  \/ Naming("id", IdNext) /\ UNCHANGED <<refVars, vars>>
  \/ Remembering("block_pool", PoolNext) /\ UNCHANGED <<largeVars, rpVars>>
  \/ Remembering("large_block", LargeNext) /\ UNCHANGED <<poolVars, rpVars>>
  \/ Remembering("resource_pool", RpNext) /\ UNCHANGED <<poolVars, largeVars>>

McSpec == McInit /\ [][McNext]_McVars

-----------------------------------------------------------------------------

\* A part is judged while it moves; the others are in their initial state.
In(p, inv) == part = p => inv

\* The type invariants of the parts.
McTypeOK ==
  /\ In("ref", RefTypeOK) /\ In("write_queue", TypeOK) /\ In("id", IdTypeOK)
  /\ In("block_pool", PoolTypeOK) /\ In("large_block", LargeTypeOK)
  /\ In("resource_pool", RpTypeOK)

\* A block of registered memory, a large block and a slot of a resource pool is either free
\* in one place or in the hands of one user: BlocksApart, LargeBlocksApart and
\* ResourcesApart (src/src-common/fast_block_pool.cc, fast_large_block.cc,
\* src/src-bthread/butil/resource_pool_inl.h).
MemoryApart == /\ In("block_pool", BlocksApart) /\ In("large_block", LargeBlocksApart)
               /\ In("resource_pool", ResourcesApart)
==============================================================================
