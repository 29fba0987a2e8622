---------------------------- MODULE VersionedRef ----------------------------
(***************************************************************************)
(* The life of one pooled slot managed by VersionedRefWithId<T>            *)
(* (inc/versioned_ref_with_id.h).  FastRdmaEndpoint and IOEventData derive *)
(* from it: every callback and every worker thread of the endpoint reaches *)
(* the object through an id and a counted reference, never through a bare  *)
(* pointer.                                                                *)
(*                                                                         *)
(* The 64-bit word _versioned_ref is the pair <<ver, nref>>; one action is *)
(* one atomic access to it (or to _additional_ref_status), so that the     *)
(* threads interleave as the hardware lets them.  An id is represented by  *)
(* its version, because the slot is fixed.  An even version is the         *)
(* addressable one (or a free slot), the odd one above it means SetFailed. *)
(*                                                                         *)
(* A thread owns at most one reference at a time: a caller that owns two   *)
(* is two threads here.                                                    *)
(***************************************************************************)
EXTENDS Integers, FiniteSets

CONSTANTS
    Threads,       \* the threads that use the slot
    MaxCreate,     \* bound: the generations of the slot that are explored
    CleanRelease,  \* TRUE: holders may call ReleaseAdditionalReference directly
    WithRevive,    \* TRUE: a holder of a failed object may call Revive
    AtLeastNref    \* the argument of Revive

ASSUME ThreadsAssumption == IsFiniteSet(Threads)
ASSUME BoundAssumption == MaxCreate \in Nat
ASSUME FlagAssumption == CleanRelease \in BOOLEAN /\ WithRevive \in BOOLEAN
\* Revive's CHECK_EQ(1, nref) only makes sense for a caller that asks for two.
ASSUME ReviveAssumption == AtLeastNref = 2

VARIABLES
    ver, nref,   \* the two halves of _versioned_ref
    thisId,      \* the version encoded in _this_id
    addStatus,   \* _additional_ref_status
    free,        \* the slot is in the resource pool
    ids,         \* the ids Create has handed out
    refpc,          \* where each thread is in the code
    held,        \* does the thread own a reference (a unique_ptr)?
    hid,         \* the id through which it obtained the reference
    v, n,        \* a snapshot of _versioned_ref in a local variable
    target       \* the version a pending recycling CAS would install

refVars == <<ver, nref, thisId, addStatus, free, ids, refpc, held, hid, v, n, target>>

Statuses == {"USING", "REVIVING", "RECYCLED"}

PCs == {"ready", "createAdd", "createInit", "onCreated", "addrSub", "addrCas",
        "sfLoad", "sfCas", "onFailed", "relAdd", "relDeref", "derefCas",
        "rvMark", "rvCas", "rvDone", "recycling", "check_failed"}

RefTypeOK ==
    /\ ver \in Nat /\ nref \in Int /\ thisId \in Nat
    /\ addStatus \in Statuses
    /\ free \in BOOLEAN
    /\ ids \subseteq Nat
    /\ refpc \in [Threads -> PCs]
    /\ held \in [Threads -> BOOLEAN]
    /\ hid \in [Threads -> Nat]
    /\ v \in [Threads -> Nat]
    /\ n \in [Threads -> Int]
    /\ target \in [Threads -> Nat]

\* The constructor: version 0, no reference, status USING; the slot is pooled.
RefInit ==
    /\ ver = 0 /\ nref = 0 /\ thisId = 0
    /\ addStatus = "USING"
    /\ free = TRUE
    /\ ids = {}
    /\ refpc = [t \in Threads |-> "ready"]
    /\ held = [t \in Threads |-> FALSE]
    /\ hid = [t \in Threads |-> 0]
    /\ v = [t \in Threads |-> 0]
    /\ n = [t \in Threads |-> 0]
    /\ target = [t \in Threads |-> 0]

RefGoto(t, l) == refpc' = [refpc EXCEPT ![t] = l]

-----------------------------------------------------------------------------
(* Create *)

\* get_resource: the pool hands the slot out.
CreateGet(t) ==
    /\ refpc[t] = "ready" /\ ~held[t]
    /\ free /\ ver < 2 * MaxCreate
    /\ free' = FALSE
    /\ RefGoto(t, "createAdd")
    /\ UNCHANGED <<ver, nref, thisId, addStatus, ids, held, hid, v, n, target>>

\* The additional reference; the count may be non-zero because of stale Address calls.
CreateAdd(t) ==
    /\ refpc[t] = "createAdd"
    /\ nref' = nref + 1
    /\ v' = [v EXCEPT ![t] = ver]
    /\ RefGoto(t, "createInit")
    /\ UNCHANGED <<ver, thisId, addStatus, free, ids, held, hid, n, target>>

CreateInit(t) ==
    /\ refpc[t] = "createInit"
    /\ thisId' = v[t]
    /\ addStatus' = "USING"
    /\ RefGoto(t, "onCreated")
    /\ UNCHANGED <<ver, nref, free, ids, held, hid, v, n, target>>

\* T::OnCreated succeeds: the id becomes known to the callers.
CreateDone(t) ==
    /\ refpc[t] = "onCreated"
    /\ ids' = ids \union {thisId}
    /\ RefGoto(t, "ready")
    /\ UNCHANGED <<ver, nref, thisId, addStatus, free, held, hid, v, n, target>>

\* T::OnCreated fails: Create calls SetFailed and returns -1.
CreateFailed(t) ==
    /\ refpc[t] = "onCreated"
    /\ RefGoto(t, "sfLoad")
    /\ UNCHANGED <<ver, nref, thisId, addStatus, free, ids, held, hid, v, n, target>>

-----------------------------------------------------------------------------
(* Address, AddressFailedAsWell, ReAddress *)

\* AddressImpl's fetch_add and its two successful returns.
Address(t, id, failedAsWell) ==
    /\ refpc[t] = "ready" /\ ~held[t]
    /\ nref' = nref + 1
    /\ \/ /\ ver = id \/ (failedAsWell /\ ver = id + 1)
          /\ held' = [held EXCEPT ![t] = TRUE]
          /\ hid' = [hid EXCEPT ![t] = id]
          /\ UNCHANGED <<refpc, v>>
       \/ /\ ver # id /\ ~(failedAsWell /\ ver = id + 1)
          /\ v' = [v EXCEPT ![t] = ver]
          /\ RefGoto(t, "addrSub")
          /\ UNCHANGED <<held, hid>>
    /\ UNCHANGED <<ver, thisId, addStatus, free, ids, n, target>>

\* Mutant: the version that may have advanced meanwhile is not accepted.
AddrSubNextMutantStrict(t) ==
    IF nref > 1 THEN "ready"
    ELSE IF nref < 1 THEN "check_failed"
    ELSE IF ver % 2 = 0 THEN "ready"
    ELSE IF v[t] = ver THEN "addrCas" ELSE "check_failed"

\* Mutant: a stale Address leaves the recycling to others.
AddrSubNextMutantPassive(t) == IF nref < 1 THEN "check_failed" ELSE "ready"

\* What AddressImpl makes of the word its fetch_sub returned.
AddrSubNext(t) ==
    IF nref > 1 THEN "ready"
    ELSE IF nref < 1 THEN "check_failed"
    ELSE IF ver % 2 = 0 THEN "ready"          \* addressed a free slot
    ELSE IF v[t] = ver \/ v[t] + 1 = ver THEN "addrCas" ELSE "check_failed"

\* The version did not match: give the reference back.
AddrSub(t) ==
    /\ refpc[t] = "addrSub"
    /\ nref' = nref - 1
    /\ RefGoto(t, AddrSubNext(t))
    /\ v' = [v EXCEPT ![t] = ver]
    /\ target' = [target EXCEPT ![t] = ver + 1]
    /\ UNCHANGED <<ver, thisId, addStatus, free, ids, held, hid, n>>

\* Mutant: the worker is handed the pointer without a reference.
ReAddressMutantUncounted(t, u) ==
    /\ refpc[t] = "ready" /\ held[t]
    /\ refpc[u] = "ready" /\ ~held[u]
    /\ held' = [held EXCEPT ![u] = TRUE]
    /\ hid' = [hid EXCEPT ![u] = thisId]
    /\ UNCHANGED <<ver, nref, thisId, addStatus, free, ids, refpc, v, n, target>>

\* A holder takes one more reference for the worker thread u it starts.
ReAddress(t, u) ==
    /\ refpc[t] = "ready" /\ held[t]
    /\ refpc[u] = "ready" /\ ~held[u]
    /\ nref' = nref + 1
    /\ held' = [held EXCEPT ![u] = TRUE]
    /\ hid' = [hid EXCEPT ![u] = thisId]
    /\ UNCHANGED <<ver, thisId, addStatus, free, ids, refpc, v, n, target>>

-----------------------------------------------------------------------------
(* SetFailed and the additional reference *)

SetFailed(t) ==
    /\ refpc[t] = "ready" /\ held[t]
    /\ RefGoto(t, "sfLoad")
    /\ UNCHANGED <<ver, nref, thisId, addStatus, free, ids, held, hid, v, n, target>>

SetFailedLoad(t) ==
    /\ refpc[t] = "sfLoad"
    /\ v' = [v EXCEPT ![t] = ver]
    /\ n' = [n EXCEPT ![t] = nref]
    /\ RefGoto(t, "sfCas")
    /\ UNCHANGED <<ver, nref, thisId, addStatus, free, ids, held, hid, target>>

\* Mutant: a plain store instead of the CAS.
SetFailedCasMutantStore(t) ==
    /\ refpc[t] = "sfCas"
    /\ \/ /\ v[t] # thisId
          /\ RefGoto(t, "ready")
          /\ UNCHANGED ver
       \/ /\ v[t] = thisId
          /\ ver' = thisId + 1
          /\ RefGoto(t, "onFailed")
    /\ UNCHANGED <<nref, thisId, addStatus, free, ids, held, hid, v, n, target>>

\* Mutant: the failed version lies below the addressable one.
SetFailedCasMutantBelow(t) ==
    /\ refpc[t] = "sfCas" /\ v[t] = thisId /\ <<ver, nref>> = <<v[t], n[t]>>
    /\ ver' = thisId - 1
    /\ RefGoto(t, "onFailed")
    /\ UNCHANGED <<nref, thisId, addStatus, free, ids, held, hid, v, n, target>>

\* One round of the loop: already failed, or the CAS succeeds, or it reloads.
SetFailedCas(t) ==
    /\ refpc[t] = "sfCas"
    /\ \/ /\ v[t] # thisId
          /\ RefGoto(t, "ready")
          /\ UNCHANGED <<ver, v, n>>
       \/ /\ v[t] = thisId /\ <<ver, nref>> = <<v[t], n[t]>>
          /\ ver' = thisId + 1
          /\ RefGoto(t, "onFailed")
          /\ UNCHANGED <<v, n>>
       \/ /\ v[t] = thisId /\ <<ver, nref>> # <<v[t], n[t]>>
          /\ v' = [v EXCEPT ![t] = ver]
          /\ n' = [n EXCEPT ![t] = nref]
          /\ UNCHANGED <<ver, refpc>>
    /\ UNCHANGED <<nref, thisId, addStatus, free, ids, held, hid, target>>

\* T::OnFailed returns.
OnFailedDone(t) ==
    /\ refpc[t] = "onFailed"
    /\ RefGoto(t, "relAdd")
    /\ UNCHANGED <<ver, nref, thisId, addStatus, free, ids, held, hid, v, n, target>>

\* A holder calls ReleaseAdditionalReference without SetFailed.
ReleaseDirect(t) ==
    /\ CleanRelease
    /\ refpc[t] = "ready" /\ held[t]
    /\ RefGoto(t, "relAdd")
    /\ UNCHANGED <<ver, nref, thisId, addStatus, free, ids, held, hid, v, n, target>>

\* Mutant: a caller does not wait for a running Revive.
ReleaseAdditionalReferenceMutantNoWait(t) ==
    /\ refpc[t] = "relAdd"
    /\ IF addStatus # "RECYCLED"
       THEN addStatus' = "RECYCLED" /\ RefGoto(t, "relDeref")
       ELSE RefGoto(t, "ready") /\ UNCHANGED addStatus
    /\ UNCHANGED <<ver, nref, thisId, free, ids, held, hid, v, n, target>>

\* Mutant: the status is not consulted.
ReleaseAdditionalReferenceMutantAlways(t) ==
    /\ refpc[t] = "relAdd"
    /\ addStatus' = "RECYCLED"
    /\ RefGoto(t, "relDeref")
    /\ UNCHANGED <<ver, nref, thisId, free, ids, held, hid, v, n, target>>

\* The status CAS; while it is REVIVING the thread yields and tries again.
ReleaseAdditionalReference(t) ==
    /\ refpc[t] = "relAdd"
    /\ \/ /\ addStatus = "USING"
          /\ addStatus' = "RECYCLED"
          /\ RefGoto(t, "relDeref")
       \/ /\ addStatus = "RECYCLED"
          /\ RefGoto(t, "ready")
          /\ UNCHANGED addStatus
    /\ UNCHANGED <<ver, nref, thisId, free, ids, held, hid, v, n, target>>

-----------------------------------------------------------------------------
(* Dereference *)

\* What Dereference makes of the word its fetch_sub returned.
DerefNext ==
    IF nref > 1 THEN "ready"
    ELSE IF nref = 1 /\ (ver = thisId \/ ver = thisId + 1) THEN "derefCas"
    ELSE "check_failed"

\* Mutant: the recycled slot gets its old version back.
DereferenceMutantSameVersion(t) ==
    /\ nref' = nref - 1
    /\ RefGoto(t, DerefNext)
    /\ v' = [v EXCEPT ![t] = ver]
    /\ target' = [target EXCEPT ![t] = thisId]
    /\ UNCHANGED <<ver, thisId, addStatus, free, ids, hid, n>>

Dereference(t) ==
    /\ nref' = nref - 1
    /\ RefGoto(t, DerefNext)
    /\ v' = [v EXCEPT ![t] = ver]
    /\ target' = [target EXCEPT ![t] = thisId + 2]
    /\ UNCHANGED <<ver, thisId, addStatus, free, ids, hid, n>>

\* The unique_ptr of a holder goes out of scope.
Release(t) ==
    /\ refpc[t] = "ready" /\ held[t]
    /\ held' = [held EXCEPT ![t] = FALSE]
    /\ Dereference(t)

\* The additional reference is released.
ReleaseAdditionalDeref(t) ==
    /\ refpc[t] = "relDeref"
    /\ Dereference(t)
    /\ UNCHANGED held

\* Mutant: the claim compares the version only, not the count.
RecycleCasMutantVersionOnly(t) ==
    /\ refpc[t] \in {"derefCas", "addrCas"}
    /\ \/ /\ ver = v[t]
          /\ ver' = target[t]
          /\ RefGoto(t, "recycling")
       \/ /\ ver # v[t]
          /\ RefGoto(t, "ready")
          /\ UNCHANGED ver
    /\ UNCHANGED <<nref, thisId, addStatus, free, ids, held, hid, v, n, target>>

\* Mutant: whoever saw the count go from 1 to 0 recycles.
RecycleCasMutantStore(t) ==
    /\ refpc[t] \in {"derefCas", "addrCas"}
    /\ ver' = target[t]
    /\ RefGoto(t, "recycling")
    /\ UNCHANGED <<nref, thisId, addStatus, free, ids, held, hid, v, n, target>>

\* The single CAS that may claim the slot after nref went from 1 to 0, in
\* Dereference ("derefCas") and in AddressImpl ("addrCas").
RecycleCas(t) ==
    /\ refpc[t] \in {"derefCas", "addrCas"}
    /\ \/ /\ <<ver, nref>> = <<v[t], 0>>
          /\ ver' = target[t]
          /\ RefGoto(t, "recycling")
       \/ /\ <<ver, nref>> # <<v[t], 0>>
          /\ RefGoto(t, "ready")
          /\ UNCHANGED ver
    /\ UNCHANGED <<nref, thisId, addStatus, free, ids, held, hid, v, n, target>>

\* T::BeforeRecycled has run; return_resource.
ReturnResource(t) ==
    /\ refpc[t] = "recycling"
    /\ free' = TRUE
    /\ RefGoto(t, "ready")
    /\ UNCHANGED <<ver, nref, thisId, addStatus, ids, held, hid, v, n, target>>

-----------------------------------------------------------------------------
(* Revive: nothing in the repository calls it; a caller has to wait until  *)
(* the additional reference is released and must be the only reviver.      *)

Reviving == \E u \in Threads : refpc[u] \in {"rvMark", "rvCas", "rvDone"}

Revive(t) ==
    /\ WithRevive
    /\ refpc[t] = "ready" /\ held[t]
    /\ ver = thisId + 1 /\ addStatus = "RECYCLED" /\ ~Reviving
    /\ v' = [v EXCEPT ![t] = ver]
    /\ n' = [n EXCEPT ![t] = nref]
    /\ RefGoto(t, "rvMark")
    /\ UNCHANGED <<ver, nref, thisId, addStatus, free, ids, held, hid, target>>

ReviveMark(t) ==
    /\ refpc[t] = "rvMark"
    /\ addStatus' = "REVIVING"
    /\ RefGoto(t, "rvCas")
    /\ UNCHANGED <<ver, nref, thisId, free, ids, held, hid, v, n, target>>

\* Mutant: the revived object has no additional reference.
ReviveCasMutantUncounted(t) ==
    /\ refpc[t] = "rvCas"
    /\ \/ /\ n[t] < AtLeastNref
          /\ addStatus' = "RECYCLED"
          /\ RefGoto(t, "ready")
          /\ UNCHANGED <<ver, v, n>>
       \/ /\ n[t] >= AtLeastNref /\ <<ver, nref>> = <<v[t], n[t]>>
          /\ ver' = thisId
          /\ RefGoto(t, "rvDone")
          /\ UNCHANGED <<addStatus, v, n>>
       \/ /\ n[t] >= AtLeastNref /\ <<ver, nref>> # <<v[t], n[t]>>
          /\ v' = [v EXCEPT ![t] = ver]
          /\ n' = [n EXCEPT ![t] = nref]
          /\ UNCHANGED <<ver, addStatus, refpc>>
    /\ UNCHANGED <<nref, thisId, free, ids, held, hid, target>>

\* One round of the loop: a CHECK_EQ fails or the object was abandoned, or the
\* CAS makes it addressable again with a new additional reference, or it reloads.
ReviveCas(t) ==
    /\ refpc[t] = "rvCas"
    /\ \/ /\ v[t] # thisId + 1 \/ n[t] < AtLeastNref
          /\ addStatus' = IF v[t] = thisId + 1 THEN "RECYCLED" ELSE addStatus
          /\ RefGoto(t, IF v[t] = thisId + 1 /\ n[t] = 1 THEN "ready" ELSE "check_failed")
          /\ UNCHANGED <<ver, nref, v, n>>
       \/ /\ v[t] = thisId + 1 /\ n[t] >= AtLeastNref
          /\ <<ver, nref>> = <<v[t], n[t]>>
          /\ ver' = thisId /\ nref' = nref + 1
          /\ RefGoto(t, "rvDone")
          /\ UNCHANGED <<addStatus, v, n>>
       \/ /\ v[t] = thisId + 1 /\ n[t] >= AtLeastNref
          /\ <<ver, nref>> # <<v[t], n[t]>>
          /\ v' = [v EXCEPT ![t] = ver]
          /\ n' = [n EXCEPT ![t] = nref]
          /\ UNCHANGED <<ver, nref, addStatus, refpc>>
    /\ UNCHANGED <<thisId, free, ids, held, hid, target>>

ReviveDone(t) ==
    /\ refpc[t] = "rvDone"
    /\ addStatus' = "USING"
    /\ RefGoto(t, "ready")
    /\ UNCHANGED <<ver, nref, thisId, free, ids, held, hid, v, n, target>>

-----------------------------------------------------------------------------

\* One step of thread t in a call the repository makes ...
UsualStep(t) ==
    \/ CreateGet(t) \/ CreateAdd(t) \/ CreateInit(t)
    \/ CreateDone(t) \/ CreateFailed(t)
    \/ \E id \in ids : \E failedAsWell \in BOOLEAN : Address(t, id, failedAsWell)
    \/ AddrSub(t)
    \/ \E u \in Threads : ReAddress(t, u)
    \/ SetFailed(t) \/ SetFailedLoad(t) \/ SetFailedCas(t) \/ OnFailedDone(t)
    \/ ReleaseAdditionalReference(t)
    \/ Release(t) \/ ReleaseAdditionalDeref(t)
    \/ RecycleCas(t) \/ ReturnResource(t)

\* ... and in those the class offers besides.
Step(t) ==
    \/ UsualStep(t)
    \/ ReleaseDirect(t) \/ Revive(t) \/ ReviveMark(t) \/ ReviveCas(t) \/ ReviveDone(t)

RefNext == \E t \in Threads : Step(t)

RefSpec == RefInit /\ [][RefNext]_refVars

-----------------------------------------------------------------------------
(* Properties *)

Recycling(t) == refpc[t] = "recycling"
Creating(t) == refpc[t] \in {"createAdd", "createInit", "onCreated"}

\* Whoever owns a reference uses the object its id named: the slot is not
\* pooled, not being cleaned up by BeforeRecycled, not being reinitialised by
\* Create, and it is still the generation of that id, however late the caller.
HolderSafe ==
    \A t \in Threads : held[t] =>
        /\ ~free
        /\ thisId = hid[t]
        /\ ver \in {thisId, thisId + 1}
        /\ \A u \in Threads : ~Recycling(u) /\ ~Creating(u)

\* The version arbitrates who recycles: at most one thread runs BeforeRecycled
\* and return_resource, never on a slot that is already pooled, and never while
\* SetFailed's OnFailed callback or the release of the additional reference
\* still uses the object.
RecycledOnce ==
    \A t \in Threads : Recycling(t) =>
        /\ ~free
        /\ \A u \in Threads \ {t} :
              ~Recycling(u) /\ refpc[u] \notin {"onFailed", "relAdd", "relDeref"}

\* None of the CHECK(false), CHECK_EQ and LOG(FATAL) branches ("Over
\* dereferenced", "Invalid VRefId", ref-version/unref-version) is reachable.
NoCheckFailure == \A t \in Threads : refpc[t] # "check_failed"

\* T::OnFailed runs once per generation: the thread in the callback is the only
\* one and the version is the failed one.
OneFailer ==
    \A t \in Threads : refpc[t] = "onFailed" =>
        /\ ver = thisId + 1
        /\ \A u \in Threads \ {t} : refpc[u] # "onFailed"

\* "it will be recycled when no one references it": when the count of a slot
\* in use is zero, some thread is recycling it, has just taken it from the
\* pool, or is about to execute the CAS that will claim it.  A CAS that fails
\* because a stale Address interfered is therefore never the last one.
RecycleOwed ==
    (~free /\ nref = 0) =>
        \E t \in Threads :
            \/ Recycling(t) \/ refpc[t] = "createAdd"
            \/ refpc[t] \in {"derefCas", "addrCas"} /\ v[t] = ver

\* The references that are outstanding: the holders, the threads inside an
\* operation that carries one, and the additional reference of a live object.
Holders == {t \in Threads : held[t]}
Carriers == {t \in Threads : refpc[t] \in {"addrSub", "createInit", "relDeref", "rvDone"}}
Live == ~free /\ \A t \in Threads : refpc[t] \notin {"createAdd", "createInit"}
AdditionalRef == IF Live /\ addStatus = "USING" THEN 1 ELSE 0

\* The counter half of _versioned_ref is exact at every instant: it neither
\* loses nor invents a reference across SetFailed, Revive, recycling and reuse
\* of the slot, although stale Address calls keep changing it.
RefCountExact == nref = Cardinality(Holders) + Cardinality(Carriers) + AdditionalRef

\* An id that is not addressable any more never becomes so again: once the
\* version has moved past it, it stays past it (Revive is the one exception).
NeverAddressableAgain == [][\A i \in ids : ver > i => ver' > i]_refVars

\* The promises that survive a Revive(): a holder's object is not recycled, an incarnation is
\* recycled once, no CHECK fails and nref is exactly the references that exist: HolderSafe,
\* RecycledOnce, NoCheckFailure and RefCountExact (src/inc/versioned_ref_with_id.h:587-610).
ReviveSafe == HolderSafe /\ RecycledOnce /\ NoCheckFailure /\ RefCountExact
=============================================================================
