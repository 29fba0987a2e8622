------------------------- MODULE VersionedRefProofs -------------------------
(***************************************************************************)
(* Proofs that the invariants of VersionedRef hold for any number of       *)
(* threads and of generations of the slot.                                 *)
(***************************************************************************)
EXTENDS VersionedRef, FiniteSetTheorems, TLAPS

\* A thread that works on the object although it owns no counted reference:
\* Create before the id is handed out, and whoever recycles the slot.
PrivatePCs == {"onCreated", "sfLoad", "sfCas", "onFailed", "relAdd", "relDeref"}
Owner(t) ==
    \/ refpc[t] \in {"createAdd", "createInit", "recycling"}
    \/ ~held[t] /\ refpc[t] \in PrivatePCs

\* Between two generations: the version is even and beyond every issued id.
Gap == free \/ \E t \in Threads : refpc[t] \in {"createAdd", "createInit", "recycling"}

Even(i) == i % 2 = 0

\* Owning the slot excludes every holder and every other owner.
OwnerInv ==
    \A t \in Threads : Owner(t) =>
        /\ ~free
        /\ \A u \in Threads : ~held[u]
        /\ \A u \in Threads : u # t => ~Owner(u)
        /\ refpc[t] \in PrivatePCs \ {"relDeref"} => addStatus = "USING"
        /\ refpc[t] = "recycling" => addStatus # "USING"
        /\ refpc[t] = "createInit" => v[t] = ver

\* A holder owns a reference to the current generation, which is in use.
HolderInv ==
    \A t \in Threads :
        /\ held[t] => ~free /\ thisId = hid[t]
        /\ held[t] => refpc[t] \in (PrivatePCs \ {"onCreated"}) \union {"ready", "rvMark", "rvCas", "rvDone"}
        /\ refpc[t] \in {"rvMark", "rvCas", "rvDone"} => held[t]
        /\ refpc[t] \in PrivatePCs => ~free

\* Where the version stands relative to the ids.
VersionInv ==
    /\ Gap => Even(ver) /\ \A i \in ids : i + 2 <= ver
    /\ ~Gap => /\ Even(thisId)
               /\ ver = thisId \/ ver = thisId + 1
               /\ \A i \in ids : i <= thisId
               /\ (\E t \in Threads : Owner(t)) => \A i \in ids : i + 2 <= thisId
    /\ \A i \in ids : Even(i)

\* What the local snapshots still say about the shared word.
SnapInv ==
    \A t \in Threads :
        /\ refpc[t] = "addrSub" =>
              v[t] = ver \/ (v[t] + 1 = ver /\ ~Even(ver)) \/ (v[t] = ver + 1 /\ Even(ver))
        /\ refpc[t] \in {"derefCas", "addrCas"} =>
              /\ Even(target[t]) /\ v[t] < target[t] /\ target[t] <= v[t] + 2
              /\ target[t] <= IF Gap THEN ver ELSE thisId + 2
        /\ refpc[t] \in {"rvMark", "rvCas"} =>
              ver = thisId + 1 /\ v[t] = thisId + 1 /\ n[t] >= 1

\* The status of the additional reference while somebody revives.
ReviveInv ==
    \A t \in Threads :
        /\ refpc[t] = "rvMark" => addStatus = "RECYCLED"
        /\ refpc[t] \in {"rvCas", "rvDone"} => addStatus = "REVIVING"
        /\ refpc[t] \in {"rvMark", "rvCas", "rvDone"} =>
              \A u \in Threads : refpc[u] \in {"rvMark", "rvCas", "rvDone"} => u = t

\* The inductive invariant of the safety properties.
IInv == /\ RefTypeOK /\ OwnerInv /\ HolderInv /\ VersionInv
        /\ SnapInv /\ ReviveInv /\ RefCountExact /\ NoCheckFailure

\* Without a direct ReleaseAdditionalReference an addressable object keeps its
\* additional reference.
AdditionalInv ==
    /\ ~Gap /\ ver = thisId => addStatus = "USING" \/ \E t \in Threads : refpc[t] = "rvDone"
    /\ \A t \in Threads : refpc[t] \in {"onFailed", "relAdd"} =>
          /\ ver = thisId + 1
          /\ addStatus = "USING" \/ \E u \in Threads : refpc[u] = "rvDone"
          /\ \A u \in Threads : refpc[u] \in {"onFailed", "relAdd"} => u = t

LEMMA EvenFacts ==
  ASSUME NEW a \in Nat, Even(a)
  PROVE  /\ ~Even(a + 1) /\ Even(a + 2)
         /\ \A b \in Nat : Even(b) /\ b > a => b >= a + 2
  BY DEF Even

\* What the exact count says about individual threads.
LEMMA CountFacts ==
  ASSUME RefTypeOK, RefCountExact
  PROVE  /\ IsFiniteSet(Holders) /\ Cardinality(Holders) \in Nat
         /\ IsFiniteSet(Carriers) /\ Cardinality(Carriers) \in Nat
         /\ \A t \in Threads : held[t] => nref >= 1
         /\ \A t \in Threads : t \in Carriers => nref >= 1
         /\ \A t \in Threads : held[t] /\ t \in Carriers => nref >= 2
         /\ nref = 0 => Holders = {} /\ Carriers = {} /\ AdditionalRef = 0
  <1>1. IsFiniteSet(Holders) /\ IsFiniteSet(Carriers)
    BY FS_Subset, ThreadsAssumption, Zenon DEF Holders, Carriers
  <1>2. Cardinality(Holders) \in Nat /\ Cardinality(Carriers) \in Nat
    BY <1>1, FS_CardinalityType, Zenon
  <1>3. /\ Cardinality(Holders) = 0 <=> Holders = {}
        /\ Cardinality(Carriers) = 0 <=> Carriers = {}
    BY <1>1, FS_EmptySet, Zenon
  <1>4. AdditionalRef \in {0, 1}
    BY Zenon DEF AdditionalRef
  <1>5. \A t \in Threads : held[t] => Holders # {}
    BY Zenon DEF Holders
  <1>. QED BY <1>1, <1>2, <1>3, <1>4, <1>5 DEF RefCountExact, RefTypeOK

LEMMA CreateGetStep ==
  ASSUME IInv, NEW t \in Threads, CreateGet(t)
  PROVE  IInv'
  <1> USE DEF CreateGet, RefGoto
  <1>1. RefTypeOK'
    BY Zenon DEF IInv, RefTypeOK, PCs, Statuses
  <1>2. OwnerInv'
    BY Zenon DEF IInv, RefTypeOK, OwnerInv, HolderInv, Owner, PrivatePCs, PCs
  <1>3. HolderInv'
    BY Zenon DEF IInv, RefTypeOK, OwnerInv, HolderInv, Owner, PrivatePCs, PCs
  <1>4. VersionInv'
    BY EvenFacts, Zenon DEF IInv, RefTypeOK, OwnerInv, HolderInv, VersionInv, Gap, Owner, PrivatePCs
  <1>5. SnapInv'
    BY EvenFacts, Zenon DEF IInv, RefTypeOK, OwnerInv, HolderInv, VersionInv, SnapInv, Gap, Owner, PrivatePCs
  <1>6. ReviveInv'
    BY Zenon DEF IInv, RefTypeOK, OwnerInv, HolderInv, ReviveInv, Owner, PrivatePCs
  <1>7. RefCountExact'
    <2>1. Holders' = Holders /\ Carriers' = Carriers /\ AdditionalRef' = AdditionalRef
      BY Zenon DEF IInv, RefTypeOK, Holders, Carriers, AdditionalRef, Live
    <2>. QED BY <2>1, Zenon DEF IInv, RefCountExact
  <1>8. NoCheckFailure'
    BY Zenon DEF IInv, RefTypeOK, NoCheckFailure
  <1>. QED BY <1>1, <1>2, <1>3, <1>4, <1>5, <1>6, <1>7, <1>8, Zenon DEF IInv

LEMMA CreateAddStep ==
  ASSUME IInv, NEW t \in Threads, CreateAdd(t)
  PROVE  IInv'
  <1> USE DEF CreateAdd, RefGoto
  <1>1. RefTypeOK'
    BY DEF IInv, RefTypeOK, PCs, Statuses
  <1>2. OwnerInv'
    BY DEF IInv, RefTypeOK, OwnerInv, HolderInv, Owner, PrivatePCs, PCs
  <1>3. HolderInv'
    BY Zenon DEF IInv, RefTypeOK, OwnerInv, HolderInv, Owner, PrivatePCs, PCs
  <1>4. VersionInv'
    BY EvenFacts, Zenon DEF IInv, RefTypeOK, OwnerInv, HolderInv, VersionInv, Gap, Owner, PrivatePCs
  <1>5. SnapInv'
    BY EvenFacts DEF IInv, RefTypeOK, OwnerInv, HolderInv, VersionInv, SnapInv, Gap, Owner, PrivatePCs
  <1>6. ReviveInv'
    BY DEF IInv, RefTypeOK, OwnerInv, HolderInv, ReviveInv, Owner, PrivatePCs
  <1>7. RefCountExact'
    <2>0. IsFiniteSet(Holders) /\ IsFiniteSet(Carriers) /\ Cardinality(Holders) \in Nat /\ Cardinality(Carriers) \in Nat
      BY CountFacts, Zenon DEF IInv
    <2>1. Holders' = Holders
      BY Zenon DEF IInv, RefTypeOK, Holders
    <2>2. Carriers' = Carriers \union {t} /\ t \notin Carriers
      BY Zenon DEF IInv, RefTypeOK, PCs, Carriers, NoCheckFailure
    <2>3. Cardinality(Carriers') = Cardinality(Carriers) + 1
      BY <2>0, <2>2, FS_AddElement, Zenon
    <2>4. AdditionalRef' = AdditionalRef /\ AdditionalRef \in {0, 1}
      BY Zenon DEF IInv, RefTypeOK, Statuses, AdditionalRef, Live, OwnerInv, HolderInv, ReviveInv, Owner, PrivatePCs
    <2>. QED BY <2>0, <2>1, <2>3, <2>4 DEF IInv, RefTypeOK, RefCountExact
  <1>8. NoCheckFailure'
    BY Zenon DEF IInv, RefTypeOK, NoCheckFailure
  <1>. QED BY <1>1, <1>2, <1>3, <1>4, <1>5, <1>6, <1>7, <1>8, Zenon DEF IInv

LEMMA CreateInitStep ==
  ASSUME IInv, NEW t \in Threads, CreateInit(t)
  PROVE  IInv'
  <1> USE DEF CreateInit, RefGoto
  <1>1. RefTypeOK'
    BY Zenon DEF IInv, RefTypeOK, PCs, Statuses
  <1>2. OwnerInv'
    BY DEF IInv, RefTypeOK, OwnerInv, HolderInv, Owner, PrivatePCs, PCs
  <1>3. HolderInv'
    BY Zenon DEF IInv, RefTypeOK, OwnerInv, HolderInv, Owner, PrivatePCs, PCs
  <1>4. VersionInv'
    BY EvenFacts DEF IInv, RefTypeOK, OwnerInv, HolderInv, VersionInv, Gap, Owner, PrivatePCs
  <1>5. SnapInv'
    BY EvenFacts DEF IInv, RefTypeOK, OwnerInv, HolderInv, VersionInv, SnapInv, Gap, Owner, PrivatePCs
  <1>6. ReviveInv'
    BY DEF IInv, RefTypeOK, OwnerInv, HolderInv, ReviveInv, Owner, PrivatePCs
  <1>7. RefCountExact'
    <2>0. IsFiniteSet(Holders) /\ IsFiniteSet(Carriers) /\ Cardinality(Holders) \in Nat /\ Cardinality(Carriers) \in Nat
      BY CountFacts, Zenon DEF IInv
    <2>1. Holders' = Holders
      BY Zenon DEF IInv, RefTypeOK, Holders
    <2>2. Carriers' = Carriers \ {t} /\ t \in Carriers
      BY Zenon DEF IInv, RefTypeOK, PCs, Carriers, NoCheckFailure
    <2>3. Cardinality(Carriers') = Cardinality(Carriers) - 1
      BY <2>0, <2>2, FS_RemoveElement, Zenon
    <2>4. AdditionalRef = 0 /\ AdditionalRef' = 1
      BY DEF IInv, RefTypeOK, Statuses, AdditionalRef, Live, OwnerInv, HolderInv, ReviveInv, Owner, PrivatePCs
    <2>. QED BY <2>0, <2>1, <2>3, <2>4 DEF IInv, RefTypeOK, RefCountExact
  <1>8. NoCheckFailure'
    BY Zenon DEF IInv, RefTypeOK, NoCheckFailure
  <1>. QED BY <1>1, <1>2, <1>3, <1>4, <1>5, <1>6, <1>7, <1>8, Zenon DEF IInv

LEMMA CreateDoneStep ==
  ASSUME IInv, NEW t \in Threads, CreateDone(t)
  PROVE  IInv'
  <1> USE DEF CreateDone, RefGoto
  <1>1. RefTypeOK'
    BY Zenon DEF IInv, RefTypeOK, PCs, Statuses
  <1>2. OwnerInv'
    BY DEF IInv, RefTypeOK, OwnerInv, HolderInv, Owner, PrivatePCs, PCs
  <1>3. HolderInv'
    BY Zenon DEF IInv, RefTypeOK, OwnerInv, HolderInv, Owner, PrivatePCs, PCs
  <1>4. VersionInv'
    BY EvenFacts DEF IInv, RefTypeOK, OwnerInv, HolderInv, VersionInv, Gap, Owner, PrivatePCs
  <1>5. SnapInv'
    BY EvenFacts DEF IInv, RefTypeOK, OwnerInv, HolderInv, VersionInv, SnapInv, Gap, Owner, PrivatePCs
  <1>6. ReviveInv'
    BY DEF IInv, RefTypeOK, OwnerInv, HolderInv, ReviveInv, Owner, PrivatePCs
  <1>7. RefCountExact'
    <2>1. Holders' = Holders /\ Carriers' = Carriers /\ AdditionalRef' = AdditionalRef
      BY Zenon DEF IInv, RefTypeOK, Holders, Carriers, AdditionalRef, Live
    <2>. QED BY <2>1, Zenon DEF IInv, RefCountExact
  <1>8. NoCheckFailure'
    BY Zenon DEF IInv, RefTypeOK, NoCheckFailure
  <1>. QED BY <1>1, <1>2, <1>3, <1>4, <1>5, <1>6, <1>7, <1>8, Zenon DEF IInv

LEMMA CreateFailedStep ==
  ASSUME IInv, NEW t \in Threads, CreateFailed(t)
  PROVE  IInv'
  <1> USE DEF CreateFailed, RefGoto
  <1>1. RefTypeOK'
    BY Zenon DEF IInv, RefTypeOK, PCs, Statuses
  <1>2. OwnerInv'
    BY DEF IInv, RefTypeOK, OwnerInv, HolderInv, Owner, PrivatePCs, PCs
  <1>3. HolderInv'
    BY Zenon DEF IInv, RefTypeOK, OwnerInv, HolderInv, Owner, PrivatePCs, PCs
  <1>4. VersionInv'
    BY EvenFacts DEF IInv, RefTypeOK, OwnerInv, HolderInv, VersionInv, Gap, Owner, PrivatePCs
  <1>5. SnapInv'
    BY EvenFacts DEF IInv, RefTypeOK, OwnerInv, HolderInv, VersionInv, SnapInv, Gap, Owner, PrivatePCs
  <1>6. ReviveInv'
    BY DEF IInv, RefTypeOK, OwnerInv, HolderInv, ReviveInv, Owner, PrivatePCs
  <1>7. RefCountExact'
    <2>1. Holders' = Holders /\ Carriers' = Carriers /\ AdditionalRef' = AdditionalRef
      BY Zenon DEF IInv, RefTypeOK, Holders, Carriers, AdditionalRef, Live
    <2>. QED BY <2>1, Zenon DEF IInv, RefCountExact
  <1>8. NoCheckFailure'
    BY Zenon DEF IInv, RefTypeOK, NoCheckFailure
  <1>. QED BY <1>1, <1>2, <1>3, <1>4, <1>5, <1>6, <1>7, <1>8, Zenon DEF IInv

LEMMA AddressStep ==
  ASSUME IInv, NEW t \in Threads, NEW id \in ids, NEW failedAsWell \in BOOLEAN, Address(t, id, failedAsWell)
  PROVE  IInv'
  <1> USE DEF Address, RefGoto
  <1>a. id \in Nat /\ thisId \in Nat
    BY Zenon DEF IInv, RefTypeOK
  <1>b. CASE ver = id \/ (failedAsWell /\ ver = id + 1)
    <2>0. /\ nref' = nref + 1
          /\ held' = [held EXCEPT ![t] = TRUE] /\ hid' = [hid EXCEPT ![t] = id]
          /\ UNCHANGED <<ver, thisId, addStatus, free, ids, refpc, v, n, target>>
          /\ refpc[t] = "ready" /\ ~held[t]
      BY <1>b, Zenon
    \* The version can only match an issued id inside that id's own generation.
    <2>a. ~Gap /\ id = thisId /\ \A u \in Threads : ~Owner(u)
      <3>1. ver = id \/ ver = id + 1
        BY <1>b, Zenon
      <3>2. ~Gap
        BY <3>1, <1>a DEF IInv, VersionInv, RefTypeOK
      <3>3. Even(id) /\ Even(thisId) /\ id <= thisId /\ (ver = thisId \/ ver = thisId + 1)
        BY <3>2, Zenon DEF IInv, VersionInv
      <3>4. id = thisId
        BY <3>1, <3>3, <1>a, EvenFacts DEF IInv, RefTypeOK
      <3>. QED BY <3>2, <3>4, <1>a DEF IInv, VersionInv
    <2>b. ~free
      BY <2>a, Zenon DEF Gap
    <2> HIDE DEF Address
    <2>1. RefTypeOK'
      BY <2>0, <1>a DEF IInv, RefTypeOK
    <2>2. OwnerInv'
      BY <2>0, <2>a, Zenon DEF IInv, RefTypeOK, OwnerInv, Owner, PrivatePCs
    <2>3. HolderInv'
      BY <2>0, <2>a, <2>b, Zenon DEF IInv, RefTypeOK, HolderInv
    <2>4. VersionInv'
      BY <2>0, <2>a, Zenon DEF IInv, RefTypeOK, VersionInv, Gap, Owner, PrivatePCs
    <2>5. SnapInv' /\ ReviveInv' /\ NoCheckFailure'
      BY <2>0, Zenon DEF IInv, RefTypeOK, SnapInv, ReviveInv, NoCheckFailure, Gap
    <2>6. RefCountExact'
      <3>0. IsFiniteSet(Holders) /\ Cardinality(Holders) \in Nat /\ Cardinality(Carriers) \in Nat
        BY CountFacts, Zenon DEF IInv
      <3>1. Holders' = Holders \union {t} /\ t \notin Holders
        BY <2>0, Zenon DEF IInv, RefTypeOK, Holders
      <3>2. Cardinality(Holders') = Cardinality(Holders) + 1
        BY <3>0, <3>1, FS_AddElement, Zenon
      <3>3. Carriers' = Carriers /\ AdditionalRef' = AdditionalRef /\ AdditionalRef \in {0, 1}
        BY <2>0, Zenon DEF Carriers, AdditionalRef, Live
      <3>. QED BY <2>0, <3>0, <3>2, <3>3 DEF IInv, RefTypeOK, RefCountExact
    <2>. QED BY <2>1, <2>2, <2>3, <2>4, <2>5, <2>6, Zenon DEF IInv
  <1>c. CASE ver # id /\ ~(failedAsWell /\ ver = id + 1)
    <2>0. /\ nref' = nref + 1
          /\ v' = [v EXCEPT ![t] = ver] /\ refpc' = [refpc EXCEPT ![t] = "addrSub"]
          /\ UNCHANGED <<ver, thisId, addStatus, free, ids, held, hid, n, target>>
          /\ refpc[t] = "ready" /\ ~held[t]
      BY <1>c, Zenon
    <2> HIDE DEF Address
    <2>1. RefTypeOK'
      BY <2>0 DEF IInv, RefTypeOK, PCs
    <2>2. OwnerInv' /\ HolderInv'
      BY <2>0 DEF IInv, RefTypeOK, OwnerInv, HolderInv, Owner, PrivatePCs
    <2>3. VersionInv'
      BY <2>0, Zenon DEF IInv, RefTypeOK, VersionInv, Gap, Owner, PrivatePCs
    <2>4. SnapInv'
      BY <2>0, Zenon DEF IInv, RefTypeOK, SnapInv, Gap
    <2>5. ReviveInv' /\ NoCheckFailure'
      BY <2>0 DEF IInv, RefTypeOK, ReviveInv, NoCheckFailure
    <2>6. RefCountExact'
      <3>0. IsFiniteSet(Carriers) /\ Cardinality(Holders) \in Nat /\ Cardinality(Carriers) \in Nat
        BY CountFacts, Zenon DEF IInv
      <3>1. Carriers' = Carriers \union {t} /\ t \notin Carriers
        BY <2>0, Zenon DEF IInv, RefTypeOK, Carriers
      <3>2. Cardinality(Carriers') = Cardinality(Carriers) + 1
        BY <3>0, <3>1, FS_AddElement, Zenon
      <3>3. Holders' = Holders /\ AdditionalRef' = AdditionalRef /\ AdditionalRef \in {0, 1}
        BY <2>0, Zenon DEF IInv, RefTypeOK, Holders, AdditionalRef, Live
      <3>. QED BY <2>0, <3>0, <3>2, <3>3 DEF IInv, RefTypeOK, RefCountExact
    <2>. QED BY <2>1, <2>2, <2>3, <2>4, <2>5, <2>6, Zenon DEF IInv
  <1>. QED BY <1>b, <1>c, Zenon

LEMMA AddrSubStep ==
  ASSUME IInv, NEW t \in Threads, AddrSub(t)
  PROVE  IInv'
  <1> USE DEF AddrSub, AddrSubNext, RefGoto
  <1>1. RefTypeOK'
    BY DEF IInv, RefTypeOK, PCs, Statuses
  <1>2. OwnerInv'
    BY DEF IInv, RefTypeOK, OwnerInv, HolderInv, Owner, PrivatePCs, PCs
  <1>3. HolderInv'
    BY Zenon DEF IInv, RefTypeOK, OwnerInv, HolderInv, Owner, PrivatePCs, PCs
  <1>4. VersionInv'
    BY EvenFacts DEF IInv, RefTypeOK, OwnerInv, HolderInv, VersionInv, Gap, Owner, PrivatePCs
  <1>5. SnapInv'
    <2>1. ASSUME AddrSubNext(t) = "addrCas"
          PROVE  ~Gap /\ Even(ver + 1) /\ ver + 1 <= thisId + 2
      <3>1. ~Even(ver)
        BY <2>1, Zenon DEF Even
      <3>2. ~Gap /\ Even(thisId) /\ ver = thisId + 1
        BY <3>1, Zenon DEF IInv, VersionInv
      <3>. QED BY <3>2, EvenFacts DEF IInv, RefTypeOK
    <2>. QED BY <2>1 DEF IInv, RefTypeOK, SnapInv, Gap
  <1>6. ReviveInv'
    BY DEF IInv, RefTypeOK, OwnerInv, HolderInv, ReviveInv, Owner, PrivatePCs
  <1>7. RefCountExact'
    <2>0. IsFiniteSet(Holders) /\ IsFiniteSet(Carriers) /\ Cardinality(Holders) \in Nat /\ Cardinality(Carriers) \in Nat
      BY CountFacts, Zenon DEF IInv
    <2>1. Holders' = Holders
      BY Zenon DEF IInv, RefTypeOK, Holders
    <2>2. Carriers' = Carriers \ {t} /\ t \in Carriers
      BY Zenon DEF IInv, RefTypeOK, PCs, Carriers, NoCheckFailure
    <2>3. Cardinality(Carriers') = Cardinality(Carriers) - 1
      BY <2>0, <2>2, FS_RemoveElement, Zenon
    <2>4. AdditionalRef' = AdditionalRef /\ AdditionalRef \in {0, 1}
      BY Zenon DEF IInv, RefTypeOK, Statuses, AdditionalRef, Live, OwnerInv, HolderInv, ReviveInv, Owner, PrivatePCs
    <2>. QED BY <2>0, <2>1, <2>3, <2>4 DEF IInv, RefTypeOK, RefCountExact
  <1>8. NoCheckFailure'
    <2>1. nref >= 1
      BY CountFacts, Zenon DEF IInv, Carriers
    <2>2. AddrSubNext(t) # "check_failed"
      BY <2>1 DEF IInv, RefTypeOK, SnapInv, Even
    <2>. QED BY <2>2, Zenon DEF IInv, RefTypeOK, NoCheckFailure
  <1>. QED BY <1>1, <1>2, <1>3, <1>4, <1>5, <1>6, <1>7, <1>8, Zenon DEF IInv

LEMMA ReAddressStep ==
  ASSUME IInv, NEW t \in Threads, NEW u \in Threads, ReAddress(t, u)
  PROVE  IInv'
  <1> USE DEF ReAddress, RefGoto
  <1>1. RefTypeOK'
    BY DEF IInv, RefTypeOK, PCs, Statuses
  <1>2. OwnerInv'
    BY Zenon DEF IInv, RefTypeOK, OwnerInv, HolderInv, Owner, PrivatePCs, PCs
  <1>3. HolderInv'
    BY Zenon DEF IInv, RefTypeOK, OwnerInv, HolderInv, Owner, PrivatePCs, PCs
  <1>4. VersionInv'
    BY EvenFacts, Zenon DEF IInv, RefTypeOK, OwnerInv, HolderInv, VersionInv, Gap, Owner, PrivatePCs
  <1>5. SnapInv'
    BY EvenFacts, Zenon DEF IInv, RefTypeOK, OwnerInv, HolderInv, VersionInv, SnapInv, Gap, Owner, PrivatePCs
  <1>6. ReviveInv'
    BY Zenon DEF IInv, RefTypeOK, OwnerInv, HolderInv, ReviveInv, Owner, PrivatePCs
  <1>7. RefCountExact'
    <2>0. IsFiniteSet(Holders) /\ IsFiniteSet(Carriers) /\ Cardinality(Holders) \in Nat /\ Cardinality(Carriers) \in Nat
      BY CountFacts, Zenon DEF IInv
    <2>1. Holders' = Holders \union {u} /\ u \notin Holders
      BY Zenon DEF IInv, RefTypeOK, PCs, Holders, NoCheckFailure
    <2>2. Cardinality(Holders') = Cardinality(Holders) + 1
      BY <2>0, <2>1, FS_AddElement, Zenon
    <2>3. Carriers' = Carriers
      BY Zenon DEF IInv, RefTypeOK, Carriers
    <2>4. AdditionalRef' = AdditionalRef /\ AdditionalRef \in {0, 1}
      BY Zenon DEF IInv, RefTypeOK, Statuses, AdditionalRef, Live, OwnerInv, HolderInv, ReviveInv, Owner, PrivatePCs
    <2>. QED BY <2>0, <2>2, <2>3, <2>4 DEF IInv, RefTypeOK, RefCountExact
  <1>8. NoCheckFailure'
    BY Zenon DEF IInv, RefTypeOK, NoCheckFailure
  <1>. QED BY <1>1, <1>2, <1>3, <1>4, <1>5, <1>6, <1>7, <1>8, Zenon DEF IInv

LEMMA SetFailedStep ==
  ASSUME IInv, NEW t \in Threads, SetFailed(t)
  PROVE  IInv'
  <1> USE DEF SetFailed, RefGoto
  <1>1. RefTypeOK'
    BY Zenon DEF IInv, RefTypeOK, PCs, Statuses
  <1>2. OwnerInv'
    BY Zenon DEF IInv, RefTypeOK, OwnerInv, HolderInv, Owner, PrivatePCs, PCs
  <1>3. HolderInv'
    BY Zenon DEF IInv, RefTypeOK, OwnerInv, HolderInv, Owner, PrivatePCs, PCs
  <1>4. VersionInv'
    BY EvenFacts, Zenon DEF IInv, RefTypeOK, OwnerInv, HolderInv, VersionInv, Gap, Owner, PrivatePCs
  <1>5. SnapInv'
    BY EvenFacts, Zenon DEF IInv, RefTypeOK, OwnerInv, HolderInv, VersionInv, SnapInv, Gap, Owner, PrivatePCs
  <1>6. ReviveInv'
    BY DEF IInv, RefTypeOK, OwnerInv, HolderInv, ReviveInv, Owner, PrivatePCs
  <1>7. RefCountExact'
    <2>1. Holders' = Holders /\ Carriers' = Carriers /\ AdditionalRef' = AdditionalRef
      BY Zenon DEF IInv, RefTypeOK, Holders, Carriers, AdditionalRef, Live
    <2>. QED BY <2>1, Zenon DEF IInv, RefCountExact
  <1>8. NoCheckFailure'
    BY Zenon DEF IInv, RefTypeOK, NoCheckFailure
  <1>. QED BY <1>1, <1>2, <1>3, <1>4, <1>5, <1>6, <1>7, <1>8, Zenon DEF IInv

LEMMA SetFailedLoadStep ==
  ASSUME IInv, NEW t \in Threads, SetFailedLoad(t)
  PROVE  IInv'
  <1> USE DEF SetFailedLoad, RefGoto
  <1>1. RefTypeOK'
    BY Zenon DEF IInv, RefTypeOK, PCs, Statuses
  <1>2. OwnerInv'
    BY DEF IInv, RefTypeOK, OwnerInv, HolderInv, Owner, PrivatePCs, PCs
  <1>3. HolderInv'
    BY Zenon DEF IInv, RefTypeOK, OwnerInv, HolderInv, Owner, PrivatePCs, PCs
  <1>4. VersionInv'
    BY EvenFacts DEF IInv, RefTypeOK, OwnerInv, HolderInv, VersionInv, Gap, Owner, PrivatePCs
  <1>5. SnapInv'
    BY EvenFacts DEF IInv, RefTypeOK, OwnerInv, HolderInv, VersionInv, SnapInv, Gap, Owner, PrivatePCs
  <1>6. ReviveInv'
    BY DEF IInv, RefTypeOK, OwnerInv, HolderInv, ReviveInv, Owner, PrivatePCs
  <1>7. RefCountExact'
    <2>1. Holders' = Holders /\ Carriers' = Carriers /\ AdditionalRef' = AdditionalRef
      BY Zenon DEF IInv, RefTypeOK, Holders, Carriers, AdditionalRef, Live
    <2>. QED BY <2>1, Zenon DEF IInv, RefCountExact
  <1>8. NoCheckFailure'
    BY Zenon DEF IInv, RefTypeOK, NoCheckFailure
  <1>. QED BY <1>1, <1>2, <1>3, <1>4, <1>5, <1>6, <1>7, <1>8, Zenon DEF IInv

LEMMA SetFailedCasStep ==
  ASSUME IInv, NEW t \in Threads, SetFailedCas(t)
  PROVE  IInv'
  <1> USE DEF SetFailedCas, RefGoto
  <1>1. RefTypeOK'
    BY DEF IInv, RefTypeOK, PCs, Statuses
  <1>2. OwnerInv'
    BY DEF IInv, RefTypeOK, OwnerInv, HolderInv, Owner, PrivatePCs, PCs
  <1>3. HolderInv'
    BY DEF IInv, RefTypeOK, OwnerInv, HolderInv, Owner, PrivatePCs, PCs
  <1>4. VersionInv'
    BY EvenFacts DEF IInv, RefTypeOK, OwnerInv, HolderInv, VersionInv, Gap, Owner, PrivatePCs
  <1>5. SnapInv'
    BY SMTT(30), EvenFacts DEF IInv, RefTypeOK, OwnerInv, HolderInv, VersionInv, SnapInv, Gap, Owner, PrivatePCs
  <1>6. ReviveInv'
    BY DEF IInv, RefTypeOK, OwnerInv, HolderInv, ReviveInv, Owner, PrivatePCs
  <1>7. RefCountExact'
    <2>1. Holders' = Holders /\ Carriers' = Carriers /\ AdditionalRef' = AdditionalRef
      BY Zenon DEF IInv, RefTypeOK, Holders, Carriers, AdditionalRef, Live
    <2>. QED BY <2>1, Zenon DEF IInv, RefCountExact
  <1>8. NoCheckFailure'
    BY Zenon DEF IInv, RefTypeOK, NoCheckFailure
  <1>. QED BY <1>1, <1>2, <1>3, <1>4, <1>5, <1>6, <1>7, <1>8, Zenon DEF IInv

LEMMA OnFailedDoneStep ==
  ASSUME IInv, NEW t \in Threads, OnFailedDone(t)
  PROVE  IInv'
  <1> USE DEF OnFailedDone, RefGoto
  <1>1. RefTypeOK'
    BY Zenon DEF IInv, RefTypeOK, PCs, Statuses
  <1>2. OwnerInv'
    BY DEF IInv, RefTypeOK, OwnerInv, HolderInv, Owner, PrivatePCs, PCs
  <1>3. HolderInv'
    BY Zenon DEF IInv, RefTypeOK, OwnerInv, HolderInv, Owner, PrivatePCs, PCs
  <1>4. VersionInv'
    BY EvenFacts DEF IInv, RefTypeOK, OwnerInv, HolderInv, VersionInv, Gap, Owner, PrivatePCs
  <1>5. SnapInv'
    BY EvenFacts DEF IInv, RefTypeOK, OwnerInv, HolderInv, VersionInv, SnapInv, Gap, Owner, PrivatePCs
  <1>6. ReviveInv'
    BY DEF IInv, RefTypeOK, OwnerInv, HolderInv, ReviveInv, Owner, PrivatePCs
  <1>7. RefCountExact'
    <2>1. Holders' = Holders /\ Carriers' = Carriers /\ AdditionalRef' = AdditionalRef
      BY Zenon DEF IInv, RefTypeOK, Holders, Carriers, AdditionalRef, Live
    <2>. QED BY <2>1, Zenon DEF IInv, RefCountExact
  <1>8. NoCheckFailure'
    BY Zenon DEF IInv, RefTypeOK, NoCheckFailure
  <1>. QED BY <1>1, <1>2, <1>3, <1>4, <1>5, <1>6, <1>7, <1>8, Zenon DEF IInv

LEMMA ReleaseDirectStep ==
  ASSUME IInv, NEW t \in Threads, ReleaseDirect(t)
  PROVE  IInv'
  <1> USE DEF ReleaseDirect, RefGoto
  <1>1. RefTypeOK'
    BY Zenon DEF IInv, RefTypeOK, PCs, Statuses
  <1>2. OwnerInv'
    BY Zenon DEF IInv, RefTypeOK, OwnerInv, HolderInv, Owner, PrivatePCs, PCs
  <1>3. HolderInv'
    BY Zenon DEF IInv, RefTypeOK, OwnerInv, HolderInv, Owner, PrivatePCs, PCs
  <1>4. VersionInv'
    BY EvenFacts, Zenon DEF IInv, RefTypeOK, OwnerInv, HolderInv, VersionInv, Gap, Owner, PrivatePCs
  <1>5. SnapInv'
    BY EvenFacts, Zenon DEF IInv, RefTypeOK, OwnerInv, HolderInv, VersionInv, SnapInv, Gap, Owner, PrivatePCs
  <1>6. ReviveInv'
    BY DEF IInv, RefTypeOK, OwnerInv, HolderInv, ReviveInv, Owner, PrivatePCs
  <1>7. RefCountExact'
    <2>1. Holders' = Holders /\ Carriers' = Carriers /\ AdditionalRef' = AdditionalRef
      BY Zenon DEF IInv, RefTypeOK, Holders, Carriers, AdditionalRef, Live
    <2>. QED BY <2>1, Zenon DEF IInv, RefCountExact
  <1>8. NoCheckFailure'
    BY Zenon DEF IInv, RefTypeOK, NoCheckFailure
  <1>. QED BY <1>1, <1>2, <1>3, <1>4, <1>5, <1>6, <1>7, <1>8, Zenon DEF IInv

LEMMA ReleaseAdditionalReferenceStep ==
  ASSUME IInv, NEW t \in Threads, ReleaseAdditionalReference(t)
  PROVE  IInv'
  <1> USE DEF ReleaseAdditionalReference, RefGoto
  <1>1. RefTypeOK'
    BY Zenon DEF IInv, RefTypeOK, PCs, Statuses
  <1>2. OwnerInv'
    BY DEF IInv, RefTypeOK, OwnerInv, HolderInv, Owner, PrivatePCs, PCs
  <1>3. HolderInv'
    BY DEF IInv, RefTypeOK, OwnerInv, HolderInv, Owner, PrivatePCs, PCs
  <1>4. VersionInv'
    BY EvenFacts DEF IInv, RefTypeOK, OwnerInv, HolderInv, VersionInv, Gap, Owner, PrivatePCs
  <1>5. SnapInv'
    BY EvenFacts DEF IInv, RefTypeOK, OwnerInv, HolderInv, VersionInv, SnapInv, Gap, Owner, PrivatePCs
  <1>6. ReviveInv'
    BY DEF IInv, RefTypeOK, OwnerInv, HolderInv, ReviveInv, Owner, PrivatePCs
  <1>7. RefCountExact'
    <2>0. IsFiniteSet(Carriers) /\ Cardinality(Holders) \in Nat /\ Cardinality(Carriers) \in Nat
      BY CountFacts, Zenon DEF IInv
    <2>1. Holders' = Holders
      BY Zenon DEF Holders
    <2>2. CASE addStatus = "USING"
      <3>1. Carriers' = Carriers \union {t} /\ t \notin Carriers
        BY <2>2, Zenon DEF IInv, RefTypeOK, Carriers
      <3>2. Cardinality(Carriers') = Cardinality(Carriers) + 1
        BY <2>0, <3>1, FS_AddElement, Zenon
      <3>3. AdditionalRef = 1 /\ AdditionalRef' = 0
        BY <2>2, Zenon DEF IInv, RefTypeOK, OwnerInv, HolderInv, AdditionalRef, Live, Owner, PrivatePCs
      <3>. QED BY <2>0, <2>1, <3>2, <3>3 DEF IInv, RefTypeOK, RefCountExact
    <2>3. CASE addStatus # "USING"
      <3>1. Carriers' = Carriers /\ AdditionalRef' = AdditionalRef
        BY <2>3, Zenon DEF IInv, RefTypeOK, Carriers, AdditionalRef, Live
      <3>. QED BY <2>1, <3>1, Zenon DEF IInv, RefCountExact
    <2>. QED BY <2>2, <2>3, Zenon
  <1>8. NoCheckFailure'
    BY Zenon DEF IInv, RefTypeOK, NoCheckFailure
  <1>. QED BY <1>1, <1>2, <1>3, <1>4, <1>5, <1>6, <1>7, <1>8, Zenon DEF IInv

LEMMA ReleaseStep ==
  ASSUME IInv, NEW t \in Threads, Release(t)
  PROVE  IInv'
  <1> USE DEF Release, Dereference, DerefNext, RefGoto
  <1>1. RefTypeOK'
    BY DEF IInv, RefTypeOK, PCs, Statuses
  <1>2. OwnerInv'
    BY DEF IInv, RefTypeOK, OwnerInv, HolderInv, Owner, PrivatePCs, PCs
  <1>3. HolderInv'
    BY Zenon DEF IInv, RefTypeOK, OwnerInv, HolderInv, Owner, PrivatePCs, PCs
  <1>4. VersionInv'
    BY EvenFacts, Zenon DEF IInv, RefTypeOK, OwnerInv, HolderInv, VersionInv, Gap, Owner, PrivatePCs
  <1>5. SnapInv'
    BY SMTT(30), EvenFacts DEF IInv, RefTypeOK, OwnerInv, HolderInv, VersionInv, SnapInv, Gap, Owner, PrivatePCs
  <1>6. ReviveInv'
    BY DEF IInv, RefTypeOK, OwnerInv, HolderInv, ReviveInv, Owner, PrivatePCs
  <1>7. RefCountExact'
    <2>0. IsFiniteSet(Holders) /\ IsFiniteSet(Carriers) /\ Cardinality(Holders) \in Nat /\ Cardinality(Carriers) \in Nat
      BY CountFacts, Zenon DEF IInv
    <2>1. Holders' = Holders \ {t} /\ t \in Holders
      BY Zenon DEF IInv, RefTypeOK, PCs, Holders, NoCheckFailure
    <2>2. Cardinality(Holders') = Cardinality(Holders) - 1
      BY <2>0, <2>1, FS_RemoveElement, Zenon
    <2>3. Carriers' = Carriers
      BY Zenon DEF IInv, RefTypeOK, Carriers
    <2>4. AdditionalRef' = AdditionalRef /\ AdditionalRef \in {0, 1}
      BY Zenon DEF IInv, RefTypeOK, Statuses, AdditionalRef, Live, OwnerInv, HolderInv, ReviveInv, Owner, PrivatePCs
    <2>. QED BY <2>0, <2>2, <2>3, <2>4 DEF IInv, RefTypeOK, RefCountExact
  <1>8. NoCheckFailure'
    <2>1. nref >= 1
      BY CountFacts, Zenon DEF IInv
    <2>2. ver = thisId \/ ver = thisId + 1
      BY Zenon DEF IInv, OwnerInv, HolderInv, VersionInv, Gap, Owner
    <2>. QED BY <2>1, <2>2 DEF IInv, RefTypeOK, NoCheckFailure
  <1>. QED BY <1>1, <1>2, <1>3, <1>4, <1>5, <1>6, <1>7, <1>8, Zenon DEF IInv

LEMMA ReleaseAdditionalDerefStep ==
  ASSUME IInv, NEW t \in Threads, ReleaseAdditionalDeref(t)
  PROVE  IInv'
  <1> USE DEF ReleaseAdditionalDeref, Dereference, DerefNext, RefGoto
  <1>1. RefTypeOK'
    BY DEF IInv, RefTypeOK, PCs, Statuses
  <1>2. OwnerInv'
    BY SMTT(30) DEF IInv, RefTypeOK, OwnerInv, HolderInv, Owner, PrivatePCs, PCs
  <1>0. nref >= 1 /\ (held[t] => nref >= 2)
    BY CountFacts, Zenon DEF IInv, Carriers
  <1>3. HolderInv'
    BY <1>0 DEF IInv, RefTypeOK, OwnerInv, HolderInv, Owner, PrivatePCs, PCs
  <1>4. VersionInv'
    BY EvenFacts, Zenon DEF IInv, RefTypeOK, OwnerInv, HolderInv, VersionInv, Gap, Owner, PrivatePCs
  <1>5. SnapInv'
    BY SMTT(30), EvenFacts DEF IInv, RefTypeOK, OwnerInv, HolderInv, VersionInv, SnapInv, Gap, Owner, PrivatePCs
  <1>6. ReviveInv'
    BY DEF IInv, RefTypeOK, OwnerInv, HolderInv, ReviveInv, Owner, PrivatePCs
  <1>7. RefCountExact'
    <2>0. IsFiniteSet(Holders) /\ IsFiniteSet(Carriers) /\ Cardinality(Holders) \in Nat /\ Cardinality(Carriers) \in Nat
      BY CountFacts, Zenon DEF IInv
    <2>1. Holders' = Holders
      BY Zenon DEF IInv, RefTypeOK, Holders
    <2>2. Carriers' = Carriers \ {t} /\ t \in Carriers
      BY Zenon DEF IInv, RefTypeOK, PCs, Carriers, NoCheckFailure
    <2>3. Cardinality(Carriers') = Cardinality(Carriers) - 1
      BY <2>0, <2>2, FS_RemoveElement, Zenon
    <2>4. AdditionalRef' = AdditionalRef /\ AdditionalRef \in {0, 1}
      BY Zenon DEF IInv, RefTypeOK, Statuses, AdditionalRef, Live, OwnerInv, HolderInv, ReviveInv, Owner, PrivatePCs
    <2>. QED BY <2>0, <2>1, <2>3, <2>4 DEF IInv, RefTypeOK, RefCountExact
  <1>8. NoCheckFailure'
    <2>1. ver = thisId \/ ver = thisId + 1
      BY Zenon DEF IInv, OwnerInv, HolderInv, VersionInv, Gap, Owner, PrivatePCs
    <2>. QED BY <1>0, <2>1 DEF IInv, RefTypeOK, NoCheckFailure
  <1>. QED BY <1>1, <1>2, <1>3, <1>4, <1>5, <1>6, <1>7, <1>8, Zenon DEF IInv

\* A recycling CAS that succeeds finds nobody using the slot, and claims the
\* generation that is live: its target is two above the current id.
LEMMA RecycleClaims ==
  ASSUME IInv, NEW t \in Threads, refpc[t] \in {"derefCas", "addrCas"}, ver = v[t], nref = 0
  PROVE  /\ ~Gap /\ target[t] = thisId + 2 /\ Even(thisId + 2) /\ addStatus # "USING"
         /\ \A u \in Threads : ~held[u] /\ ~Owner(u)
  <1>1. Holders = {} /\ Carriers = {} /\ AdditionalRef = 0
    BY CountFacts, Zenon DEF IInv
  <1>2. ~Gap
    BY DEF IInv, RefTypeOK, SnapInv
  <1>3. target[t] = thisId + 2 /\ Even(thisId + 2)
    BY <1>2, EvenFacts DEF IInv, RefTypeOK, SnapInv, VersionInv
  <1>4. addStatus # "USING"
    BY <1>1, <1>2 DEF AdditionalRef, Live, Gap
  <1>5. \A u \in Threads : ~held[u] /\ refpc[u] # "relDeref"
    BY <1>1, Zenon DEF Holders, Carriers
  <1>6. \A u \in Threads : ~Owner(u)
    BY <1>2, <1>4, <1>5, Zenon DEF IInv, OwnerInv, Owner, PrivatePCs, Gap
  <1>. QED BY <1>2, <1>3, <1>4, <1>5, <1>6, Zenon

LEMMA RecycleCasStep ==
  ASSUME IInv, NEW t \in Threads, RecycleCas(t)
  PROVE  IInv'
  <1> USE DEF RecycleCas, RefGoto
  <1>1. RefTypeOK'
    BY Zenon DEF IInv, RefTypeOK, PCs, Statuses
  <1>a. ver = v[t] /\ nref = 0 =>
              /\ ~Gap /\ target[t] = thisId + 2 /\ Even(thisId + 2) /\ addStatus # "USING"
              /\ \A u \in Threads : ~held[u] /\ ~Owner(u)
    BY RecycleClaims, Zenon
  <1>2. OwnerInv'
    <2>1. CASE <<ver, nref>> = <<v[t], 0>>
      BY <2>1, <1>a DEF IInv, RefTypeOK, OwnerInv, Owner, PrivatePCs, Gap
    <2>2. CASE <<ver, nref>> # <<v[t], 0>>
      BY <2>2 DEF IInv, RefTypeOK, OwnerInv, Owner, PrivatePCs
    <2>. QED BY <2>1, <2>2, Zenon
  <1>3. HolderInv'
    BY DEF IInv, RefTypeOK, OwnerInv, HolderInv, Owner, PrivatePCs, PCs
  <1>4. VersionInv'
    <2>1. CASE <<ver, nref>> = <<v[t], 0>>
      <3>1. Gap'
        BY <2>1, Zenon DEF IInv, RefTypeOK, Gap
      <3>. QED BY <2>1, <3>1, <1>a DEF IInv, RefTypeOK, VersionInv
    <2>2. CASE <<ver, nref>> # <<v[t], 0>>
      BY <2>2, Zenon DEF IInv, RefTypeOK, VersionInv, Gap, Owner, PrivatePCs
    <2>. QED BY <2>1, <2>2, Zenon
  <1>5. SnapInv'
    <2>1. CASE <<ver, nref>> = <<v[t], 0>>
      <3>1. Gap' /\ ~Gap
        BY <2>1, <1>a, Zenon DEF IInv, RefTypeOK, Gap
      <3>2. Carriers = {}
        BY <2>1, CountFacts, Zenon DEF IInv
      <3>3. \A u \in Threads : refpc[u] \notin {"addrSub", "rvMark", "rvCas"}
        BY <2>1, <3>2, <1>a, Zenon DEF IInv, HolderInv, Carriers
      <3>. QED BY <2>1, <3>1, <3>3, <1>a, Zenon DEF IInv, RefTypeOK, SnapInv
    <2>2. CASE <<ver, nref>> # <<v[t], 0>>
      BY <2>2, Zenon DEF IInv, RefTypeOK, SnapInv, Gap
    <2>. QED BY <2>1, <2>2, Zenon
  <1>6. ReviveInv'
    BY DEF IInv, RefTypeOK, OwnerInv, HolderInv, ReviveInv, Owner, PrivatePCs
  <1>7. RefCountExact'
    <2>1. Holders' = Holders /\ Carriers' = Carriers /\ AdditionalRef' = AdditionalRef
      BY Zenon DEF IInv, RefTypeOK, Holders, Carriers, AdditionalRef, Live
    <2>. QED BY <2>1, Zenon DEF IInv, RefCountExact
  <1>8. NoCheckFailure'
    BY Zenon DEF IInv, RefTypeOK, NoCheckFailure
  <1>. QED BY <1>1, <1>2, <1>3, <1>4, <1>5, <1>6, <1>7, <1>8, Zenon DEF IInv

LEMMA ReturnResourceStep ==
  ASSUME IInv, NEW t \in Threads, ReturnResource(t)
  PROVE  IInv'
  <1> USE DEF ReturnResource, RefGoto
  <1>1. RefTypeOK'
    BY Zenon DEF IInv, RefTypeOK, PCs, Statuses
  <1>2. OwnerInv'
    BY Zenon DEF IInv, RefTypeOK, OwnerInv, HolderInv, Owner, PrivatePCs, PCs
  <1>3. HolderInv'
    BY Zenon DEF IInv, RefTypeOK, OwnerInv, HolderInv, Owner, PrivatePCs, PCs
  <1>4. VersionInv'
    BY EvenFacts, Zenon DEF IInv, RefTypeOK, OwnerInv, HolderInv, VersionInv, Gap, Owner, PrivatePCs
  <1>5. SnapInv'
    BY EvenFacts DEF IInv, RefTypeOK, OwnerInv, HolderInv, VersionInv, SnapInv, Gap, Owner, PrivatePCs
  <1>6. ReviveInv'
    BY DEF IInv, RefTypeOK, OwnerInv, HolderInv, ReviveInv, Owner, PrivatePCs
  <1>7. RefCountExact'
    <2>1. Holders' = Holders /\ Carriers' = Carriers
      BY Zenon DEF IInv, RefTypeOK, Holders, Carriers
    <2>2. AdditionalRef = 0 /\ AdditionalRef' = 0
      BY Zenon DEF IInv, RefTypeOK, AdditionalRef, Live, OwnerInv, Owner
    <2>. QED BY <2>1, <2>2, Zenon DEF IInv, RefCountExact
  <1>8. NoCheckFailure'
    BY Zenon DEF IInv, RefTypeOK, NoCheckFailure
  <1>. QED BY <1>1, <1>2, <1>3, <1>4, <1>5, <1>6, <1>7, <1>8, Zenon DEF IInv

LEMMA ReviveStep ==
  ASSUME IInv, NEW t \in Threads, Revive(t)
  PROVE  IInv'
  <1> USE DEF Revive, Reviving, RefGoto
  <1>1. RefTypeOK'
    BY Zenon DEF IInv, RefTypeOK, PCs, Statuses
  <1>2. OwnerInv'
    BY Zenon DEF IInv, RefTypeOK, OwnerInv, HolderInv, Owner, PrivatePCs, PCs
  <1>3. HolderInv'
    BY Zenon DEF IInv, RefTypeOK, OwnerInv, HolderInv, Owner, PrivatePCs, PCs
  <1>4. VersionInv'
    BY EvenFacts, Zenon DEF IInv, RefTypeOK, OwnerInv, HolderInv, VersionInv, Gap, Owner, PrivatePCs
  <1>5. SnapInv'
    <2>1. nref >= 1
      BY CountFacts, Zenon DEF IInv
    <2>. QED BY <2>1, Zenon DEF IInv, RefTypeOK, SnapInv, Gap
  <1>6. ReviveInv'
    BY DEF IInv, RefTypeOK, OwnerInv, HolderInv, ReviveInv, Owner, PrivatePCs
  <1>7. RefCountExact'
    <2>1. Holders' = Holders /\ Carriers' = Carriers /\ AdditionalRef' = AdditionalRef
      BY Zenon DEF IInv, RefTypeOK, Holders, Carriers, AdditionalRef, Live
    <2>. QED BY <2>1, Zenon DEF IInv, RefCountExact
  <1>8. NoCheckFailure'
    BY Zenon DEF IInv, RefTypeOK, NoCheckFailure
  <1>. QED BY <1>1, <1>2, <1>3, <1>4, <1>5, <1>6, <1>7, <1>8, Zenon DEF IInv

LEMMA ReviveMarkStep ==
  ASSUME IInv, NEW t \in Threads, ReviveMark(t)
  PROVE  IInv'
  <1> USE DEF ReviveMark, RefGoto
  <1>1. RefTypeOK'
    BY Zenon DEF IInv, RefTypeOK, PCs, Statuses
  <1>2. OwnerInv'
    BY Zenon DEF IInv, RefTypeOK, OwnerInv, HolderInv, Owner, PrivatePCs, PCs
  <1>3. HolderInv'
    BY Zenon DEF IInv, RefTypeOK, OwnerInv, HolderInv, Owner, PrivatePCs, PCs
  <1>4. VersionInv'
    BY EvenFacts, Zenon DEF IInv, RefTypeOK, OwnerInv, HolderInv, VersionInv, Gap, Owner, PrivatePCs
  <1>5. SnapInv'
    BY EvenFacts DEF IInv, RefTypeOK, OwnerInv, HolderInv, VersionInv, SnapInv, Gap, Owner, PrivatePCs
  <1>6. ReviveInv'
    BY DEF IInv, RefTypeOK, OwnerInv, HolderInv, ReviveInv, Owner, PrivatePCs
  <1>7. RefCountExact'
    <2>1. Holders' = Holders /\ Carriers' = Carriers /\ AdditionalRef' = AdditionalRef
      BY Zenon DEF IInv, RefTypeOK, Holders, Carriers, AdditionalRef, Live, ReviveInv, OwnerInv, HolderInv, Owner, NoCheckFailure
    <2>. QED BY <2>1, Zenon DEF IInv, RefCountExact
  <1>8. NoCheckFailure'
    BY Zenon DEF IInv, RefTypeOK, NoCheckFailure
  <1>. QED BY <1>1, <1>2, <1>3, <1>4, <1>5, <1>6, <1>7, <1>8, Zenon DEF IInv

LEMMA ReviveCasStep ==
  ASSUME IInv, NEW t \in Threads, ReviveCas(t)
  PROVE  IInv'
  <1> USE DEF RefGoto
  <1>a. held[t] /\ ~free /\ \A u \in Threads : ~Owner(u)
    BY Zenon DEF IInv, HolderInv, OwnerInv, ReviveCas
  <1>b. ~Gap
    BY <1>a, Zenon DEF Gap, Owner
  <1>c. /\ ver = thisId + 1 /\ v[t] = thisId + 1 /\ n[t] >= 1 /\ nref >= 1
        /\ Even(thisId) /\ ~Even(ver) /\ addStatus = "REVIVING"
        /\ \A u \in Threads : refpc[u] \in {"rvMark", "rvCas", "rvDone"} => u = t
    BY <1>a, <1>b, EvenFacts, CountFacts DEF IInv, RefTypeOK, SnapInv, VersionInv, ReviveInv, ReviveCas
  <1>d. refpc[t] = "rvCas" /\ UNCHANGED <<thisId, free, ids, held, hid, target>>
    BY Zenon DEF ReviveCas
  <1>1. CASE n[t] < AtLeastNref
    <2>0. /\ addStatus' = "RECYCLED" /\ refpc' = [refpc EXCEPT ![t] = "ready"]
          /\ UNCHANGED <<ver, nref, v, n>>
      BY <1>1, <1>c, ReviveAssumption DEF ReviveCas, IInv, RefTypeOK
    <2>1. RefTypeOK'
      BY <1>d, <2>0, Zenon DEF IInv, RefTypeOK, PCs, Statuses
    <2>2. OwnerInv' /\ HolderInv'
      BY <1>a, <1>d, <2>0, Zenon DEF IInv, RefTypeOK, OwnerInv, HolderInv, Owner, PrivatePCs
    <2>3. VersionInv'
      BY <1>d, <2>0, Zenon DEF IInv, RefTypeOK, VersionInv, Gap, Owner, PrivatePCs
    <2>4. SnapInv'
      BY <1>d, <2>0, Zenon DEF IInv, RefTypeOK, SnapInv, Gap
    <2>5. ReviveInv' /\ NoCheckFailure'
      BY <1>c, <1>d, <2>0, Zenon DEF IInv, RefTypeOK, ReviveInv, NoCheckFailure
    <2>6. RefCountExact'
      <3>1. Holders' = Holders /\ Carriers' = Carriers /\ AdditionalRef' = AdditionalRef
        BY <1>c, <1>d, <2>0, Zenon DEF IInv, RefTypeOK, Holders, Carriers, AdditionalRef, Live
      <3>. QED BY <2>0, <3>1, Zenon DEF IInv, RefCountExact
    <2>. QED BY <2>1, <2>2, <2>3, <2>4, <2>5, <2>6, Zenon DEF IInv
  <1>2. CASE n[t] >= AtLeastNref /\ <<ver, nref>> = <<v[t], n[t]>>
    <2>0. /\ ver' = thisId /\ nref' = nref + 1 /\ refpc' = [refpc EXCEPT ![t] = "rvDone"]
          /\ UNCHANGED <<addStatus, v, n>>
      BY <1>2, <1>c, ReviveAssumption DEF ReviveCas, IInv, RefTypeOK
    <2>1. RefTypeOK'
      BY <1>d, <2>0 DEF IInv, RefTypeOK, PCs
    <2>2. OwnerInv' /\ HolderInv'
      BY <1>a, <1>d, <2>0 DEF IInv, RefTypeOK, OwnerInv, HolderInv, Owner, PrivatePCs
    <2>3. VersionInv'
      BY <1>a, <1>b, <1>d, <2>0, Zenon DEF IInv, RefTypeOK, VersionInv, Gap, Owner, PrivatePCs
    <2>4. SnapInv'
      BY <1>b, <1>c, <1>d, <2>0 DEF IInv, RefTypeOK, SnapInv, Gap
    <2>5. ReviveInv' /\ NoCheckFailure'
      BY <1>c, <1>d, <2>0, Zenon DEF IInv, RefTypeOK, ReviveInv, NoCheckFailure
    <2>6. RefCountExact'
      <3>0. IsFiniteSet(Carriers) /\ Cardinality(Holders) \in Nat /\ Cardinality(Carriers) \in Nat
        BY CountFacts, Zenon DEF IInv
      <3>1. Carriers' = Carriers \union {t} /\ t \notin Carriers
        BY <1>d, <2>0, Zenon DEF IInv, RefTypeOK, Carriers
      <3>2. Cardinality(Carriers') = Cardinality(Carriers) + 1
        BY <3>0, <3>1, FS_AddElement, Zenon
      <3>3. Holders' = Holders /\ AdditionalRef' = 0 /\ AdditionalRef = 0
        BY <1>c, <1>d, <2>0, Zenon DEF IInv, RefTypeOK, Holders, AdditionalRef, Live
      <3>. QED BY <2>0, <3>0, <3>2, <3>3 DEF IInv, RefTypeOK, RefCountExact
    <2>. QED BY <2>1, <2>2, <2>3, <2>4, <2>5, <2>6, Zenon DEF IInv
  <1>3. CASE n[t] >= AtLeastNref /\ <<ver, nref>> # <<v[t], n[t]>>
    <2>0. /\ v' = [v EXCEPT ![t] = ver] /\ n' = [n EXCEPT ![t] = nref]
          /\ UNCHANGED <<ver, nref, addStatus, refpc>>
      BY <1>3, <1>c, ReviveAssumption DEF ReviveCas, IInv, RefTypeOK
    <2>1. RefTypeOK'
      BY <1>d, <2>0, Zenon DEF IInv, RefTypeOK
    <2>2. OwnerInv' /\ HolderInv' /\ ReviveInv' /\ NoCheckFailure'
      BY <1>d, <2>0, Zenon DEF IInv, RefTypeOK, OwnerInv, HolderInv, ReviveInv, NoCheckFailure, Owner
    <2>3. VersionInv'
      BY <1>d, <2>0, Zenon DEF IInv, VersionInv, Gap, Owner
    <2>4. SnapInv'
      BY <1>c, <1>d, <2>0, Zenon DEF IInv, RefTypeOK, SnapInv, Gap
    <2>5. RefCountExact'
      BY <1>d, <2>0, Zenon DEF IInv, RefCountExact, Holders, Carriers, AdditionalRef, Live
    <2>. QED BY <2>1, <2>2, <2>3, <2>4, <2>5, Zenon DEF IInv
  <1>. QED BY <1>1, <1>2, <1>3, ReviveAssumption DEF IInv, RefTypeOK

LEMMA ReviveDoneStep ==
  ASSUME IInv, NEW t \in Threads, ReviveDone(t)
  PROVE  IInv'
  <1> USE DEF ReviveDone, RefGoto
  <1>1. RefTypeOK'
    BY Zenon DEF IInv, RefTypeOK, PCs, Statuses
  <1>2. OwnerInv'
    BY Zenon DEF IInv, RefTypeOK, OwnerInv, HolderInv, Owner, PrivatePCs, PCs
  <1>3. HolderInv'
    BY Zenon DEF IInv, RefTypeOK, OwnerInv, HolderInv, Owner, PrivatePCs, PCs
  <1>4. VersionInv'
    BY EvenFacts, Zenon DEF IInv, RefTypeOK, OwnerInv, HolderInv, VersionInv, Gap, Owner, PrivatePCs
  <1>5. SnapInv'
    BY EvenFacts, Zenon DEF IInv, RefTypeOK, OwnerInv, HolderInv, VersionInv, SnapInv, Gap, Owner, PrivatePCs
  <1>6. ReviveInv'
    BY DEF IInv, RefTypeOK, OwnerInv, HolderInv, ReviveInv, Owner, PrivatePCs
  <1>7. RefCountExact'
    <2>0. IsFiniteSet(Holders) /\ IsFiniteSet(Carriers) /\ Cardinality(Holders) \in Nat /\ Cardinality(Carriers) \in Nat
      BY CountFacts, Zenon DEF IInv
    <2>1. Holders' = Holders
      BY Zenon DEF IInv, RefTypeOK, Holders
    <2>2. Carriers' = Carriers \ {t} /\ t \in Carriers
      BY Zenon DEF IInv, RefTypeOK, PCs, Carriers, NoCheckFailure
    <2>3. Cardinality(Carriers') = Cardinality(Carriers) - 1
      BY <2>0, <2>2, FS_RemoveElement, Zenon
    <2>4. AdditionalRef = 0 /\ AdditionalRef' = 1
      BY Zenon DEF IInv, RefTypeOK, Statuses, AdditionalRef, Live, OwnerInv, HolderInv, ReviveInv, Owner, PrivatePCs
    <2>. QED BY <2>0, <2>1, <2>3, <2>4 DEF IInv, RefTypeOK, RefCountExact
  <1>8. NoCheckFailure'
    BY Zenon DEF IInv, RefTypeOK, NoCheckFailure
  <1>. QED BY <1>1, <1>2, <1>3, <1>4, <1>5, <1>6, <1>7, <1>8, Zenon DEF IInv
LEMMA IInvInit == RefInit => IInv
  <1> SUFFICES ASSUME RefInit PROVE IInv
    BY Zenon
  <1> USE DEF RefInit
  <1>1. RefTypeOK
    BY DEF RefTypeOK, PCs, Statuses
  <1>2. OwnerInv /\ HolderInv /\ SnapInv /\ ReviveInv /\ NoCheckFailure
    BY Zenon DEF OwnerInv, Owner, PrivatePCs, HolderInv, SnapInv, ReviveInv, NoCheckFailure
  <1>3. VersionInv
    BY DEF VersionInv, Gap, Even
  <1>4. RefCountExact
    <2>1. Holders = {} /\ Carriers = {}
      BY Zenon DEF Holders, Carriers
    <2>2. Cardinality(Holders) = 0 /\ Cardinality(Carriers) = 0 /\ AdditionalRef = 0
      BY <2>1, FS_EmptySet, Zenon DEF AdditionalRef, Live
    <2>. QED BY <2>2 DEF RefCountExact
  <1>. QED BY <1>1, <1>2, <1>3, <1>4, Zenon DEF IInv

LEMMA IInvNext == IInv /\ [RefNext]_refVars => IInv'
  <1> SUFFICES ASSUME IInv, [RefNext]_refVars PROVE IInv'
    BY Zenon
  <1>1. CASE UNCHANGED refVars
    <2>1. RefTypeOK' /\ OwnerInv' /\ HolderInv' /\ VersionInv'
      BY <1>1, Zenon DEF refVars, IInv, RefTypeOK, OwnerInv, Owner, HolderInv, VersionInv, Gap
    <2>2. SnapInv' /\ ReviveInv' /\ NoCheckFailure'
      BY <1>1, Zenon DEF refVars, IInv, SnapInv, Gap, ReviveInv, NoCheckFailure
    <2>3. RefCountExact'
      BY <1>1, Zenon DEF refVars, IInv, RefCountExact, Holders, Carriers, AdditionalRef, Live
    <2> QED
      BY <2>1, <2>2, <2>3, Zenon DEF IInv
  <1>2. ASSUME NEW t \in Threads, Step(t) PROVE IInv'
    BY <1>2, CreateGetStep, CreateAddStep, CreateInitStep, CreateDoneStep, CreateFailedStep,
       AddressStep, AddrSubStep, ReAddressStep, SetFailedStep, SetFailedLoadStep,
       SetFailedCasStep, OnFailedDoneStep, ReleaseDirectStep, ReleaseAdditionalReferenceStep,
       ReleaseStep, ReleaseAdditionalDerefStep, RecycleCasStep, ReturnResourceStep,
       ReviveStep, ReviveMarkStep, ReviveCasStep, ReviveDoneStep, Zenon DEF Step, UsualStep, UsualStep
  <1>. QED BY <1>1, <1>2, Zenon DEF RefNext

LEMMA IInvAlways == RefSpec => []IInv
  BY IInvInit, IInvNext, PTL DEF RefSpec

\* _versioned_ref, the status word and every thread-local snapshot keep their
\* types.
THEOREM TypeCorrect == RefSpec => []RefTypeOK
  <1>1. IInv => RefTypeOK
    BY Zenon DEF IInv
  <1>. QED BY <1>1, IInvAlways, PTL

\* The reference count is exact for any number of threads and generations.
THEOREM CountCorrect == RefSpec => []RefCountExact
  <1>1. IInv => RefCountExact
    BY Zenon DEF IInv
  <1>. QED BY <1>1, IInvAlways, PTL

\* No CHECK, CHECK_EQ or LOG(FATAL) of the class can fire.
THEOREM ChecksHold == RefSpec => []NoCheckFailure
  <1>1. IInv => NoCheckFailure
    BY Zenon DEF IInv
  <1>. QED BY <1>1, IInvAlways, PTL

\* A reference obtained through Address or ReAddress stays on the generation of
\* its id until it is released.
THEOREM HoldersAreSafe == RefSpec => []HolderSafe
  <1>1. IInv => HolderSafe
    <2> SUFFICES ASSUME IInv, NEW t \in Threads, held[t]
                 PROVE  /\ ~free /\ thisId = hid[t] /\ ver \in {thisId, thisId + 1}
                        /\ \A u \in Threads : ~Recycling(u) /\ ~Creating(u)
      BY Zenon DEF HolderSafe
    <2>1. ~free /\ thisId = hid[t] /\ \A u \in Threads : ~Owner(u)
      BY Zenon DEF IInv, HolderInv, OwnerInv
    <2>2. ver \in {thisId, thisId + 1}
      BY <2>1, Zenon DEF IInv, VersionInv, Gap, Owner
    <2>3. \A u \in Threads : ~Recycling(u) /\ ~Creating(u)
      BY <2>1, Zenon DEF IInv, HolderInv, Owner, Recycling, Creating, PrivatePCs
    <2>. QED BY <2>1, <2>2, <2>3, Zenon
  <1>. QED BY <1>1, IInvAlways, PTL

\* BeforeRecycled and return_resource run once per generation, alone on the
\* object.
THEOREM RecyclesOnce == RefSpec => []RecycledOnce
  <1>1. IInv => RecycledOnce
    BY Zenon DEF IInv, OwnerInv, Owner, RecycledOnce, Recycling, PrivatePCs
  <1>. QED BY <1>1, IInvAlways, PTL

\* The four together, which is what survives a Revive() (and a direct
\* ReleaseAdditionalReference): nothing above assumes ~WithRevive.
THEOREM ReviveKeepsPromises == RefSpec => []ReviveSafe
  <1>. QED BY HoldersAreSafe, RecyclesOnce, ChecksHold, CountCorrect, PTL DEF ReviveSafe

-----------------------------------------------------------------------------
(* Without a direct ReleaseAdditionalReference no slot is leaked. *)

LEMMA AdditionalInit == RefInit => AdditionalInv /\ RecycleOwed
  BY Zenon DEF RefInit, AdditionalInv, Gap, RecycleOwed

LEMMA AdditionalNext ==
  ASSUME ~CleanRelease, IInv, AdditionalInv, [RefNext]_refVars
  PROVE  AdditionalInv'
  <1> USE DEF RefGoto
  <1>1. CASE UNCHANGED refVars
    BY <1>1, Zenon DEF refVars, AdditionalInv, Gap
  <1>2. ASSUME NEW t \in Threads, Step(t) PROVE AdditionalInv'
    <2> USE DEF IInv, RefTypeOK, AdditionalInv, Gap, NoCheckFailure
    <2>1. CASE CreateGet(t) BY <2>1 DEF CreateGet, HolderInv, OwnerInv, Owner, PrivatePCs
    <2>2. CASE CreateAdd(t) BY <2>2 DEF CreateAdd
    <2>3. CASE CreateInit(t) BY SMTT(30), <2>3 DEF CreateInit, OwnerInv, HolderInv, Owner, PrivatePCs
    <2>4. CASE CreateDone(t) BY <2>4 DEF CreateDone
    <2>5. CASE CreateFailed(t) BY <2>5 DEF CreateFailed
    <2>6. ASSUME NEW id \in ids, NEW failedAsWell \in BOOLEAN, Address(t, id, failedAsWell)
          PROVE  AdditionalInv'
      <3>1. /\ UNCHANGED <<ver, thisId, addStatus, free>>
            /\ refpc' = refpc \/ refpc' = [refpc EXCEPT ![t] = "addrSub"]
            /\ refpc[t] = "ready"
        BY <2>6, Zenon DEF Address
      <3>. QED BY <3>1, Zenon
    <2>7. CASE AddrSub(t) BY <2>7 DEF AddrSub, AddrSubNext
    <2>8. ASSUME NEW u \in Threads, ReAddress(t, u) PROVE AdditionalInv'
      BY <2>8, Zenon DEF ReAddress
    <2>9. CASE SetFailed(t) BY <2>9 DEF SetFailed
    <2>10. CASE SetFailedLoad(t) BY <2>10 DEF SetFailedLoad
    <2>11. CASE SetFailedCas(t) BY SMTT(30), <2>11 DEF SetFailedCas, OwnerInv, HolderInv, Owner, PrivatePCs
    <2>12. CASE OnFailedDone(t) BY <2>12 DEF OnFailedDone
    <2>13. CASE ReleaseDirect(t) BY <2>13 DEF ReleaseDirect
    <2>14. CASE ReleaseAdditionalReference(t) BY <2>14 DEF ReleaseAdditionalReference, ReviveInv
    <2>15. CASE Release(t) BY <2>15 DEF Release, Dereference, DerefNext
    <2>16. CASE ReleaseAdditionalDeref(t) BY <2>16 DEF ReleaseAdditionalDeref, Dereference, DerefNext
    <2>17. CASE RecycleCas(t)
      BY SMTT(30), <2>17, RecycleClaims DEF RecycleCas, Owner, PrivatePCs
    <2>18. CASE ReturnResource(t) BY <2>18 DEF ReturnResource
    <2>19. CASE Revive(t) BY <2>19 DEF Revive
    <2>20. CASE ReviveMark(t) BY <2>20 DEF ReviveMark, SnapInv, ReviveInv
    <2>21. CASE ReviveCas(t) BY SMTT(30), <2>21 DEF ReviveCas, SnapInv, ReviveInv, HolderInv
    <2>22. CASE ReviveDone(t) BY <2>22 DEF ReviveDone
    <2>. QED BY <1>2, <2>1, <2>2, <2>3, <2>4, <2>5, <2>6, <2>7, <2>8, <2>9, <2>10, <2>11,
             <2>12, <2>13, <2>14, <2>15, <2>16, <2>17, <2>18, <2>19, <2>20, <2>21, <2>22, Zenon DEF Step, UsualStep, UsualStep
  <1>. QED BY <1>1, <1>2, Zenon DEF RefNext

LEMMA OwedNext ==
  ASSUME ~CleanRelease, IInv, AdditionalInv, RecycleOwed, [RefNext]_refVars
  PROVE  RecycleOwed'
  <1> USE DEF RefGoto
  <1>1. CASE UNCHANGED refVars
    BY <1>1, Zenon DEF refVars, RecycleOwed, Recycling
  <1>2. ASSUME NEW t \in Threads, Step(t) PROVE RecycleOwed'
    <2> USE DEF IInv, RefTypeOK, RecycleOwed, Recycling
    \* Whoever holds a reference, or works on the object in Create's name,
    \* keeps the count above zero.
    <2>a. \A u \in Threads : held[u] \/ u \in Carriers => nref >= 1
      BY CountFacts, Zenon
    <2>b. \A u \in Threads : refpc[u] \in PrivatePCs => nref >= 1
      <3> SUFFICES ASSUME NEW u \in Threads, refpc[u] \in PrivatePCs, ~held[u], refpc[u] # "relDeref"
                   PROVE  nref >= 1
        BY <2>a, Zenon DEF PrivatePCs, Carriers
      <3>1. addStatus = "USING" /\ ~free /\ \A w \in Threads : w # u => ~Owner(w)
        BY Zenon DEF OwnerInv, Owner
      <3>2. Live
        BY <3>1, Zenon DEF Live, Owner, PrivatePCs
      <3>3. AdditionalRef = 1
        BY <3>1, <3>2, Zenon DEF AdditionalRef
      <3>. QED BY <3>3, CountFacts DEF RefCountExact
    <2>1. CASE CreateGet(t) BY <2>1 DEF CreateGet
    <2>2. CASE CreateAdd(t)
      <3>1. nref >= 0
        BY CountFacts DEF RefCountExact, AdditionalRef
      <3>. QED BY <2>2, <3>1 DEF CreateAdd
    <2>3. CASE CreateInit(t) BY <2>3, <2>a DEF CreateInit, Carriers
    <2>4. CASE CreateDone(t) BY <2>4, <2>b DEF CreateDone, PrivatePCs
    <2>5. CASE CreateFailed(t) BY <2>5, <2>b DEF CreateFailed, PrivatePCs
    <2>6. ASSUME NEW id \in ids, NEW failedAsWell \in BOOLEAN, Address(t, id, failedAsWell)
          PROVE  RecycleOwed'
      <3>1. nref >= 0
        BY SMTT(30), CountFacts DEF RefCountExact, AdditionalRef
      <3>2. nref' = nref + 1
        BY <2>6, Zenon DEF Address
      <3>. QED BY SMTT(30), <3>1, <3>2
    <2>7. CASE AddrSub(t)
      <3> SUFFICES ASSUME ~free, nref = 1
                   PROVE  \/ \E u \in Threads : refpc'[u] = "recycling" \/ refpc'[u] = "createAdd"
                          \/ refpc'[t] \in {"derefCas", "addrCas"} /\ v'[t] = ver'
        BY SMTT(30), <2>7 DEF AddrSub
      <3>1. CASE ver % 2 # 0
        <4>1. AddrSubNext(t) # "check_failed"
          BY <3>1, <2>7, Zenon DEF AddrSub, AddrSubNext, SnapInv, Even
        <4>. QED BY SMTT(30), <4>1, <3>1, <2>7 DEF AddrSub, AddrSubNext
      <3>2. CASE ver % 2 = 0
        <4>0. IsFiniteSet(Carriers) /\ Cardinality(Holders) \in Nat /\ Cardinality(Carriers) \in Nat
          BY CountFacts, Zenon
        <4>1. t \in Carriers /\ Cardinality(Carriers) >= 1
          BY <2>7, <4>0, FS_EmptySet DEF AddrSub, Carriers
        <4>2. Cardinality(Carriers) = 1 /\ AdditionalRef = 0
          BY <4>0, <4>1 DEF RefCountExact, AdditionalRef
        <4>3. Carriers = {t}
          BY <4>0, <4>1, <4>2, FS_Singleton
        <4>4. Gap
          <5> SUFFICES ASSUME ~Gap PROVE FALSE
            BY Zenon
          <5>1. Even(thisId) /\ (ver = thisId \/ ver = thisId + 1) /\ ~free
            BY Zenon DEF VersionInv, Gap
          <5>2. ver = thisId
            BY <5>1, <3>2, EvenFacts, Zenon DEF Even
          <5>3. addStatus = "USING"
            BY <5>2, <4>3, <2>7, Zenon DEF AdditionalInv, Carriers, AddrSub
          <5>. QED BY <5>3, <4>2 DEF AdditionalRef, Live, Gap
        <4>5. PICK u \in Threads : refpc[u] \in {"createAdd", "createInit", "recycling"}
          BY <4>4, Zenon DEF Gap
        <4>6. refpc[u] # "createInit" /\ u # t
          BY <4>3, <4>5, <2>7, Zenon DEF Carriers, AddrSub
        <4>7. refpc'[u] = refpc[u]
          BY <4>6, <2>7, Zenon DEF AddrSub
        <4>. QED BY <4>5, <4>6, <4>7, Zenon
      <3>. QED BY <3>1, <3>2, Zenon
    <2>8. ASSUME NEW u \in Threads, ReAddress(t, u) PROVE RecycleOwed'
      BY <2>8, <2>a DEF ReAddress
    <2>9. CASE SetFailed(t) BY <2>9, <2>a DEF SetFailed
    <2>10. CASE SetFailedLoad(t) BY <2>10, <2>b DEF SetFailedLoad, PrivatePCs
    <2>11. CASE SetFailedCas(t) BY <2>11, <2>b DEF SetFailedCas, PrivatePCs
    <2>12. CASE OnFailedDone(t) BY <2>12, <2>b DEF OnFailedDone, PrivatePCs
    <2>13. CASE ReleaseDirect(t) BY <2>13 DEF ReleaseDirect
    <2>14. CASE ReleaseAdditionalReference(t)
      BY <2>14, <2>b, Zenon DEF ReleaseAdditionalReference, PrivatePCs
    <2>15. CASE Release(t)
      <3>1. ver = thisId \/ ver = thisId + 1
        BY <2>15, Zenon DEF Release, OwnerInv, HolderInv, VersionInv, Gap, Owner
      <3>. QED BY <2>15, <3>1 DEF Release, Dereference, DerefNext
    <2>16. CASE ReleaseAdditionalDeref(t)
      <3>1. ver = thisId \/ ver = thisId + 1
        BY <2>16, Zenon DEF ReleaseAdditionalDeref, OwnerInv, HolderInv, VersionInv, Gap, Owner, PrivatePCs
      <3>. QED BY <2>16, <3>1 DEF ReleaseAdditionalDeref, Dereference, DerefNext
    <2>17. CASE RecycleCas(t) BY <2>17 DEF RecycleCas
    <2>18. CASE ReturnResource(t) BY <2>18 DEF ReturnResource
    <2>19. CASE Revive(t) BY <2>19, <2>a DEF Revive
    <2>20. CASE ReviveMark(t) BY <2>20, <2>a DEF ReviveMark, HolderInv
    <2>21. CASE ReviveCas(t)
      <3>1. nref >= 1
        BY <2>21, <2>a, Zenon DEF ReviveCas, HolderInv
      <3>2. nref' = nref \/ nref' = nref + 1
        BY <2>21, Zenon DEF ReviveCas
      <3>. QED BY <3>1, <3>2
    <2>22. CASE ReviveDone(t) BY <2>22, <2>a DEF ReviveDone, HolderInv
    <2>. QED BY <1>2, <2>1, <2>2, <2>3, <2>4, <2>5, <2>6, <2>7, <2>8, <2>9, <2>10, <2>11,
             <2>12, <2>13, <2>14, <2>15, <2>16, <2>17, <2>18, <2>19, <2>20, <2>21, <2>22, Zenon DEF Step, UsualStep, UsualStep
  <1>. QED BY <1>1, <1>2, Zenon DEF RefNext

\* As long as the additional reference is only released by SetFailed, a slot in
\* use whose count is zero is always about to be recycled: no interleaving of
\* stale Address calls with the last releases leaks it.
THEOREM NoSlotLeaked == ~CleanRelease => (RefSpec => []RecycleOwed)
  <1> SUFFICES ASSUME ~CleanRelease PROVE RefSpec => []RecycleOwed
    BY Zenon
  <1>1. RefInit => IInv /\ AdditionalInv /\ RecycleOwed
    BY IInvInit, AdditionalInit, Zenon
  <1>2. IInv /\ AdditionalInv /\ RecycleOwed /\ [RefNext]_refVars
            => (IInv /\ AdditionalInv /\ RecycleOwed)'
    BY IInvNext, AdditionalNext, OwedNext, Zenon
  <1>. QED BY <1>1, <1>2, PTL DEF RefSpec

\* As long as the additional reference is only released by SetFailed, OnFailed
\* runs once per failure of the object.
THEOREM FailsOnce == ~CleanRelease => (RefSpec => []OneFailer)
  <1> SUFFICES ASSUME ~CleanRelease PROVE RefSpec => []OneFailer
    BY Zenon
  <1>1. RefInit => IInv /\ AdditionalInv
    BY IInvInit, AdditionalInit, Zenon
  <1>2. IInv /\ AdditionalInv /\ [RefNext]_refVars => (IInv /\ AdditionalInv)'
    BY IInvNext, AdditionalNext, Zenon
  <1>3. AdditionalInv => OneFailer
    BY Zenon DEF AdditionalInv, OneFailer
  <1>. QED BY <1>1, <1>2, <1>3, PTL DEF RefSpec

NoReviver == \A t \in Threads : refpc[t] \notin {"rvMark", "rvCas", "rvDone"}

\* Where nobody calls Revive, as in this repository, an id that has failed is
\* never addressable again.
THEOREM FailedForGood == ~WithRevive => (RefSpec => NeverAddressableAgain)
  <1> SUFFICES ASSUME ~WithRevive PROVE RefSpec => NeverAddressableAgain
    BY Zenon
  <1>1. RefInit => NoReviver
    BY Zenon DEF RefInit, NoReviver
  <1>2. IInv /\ NoReviver /\ [RefNext]_refVars => NoReviver'
    <2> SUFFICES ASSUME IInv, NoReviver, [RefNext]_refVars PROVE NoReviver'
      BY Zenon
    <2> USE DEF NoReviver, IInv, RefTypeOK, RefGoto
    <2>1. CASE UNCHANGED refVars
      BY <2>1, Zenon DEF refVars
    <2>2. ASSUME NEW t \in Threads, Step(t) PROVE NoReviver'
      <3>1. refpc' = refpc \/ \E l \in PCs \ {"rvMark", "rvCas", "rvDone"} : refpc' = [refpc EXCEPT ![t] = l]
        BY <2>2, Zenon DEF Step, UsualStep, PCs, CreateGet, CreateAdd, CreateInit, CreateDone, CreateFailed,
             Address, AddrSub, AddrSubNext, ReAddress, SetFailed, SetFailedLoad, SetFailedCas,
             OnFailedDone, ReleaseDirect, ReleaseAdditionalReference, Release, Dereference,
             DerefNext, ReleaseAdditionalDeref, RecycleCas, ReturnResource, Revive,
             ReviveMark, ReviveCas, ReviveDone
      <3>. QED BY <3>1, Zenon
    <2>. QED BY <2>1, <2>2, Zenon DEF RefNext
  <1>3. IInv /\ NoReviver /\ [RefNext]_refVars => [\A i \in ids : ver > i => ver' > i]_refVars
    <2> SUFFICES ASSUME IInv, NoReviver, NEW t \in Threads, Step(t)
                 PROVE  \A i \in ids : ver > i => ver' > i
      BY Zenon DEF RefNext, refVars
    <2> USE DEF IInv, RefTypeOK, NoReviver
    <2>1. CASE SetFailedCas(t)
      <3>1. ver' = ver \/ ver' = ver + 1
        BY <2>1, Zenon DEF SetFailedCas
      <3>. QED BY <3>1
    <2>2. CASE RecycleCas(t)
      <3>1. ver' = ver \/ (ver = v[t] /\ ver' = target[t])
        BY <2>2, Zenon DEF RecycleCas
      <3>2. v[t] < target[t]
        BY <2>2, Zenon DEF RecycleCas, SnapInv
      <3>. QED BY <3>1, <3>2
    <2>3. CASE ReviveCas(t)
      BY <2>3, Zenon DEF ReviveCas
    <2>4. CASE ver' = ver
      BY <2>4, Zenon
    <2>. QED
      BY <2>1, <2>2, <2>3, <2>4, Zenon DEF Step, UsualStep, CreateGet, CreateAdd, CreateInit, CreateDone,
         CreateFailed, Address, AddrSub, ReAddress, SetFailed, SetFailedLoad, OnFailedDone,
         ReleaseDirect, ReleaseAdditionalReference, Release, Dereference,
         ReleaseAdditionalDeref, ReturnResource, Revive, ReviveMark, ReviveDone
  <1>. QED BY <1>1, <1>2, <1>3, IInvAlways, PTL DEF RefSpec, NeverAddressableAgain
=============================================================================
