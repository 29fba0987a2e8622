-------------------------- MODULE WriteQueueProofs --------------------------
(***************************************************************************)
(* Proofs that the invariants of WriteQueue hold for any set of requests,  *)
(* any number of parts and any size of a work request: the parts of a      *)
(* request add up, failed posts are reported, and the theorems.            *)
(***************************************************************************)
EXTENDS WriteQueueLists, FiniteSetTheorems

-----------------------------------------------------------------------------
(* What follows from the invariant *)

\* A one-to-one function from a finite set onto another set counts it.
LEMMA OneToOneCount ==
    ASSUME NEW S, NEW T, IsFiniteSet(S), NEW f \in [S -> T],
           \A x, y \in S : f[x] = f[y] => x = y,
           \A t \in T : \E x \in S : f[x] = t
    PROVE  IsFiniteSet(T) /\ Cardinality(T) = Cardinality(S)
<1>1. f \in Injection(S, T)
  BY Zenon DEF Injection, IsInjective
<1>2. f \in Surjection(S, T)
  BY Zenon DEF Surjection
<1>3. ExistsBijection(S, T)
  BY <1>1, <1>2, Zenon DEF ExistsBijection, Bijection
<1> QED
  BY <1>3, FS_Bijection, Zenon

\* The number of returned requests is the length of the returned prefix of the order.
LEMMA ReturnedCount ==
    ASSUME TypeOK, OrderInv, NEW k \in 0..Len(order), QueueInv(k)
    PROVE  Cardinality({q \in Reqs : mem[q] \in {"ok", "failed"}}) = k
<1> DEFINE R == {q \in Reqs : mem[q] \in {"ok", "failed"}}
           f == [i \in 1..k |-> order[i]]
<1>1. Len(order) \in Nat /\ \A i \in 1..Len(order) : order[i] \in Reqs
  BY OrderNodes, Zenon
<1>2. \A i \in 1..k : i \in 1..Len(order)
  BY <1>1
<1>3. ASSUME NEW i \in 1..k PROVE order[i] \in R
  <2>1. mem[order[i]] # "queued"
    BY <1>1, <1>2 DEF QueueInv
  <2>2. mem[order[i]] # "unused"
    BY <1>1, <1>2, Zenon DEF OrderInv
  <2>3. order[i] \in Reqs
    BY <1>1, <1>2, Zenon
  <2> QED
    BY <2>1, <2>2, <2>3, Zenon DEF TypeOK
<1>4. ASSUME NEW q \in R PROVE \E i \in 1..k : f[i] = q
  <2>1. PICK i \in 1..Len(order) : order[i] = q
    BY Zenon DEF OrderInv
  <2>2. ~(i > k)
    BY <2>1, Zenon DEF QueueInv
  <2>3. i \in 1..k
    BY <1>1, <2>2
  <2> QED
    BY <2>1, <2>3, Zenon
<1>5. \A x, y \in 1..k : f[x] = f[y] => x = y
  BY <1>2, Zenon DEF OrderInv
<1>6. f \in [1..k -> R]
  BY <1>3, Zenon
<1>7. IsFiniteSet(1..k) /\ Cardinality(1..k) = k
  BY <1>1, FS_Interval
<1> HIDE DEF f, R
<1>8. Cardinality(R) = Cardinality(1..k)
  BY <1>4, <1>5, <1>6, <1>7, OneToOneCount, Zenon
<1> QED
  BY <1>7, <1>8, Zenon DEF R

\* Accepted requests leave the queue in the order of their exchange.
LEMMA InvNoneLost == IInv => NoneLost
<1> SUFFICES ASSUME IInv PROVE NoneLost
  BY Zenon
<1>0. TypeOK /\ OrderInv
  BY Zenon DEF IInv
<1>1. PICK k \in 0..Len(order) : QueueInv(k)
  BY Zenon DEF IInv, ListInv
<1>2. Cardinality({q \in Reqs : mem[q] \in {"ok", "failed"}}) = k
  BY <1>0, <1>1, ReturnedCount, Zenon
<1>3. Len(order) \in Nat /\ \A i \in 1..Len(order) : order[i] \in Reqs
  BY <1>0, OrderNodes, Zenon
<1>4. ASSUME NEW r \in Reqs, Owns(r)
      PROVE  k + Len(mine[r]) <= Len(order) /\ mine[r] = SubSeq(order, k + 1, k + Len(mine[r]))
  <2> DEFINE n == Len(mine[r])
  <2>1. /\ mine[r] \in Seq(Reqs) /\ n \in Nat /\ k + n <= Len(order)
        /\ \A i \in 1..n : mine[r][i] = order[k + i]
    BY <1>0, <1>1, <1>4, ReqsList, Zenon DEF TypeOK, QueueInv
  <2> DEFINE lo == k + 1
             hi == k + n
             s == SubSeq(order, lo, hi)
  <2>2. /\ s \in Seq(Reqs) /\ Len(s) = IF lo <= hi THEN hi - lo + 1 ELSE 0
        /\ \A i \in 1..hi - lo + 1 : s[i] = order[lo + i - 1]
    <3>1. \A i \in lo..hi : order[i] \in Reqs
      BY <1>3, <2>1 DEF n
    <3>2. lo \in Int /\ hi \in Int
      BY <2>1
    <3> HIDE DEF lo, hi
    <3> QED
      BY <3>1, <3>2, SeqPart
  <2> HIDE DEF n
  <2>3. Len(s) = n /\ \A i \in 1..n : s[i] = order[k + i]
    BY <2>1, <2>2
  <2> HIDE DEF s
  <2>4. s = mine[r]
    BY <2>1, <2>2, <2>3, SeqSame, SMTT(30) DEF n
  <2> QED
    BY <2>1, <2>4, Zenon DEF s, n
<1>5. \A i \in 1..Len(order) : mem[order[i]] = "queued" <=> i > k
  BY <1>1, Zenon DEF QueueInv
<1>6. head = IF k = Len(order) THEN NULL ELSE LastOf(order)
  BY <1>1, Zenon DEF QueueInv, LastOf
<1> QED
  BY <1>2, <1>4, <1>5, <1>6, Zenon DEF NoneLost

\* The parts go out in the order of the exchanges.
LEMMA InvInOrder == IInv => InOrder
<1> SUFFICES ASSUME IInv, NEW i \in 1..Len(wire), NEW j \in 1..Len(wire), i < j
             PROVE  Position(wire[i].req) <= Position(wire[j].req)
  BY Zenon DEF InOrder
<1>0. TypeOK /\ OrderInv /\ WireInv /\ CutOrderInv
  BY Zenon DEF IInv
<1>1. ASSUME NEW n \in 1..Len(wire) PROVE wire[n].req \in Reqs
  <2>1. wire[n] \in Part
    BY <1>0, SeqHas, Zenon DEF TypeOK, Part
  <2> QED
    BY <2>1, Zenon DEF Part
<1>2. ASSUME NEW n \in 1..Len(wire)
      PROVE  Position(wire[n].req) \in 1..Len(order) /\ order[Position(wire[n].req)] = wire[n].req
  <2>1. \E a \in 1..Len(order) : order[a] = wire[n].req
    BY <1>0, <1>1, Zenon DEF WireInv, OrderInv
  <2> QED
    BY <2>1, Zenon DEF Position
<1>3. i <= j
  BY <1>0, SeqHas DEF TypeOK
<1> QED
  BY <1>0, <1>2, <1>3, Zenon DEF CutOrderInv, CutOrdered

\* The places on the wire and in the work request are finitely many.
LEMMA PartsFinite ==
    ASSUME TypeOK, NEW q
    PROVE  /\ IsFiniteSet(PartsOf(q)) /\ IsFiniteSet(Building(q))
           /\ Cardinality(PartsOf(q)) \in Nat /\ Cardinality(Building(q)) \in Nat
<1>1. Len(wire) \in Int /\ BlockParts \in Int
  BY SeqHas, WriteQueueAssumption DEF TypeOK
<1>2. IsFiniteSet(1..Len(wire)) /\ IsFiniteSet(1..BlockParts)
  BY <1>1, FS_Interval
<1>3. PartsOf(q) \in SUBSET (1..Len(wire)) /\ Building(q) \in SUBSET (1..BlockParts)
  BY Zenon DEF PartsOf, Building
<1>4. IsFiniteSet(PartsOf(q)) /\ IsFiniteSet(Building(q))
  BY <1>2, <1>3, FS_Subset, Zenon
<1> QED
  BY <1>4, FS_CardinalityType, Zenon

\* A request that is returned as successful has all its parts on the wire, none failed.
LEMMA InvFailedPostsShow == IInv => FailedPostsShow
<1> SUFFICES ASSUME IInv, NEW q \in Reqs, mem[q] = "ok"
             PROVE  /\ Cardinality(PartsOf(q)) = NParts
                    /\ \A i \in PartsOf(q) : wire[i].post # "failed"
  BY Zenon DEF FailedPostsShow
<1>0. TypeOK /\ ControlInv /\ BuildInv /\ CountInv /\ FatalInv
  BY Zenon DEF IInv
<1>1. Building(q) = {}
  <2> SUFFICES ASSUME NEW i \in 1..BlockParts, NEW r \in Reqs, i <= Len(wr[r]), wr[r][i] = q
               PROVE  FALSE
    BY Zenon DEF Building
  <2>1. Len(wr[r]) \in Nat /\ (wr[r] = <<>> <=> Len(wr[r]) = 0)
    BY <1>0, ReqsList, Zenon DEF TypeOK
  <2>2. i \in 1..Len(wr[r]) /\ wr[r] # <<>>
    BY <2>1, WriteQueueAssumption
  <2>3. Owns(r)
    BY <1>0, <2>2, Zenon DEF ControlInv, Control, Owns
  <2>4. PICK j \in 1..Len(mine[r]) : mine[r][j] = q
    BY <1>0, <2>2, Zenon DEF BuildInv
  <2>5. mem[q] = "queued"
    BY <2>3, <2>4, InvSafeMemory, Zenon DEF SafeMemory
  <2> QED
    BY <2>5, Zenon
<1>2. Cardinality(PartsOf(q)) \in Nat /\ Cardinality(Building(q)) = 0
  BY <1>0, <1>1, PartsFinite, FS_EmptySet, Zenon
<1>3. Cardinality(PartsOf(q)) = NParts
  BY <1>0, <1>2, WriteQueueAssumption, SMTT(30) DEF CountInv, Counted
<1>4. ASSUME NEW i \in PartsOf(q) PROVE wire[i].post # "failed"
  BY <1>0, Zenon DEF FatalInv, PartsOf
<1> QED
  BY <1>3, <1>4, Zenon

-----------------------------------------------------------------------------
(* The parts of a request add up *)

\* A failed list is drained until the right to write is given up.
LEMMA DrainKept ==
    ASSUME IInv, [Next]_vars, NEW x \in Reqs, Owns(x), mode[x] = "drain", \A r \in Reqs : ~CasNoMore(r)
    PROVE  Owns(x)' /\ mode'[x] = "drain"
<1> USE DEF writerVars, connVars, failVars, Goto, Writer
<1>0. TypeOK /\ ControlInv /\ SingleWriter
  BY Zenon DEF IInv
<1>t. mode \in [Reqs -> {"first", "keep", "drain"}] /\ wpc \in [Reqs -> WriterPCs]
  BY <1>0, Updated, Zenon
<1>c. wpc[x] \in {"onFailed", "walk", "complete", "reverse"}
  BY <1>0, <1>t, Zenon DEF ControlInv, Control, Owns, WriterPCs
<1>p. x # pending
  BY <1>0, <1>c, WriteQueueAssumption, Zenon DEF SingleWriter
<1>o. Owns(x)'
  <2>1. ASSUME NEW r \in Reqs, Exchange(r) PROVE Owns(x)'
    <3>1. head # NULL
      BY <1>0, Zenon DEF SingleWriter
    <3> QED
      BY <2>1, <3>1, ExchangeOwns, Zenon
  <2> QED
    BY <2>1, OwnsKept, Zenon
<1>1. CASE \E r \in Reqs : Producer(r)
  <2>1. UNCHANGED mode
    BY <1>1, Zenon DEF Producer, StartWriteRefused, StartWrite, Exchange, LinkPrev, WonRight, CheckHandshake,
                ConnectFails, ConnectStarted, ConnectRollback
  <2> QED
    BY <1>o, <2>1, Zenon
<1>2. CASE \E r \in Reqs : StartKeepWrite(r) \/ BeginWrite(r) \/ CutPart(r) \/ PostSend(r) \/ PostSendFails(r)
                           \/ EndCut(r) \/ AfterWrite(r) \/ Waited(r) \/ CasNewRequests(r)
                           \/ OnFailedReturns(r) \/ WalkFailed(r)
  <2>1. UNCHANGED mode
    BY <1>2, ZenonT(30) DEF StartKeepWrite, BeginWrite, CutPart, PostSend, PostSendFails, EndCut, AfterWrite, Waited,
                CasNewRequests, OnFailedReturns, WalkFailed
  <2> QED
    BY <1>o, <2>1, Zenon
<1>3. ASSUME NEW r \in Reqs, CasUnwritten(r) \/ ReverseList(r) \/ FailWrite(r) PROVE mode'[x] = "drain"
  <2>1. \/ mode' = mode \/ mode' = [mode EXCEPT ![r] = NextMode(r)] \/ mode' = [mode EXCEPT ![r] = "drain"]
    BY <1>3, Zenon DEF CasUnwritten, ReverseList, FailWrite
  <2> QED
    BY <1>t, <2>1, Zenon DEF NextMode
<1>4. CASE Connection \/ BeforeRecycled
  <2>1. mode' = mode \/ mode' = [r \in Reqs |-> IF r = pending THEN "keep" ELSE mode[r]]
                     \/ mode' = [r \in Reqs |-> IF r = pending THEN "drain" ELSE mode[r]]
    BY <1>4, Zenon DEF Connection, OnClientHandshake, HandshakeDone, HandshakeTake, HandshakeFailPending, BeforeRecycled
  <2> QED
    BY <1>o, <1>p, <2>1, Zenon
<1>5. CASE FailedByOthers \/ OnFailed \/ Recycle \/ UNCHANGED vars
  BY <1>o, <1>5, Zenon DEF FailedByOthers, OnFailed, Recycle, vars
<1> QED
  BY <1>o, <1>1, <1>2, <1>3, <1>4, <1>5, Zenon DEF Next, WriterStep

\* A request is returned as successful by a writer that does not drain, and has
\* no data left.
LEMMA OkChanges ==
    ASSUME IInv, NEW r \in Reqs, BeginWrite(r) \/ AfterWrite(r) \/ CasNoMore(r) \/ WalkFailed(r),
           NEW q \in Reqs, mem'[q] = "ok", mem[q] # "ok"
    PROVE  left[q] = 0 /\ mem[q] = "queued" /\ Owns(r) /\ mode[r] # "drain"
<1>0. TypeOK /\ ControlInv
  BY Zenon DEF IInv
<1>t. mem \in [Reqs -> {"unused", "queued", "ok", "failed"}]
  BY <1>0, Updated, Zenon
<1>1. mem[q] = "queued"
  BY MemChanges, Zenon
<1>2. wpc[r] \in {"begin", "cutDone", "complete", "walk"} /\ Owns(r)
  BY Zenon DEF BeginWrite, AfterWrite, CasNoMore, WalkFailed, Owns
<1>3. wpc[r] \in {"begin", "cutDone"} => mode[r] # "drain"
  BY <1>0, Zenon DEF ControlInv, Control
<1>4. CASE BeginWrite(r)
  <2>1. mem' = mem \/ (left[First(r)] = 0 /\ mem' = [mem EXCEPT ![First(r)] = "ok"])
    BY <1>4, Zenon DEF BeginWrite
  <2>2. wpc[r] = "begin"
    BY <1>4, Zenon DEF BeginWrite
  <2> QED
    BY <1>t, <1>1, <1>2, <1>3, <2>1, <2>2, Zenon
<1>5. CASE AfterWrite(r)
  <2>1. mem' = mem \/ mem' = [y \in Reqs |-> IF y \in Prefix(mine[r], WrittenPrefix(r)) THEN "ok" ELSE mem[y]]
    BY <1>5, Zenon DEF AfterWrite
  <2>2. wpc[r] = "cutDone"
    BY <1>5, Zenon DEF AfterWrite
  <2>3. q \in Prefix(mine[r], WrittenPrefix(r))
    BY <2>1, Zenon
  <2>4. PICK i \in 1..WrittenPrefix(r) : q = mine[r][i]
    BY <2>3, Zenon DEF Prefix
  <2> QED
    BY <1>0, <1>1, <1>2, <1>3, <2>2, <2>4, WrittenPrefixIs, Zenon
<1>6. CASE CasNoMore(r)
  <2>1. PICK k : Listed(k)
    BY Zenon DEF IInv, ListInv, Listed
  <2>2. Len(mine[r]) = 1 /\ First(r) \in Reqs
    BY <1>6, <2>1, LastNode, Zenon
  <2>3. wpc[r] = "complete" /\ left[OldHead(r)] = 0
        /\ mem' = [mem EXCEPT ![First(r)] = IF mode[r] = "drain" THEN "failed" ELSE "ok"]
    BY <1>6, Zenon DEF CasNoMore
  <2>4. First(r) = OldHead(r)
    <3>1. OldHead(r) = LastOf(mine[r])
      BY <2>3, InvChecksHold, Zenon DEF ChecksHold
    <3>2. First(r) = mine[r][1]
      BY <1>0, <2>3, ListNodes, Zenon
    <3> QED
      BY <2>2, <3>1, <3>2, Zenon DEF LastOf
  <2>5. q = First(r) /\ mode[r] # "drain"
    BY <1>t, <2>2, <2>3, Zenon
  <2> QED
    BY <1>1, <1>2, <2>3, <2>4, <2>5, Zenon
<1>7. CASE WalkFailed(r)
  BY <1>7, Zenon DEF WalkFailed
<1> QED
  BY <1>4, <1>5, <1>6, <1>7, Zenon

\* Giving the right to write away leaves nothing queued.
LEMMA NoneQueued ==
    ASSUME IInv, NEW r \in Reqs, CasNoMore(r), NEW q \in Reqs
    PROVE  mem'[q] # "queued"
<1>0. TypeOK /\ OrderInv
  BY Zenon DEF IInv
<1>t. mem \in [Reqs -> {"unused", "queued", "ok", "failed"}]
  BY <1>0, Updated, Zenon
<1>1. PICK k : Listed(k)
  BY Zenon DEF IInv, ListInv, Listed
<1>2. k \in Nat /\ k + 1 = Len(order) /\ First(r) = order[k + 1] /\ First(r) \in Reqs
  BY <1>1, LastNode, Zenon
<1>3. mem'[First(r)] \in {"ok", "failed"} /\ \A x \in Reqs : x # First(r) => mem'[x] = mem[x]
  BY <1>t, <1>2, Zenon DEF CasNoMore
<1>4. ASSUME mem[q] = "queued" PROVE q = First(r)
  <2>1. PICK i \in 1..k + 1 : order[i] = q
    BY <1>0, <1>2, <1>4, Zenon DEF OrderInv
  <2>2. i > k
    BY <1>1, <1>2, <1>4, <2>1, Zenon DEF Listed, QueueInv
  <2> QED
    BY <1>2, <2>1, <2>2, SMTT(30)
<1> QED
  BY <1>3, <1>4, Zenon

\* When nothing is cut or posted, what is counted was counted before.
LEMMA CountKept ==
    ASSUME IInv, UNCHANGED <<wire, wr>>,
           \A q \in Reqs : Counted(q)' => Counted(q) /\ left'[q] = left[q],
           \A q \in Reqs : mem'[q] = "ok" => left[q] = 0
    PROVE  CountInv'
<1> SUFFICES ASSUME NEW q \in Reqs
             PROVE  /\ Counted(q)' => Cardinality(PartsOf(q)') + Cardinality(Building(q)') = NParts - left'[q]
                    /\ mem'[q] = "ok" => left'[q] = 0
  BY Zenon DEF CountInv
<1>1. PartsOf(q)' = PartsOf(q) /\ Building(q)' = Building(q)
  BY Zenon DEF PartsOf, Building
<1>2. Counted(q) => Cardinality(PartsOf(q)) + Cardinality(Building(q)) = NParts - left[q]
  BY Zenon DEF IInv, CountInv
<1>3. mem'[q] = "ok" => Counted(q)'
  BY Zenon DEF Counted
<1> QED
  BY <1>1, <1>2, <1>3, Zenon

\* Every step that does not cut or post keeps the count.
LEMMA CountOthers ==
    ASSUME IInv, [Next]_vars, \A r \in Reqs : ~CutPart(r) /\ ~PostSend(r) /\ ~PostSendFails(r)
    PROVE  CountInv'
<1> USE DEF writerVars, connVars, failVars, Goto, Writer
<1>0. TypeOK /\ SingleWriter /\ CountInv /\ ControlInv
  BY Zenon DEF IInv
<1>t. mem \in [Reqs -> {"unused", "queued", "ok", "failed"}] /\ left \in [Reqs -> 0..NParts]
  BY <1>0, Updated, Zenon
<1>d. (\A r \in Reqs : ~CasNoMore(r)) =>
         \A x \in Reqs : Owns(x) /\ mode[x] = "drain" => Owns(x)' /\ mode'[x] = "drain"
  BY DrainKept, Zenon
<1>1. ASSUME NEW r \in Reqs, Exchange(r) PROVE CountInv'
  <2>2. UNCHANGED <<wire, wr, left, mode, wpc>> /\ mem[r] = "unused" /\ mem'[r] = "queued"
        /\ \A q \in Reqs : q # r => mem'[q] = mem[q]
    BY <1>0, <1>1, Published, Zenon
  <2>3. \A x \in Reqs : Owns(x) /\ mode[x] = "drain" => Owns(x)' /\ mode'[x] = "drain"
    <3>1. head # NULL \/ \A x \in Reqs : ~Owns(x)
      BY <1>0, Zenon DEF SingleWriter
    <3> QED
      BY <1>1, <2>2, <3>1, ExchangeOwns, Zenon
  <2>4. \A q \in Reqs : Counted(q)' => Counted(q) /\ left'[q] = left[q]
    BY <1>t, <2>2, <2>3, Zenon DEF Counted
  <2>5. \A q \in Reqs : mem'[q] = "ok" => left[q] = 0
    BY <1>0, <2>2, Zenon DEF CountInv
  <2> QED
    BY <2>2, <2>4, <2>5, CountKept, Zenon
<1>2. ASSUME NEW r \in Reqs, BeginWrite(r) \/ AfterWrite(r) PROVE CountInv'
  <2>1. UNCHANGED <<wire, wr, left, mode>> /\ Owns(r)
    BY <1>2, Zenon DEF BeginWrite, AfterWrite, Owns
  <2>2. \A x \in Reqs : Owns(x)' <=> Owns(x)
    <3>1. wpc[r] \in {"begin", "cutDone"} /\ pc' = pc
      BY <1>2, Zenon DEF BeginWrite, AfterWrite
    <3>2. wpc' = [wpc EXCEPT ![r] = wpc'[r]] /\ wpc'[r] \notin {"none", "done"}
      <4>1. wpc \in [Reqs -> WriterPCs]
        BY <1>0, Updated, Zenon
      <4> QED
        BY <1>2, <4>1, Zenon DEF BeginWrite, AfterWrite
    <3>3. \A x \in Reqs : x # r => wpc'[x] = wpc[x]
      <4>1. wpc \in [Reqs -> WriterPCs]
        BY <1>0, Updated, Zenon
      <4> QED
        BY <3>2, <4>1, Zenon
    <3> QED
      BY <3>1, <3>2, <3>3, Zenon DEF Owns
  <2>3. mode[r] # "drain"
    BY <1>0, <1>2, Zenon DEF BeginWrite, AfterWrite, ControlInv, Control
  <2>4. \A q \in Reqs : /\ mem'[q] = mem[q] \/ mem[q] = "queued"
                        /\ mem'[q] = "ok" /\ mem[q] # "ok" => left[q] = 0 /\ mem[q] = "queued"
    BY <1>2, MemChanges, OkChanges, Zenon
  <2>5. \A x \in Reqs : Owns(x) => mode[x] # "drain"
    BY <1>0, <2>1, <2>3, Zenon DEF SingleWriter
  <2>6. \A q \in Reqs : Counted(q)' => Counted(q) /\ left'[q] = left[q]
    BY <2>1, <2>4, <2>5, Zenon DEF Counted
  <2>7. \A q \in Reqs : mem'[q] = "ok" => left[q] = 0
    BY <1>0, <2>4, Zenon DEF CountInv
  <2> QED
    BY <2>1, <2>6, <2>7, CountKept, Zenon
<1>3. ASSUME NEW r \in Reqs, CasNoMore(r) PROVE CountInv'
  <2>1. UNCHANGED <<wire, wr, left>>
    BY <1>3, Zenon DEF CasNoMore
  <2>2. \A q \in Reqs : /\ mem'[q] = mem[q] \/ mem[q] = "queued"
                        /\ mem'[q] = "ok" /\ mem[q] # "ok" => left[q] = 0 /\ mem[q] = "queued" /\ Owns(r) /\ mode[r] # "drain"
    BY <1>3, MemChanges, OkChanges, Zenon
  <2>3. ASSUME NEW q \in Reqs PROVE mem'[q] # "queued"
    BY <1>3, NoneQueued, Zenon
  <2>4. ASSUME NEW q \in Reqs, mem'[q] = "ok", mem[q] # "ok" PROVE Counted(q)
    <3>1. mem[q] = "queued" /\ Owns(r) /\ mode[r] # "drain"
      BY <2>2, <2>4, Zenon
    <3>2. \A x \in Reqs : Owns(x) => x = r
      BY <1>0, <3>1, Zenon DEF SingleWriter
    <3> QED
      BY <3>1, <3>2, Zenon DEF Counted
  <2>5. \A q \in Reqs : Counted(q)' => Counted(q) /\ left'[q] = left[q]
    <3>1. ASSUME NEW q \in Reqs, Counted(q)' PROVE Counted(q)
      <4>1. mem'[q] = "ok" \/ mem'[q] = "unused"
        BY <2>3, <3>1, Zenon DEF Counted
      <4>2. mem'[q] = "unused" => mem[q] = "unused"
        BY <1>3, MemChanges, Zenon
      <4>3. mem[q] = "ok" \/ mem[q] = "unused" => Counted(q)
        BY Zenon DEF Counted
      <4> QED
        BY <2>4, <4>1, <4>2, <4>3, Zenon
    <3> QED
      BY <2>1, <3>1, Zenon
  <2>6. \A q \in Reqs : mem'[q] = "ok" => left[q] = 0
    BY <1>0, <2>2, Zenon DEF CountInv
  <2> QED
    BY <2>1, <2>5, <2>6, CountKept, Zenon
<1>4. ASSUME NEW r \in Reqs, WalkFailed(r) PROVE CountInv'
  <2>1. UNCHANGED <<wire, wr, mode, pc>> /\ wpc[r] = "walk" /\ Writer(r, "complete")
        /\ left' = [left EXCEPT ![LastOf(mine[r])] = 0] /\ Owns(r)
    BY <1>4, Zenon DEF WalkFailed, Owns
  <2>2. mode[r] = "drain"
    BY <1>0, <2>1, Zenon DEF ControlInv, Control
  <2>3. Owns(r)' /\ mode'[r] = "drain"
    <3>1. wpc \in [Reqs -> WriterPCs]
      BY <1>0, Updated, Zenon
    <3> QED
      BY <2>1, <2>2, <3>1, Zenon DEF Owns
  <2>4. \A q \in Reqs : /\ mem'[q] = mem[q] \/ (mem[q] = "queued" /\ mem'[q] \in {"ok", "failed"})
                        /\ mem'[q] = "ok" => mem[q] = "ok"
    BY <1>4, <2>2, MemChanges, OkChanges, Zenon
  <2>5. mem[LastOf(mine[r])] = "queued"
    BY <1>0, <2>1, InvSafeMemory, ReturnedNodes, Zenon
  <2>6. \A q \in Reqs : mem[q] # "queued" => left'[q] = left[q]
    BY <1>t, <2>1, <2>5, Zenon
  <2>7. ASSUME NEW q \in Reqs, Counted(q)' PROVE Counted(q) /\ left'[q] = left[q]
    <3>1. mem'[q] \in {"unused", "ok"}
      BY <2>3, <2>7, Zenon DEF Counted
    <3>2. mem[q] \in {"unused", "ok"}
      BY <2>4, <3>1, Zenon
    <3> QED
      BY <2>6, <3>2, Zenon DEF Counted
  <2>8. \A q \in Reqs : mem'[q] = "ok" => left[q] = 0
    BY <1>0, <2>4, Zenon DEF CountInv
  <2> QED
    BY <2>1, <2>7, <2>8, CountKept, Zenon
<1>5. CASE \A r \in Reqs : ~Exchange(r) /\ ~BeginWrite(r) /\ ~AfterWrite(r) /\ ~CasNoMore(r) /\ ~WalkFailed(r)
  <2>1. UNCHANGED <<wire, wr, left, mem>>
    <3>1. CASE \A r \in Reqs : ~ListStepOf(r)
      BY <3>1, QuietSteps, Zenon DEF Quiet
    <3>2. ASSUME NEW r \in Reqs, StartWrite(r) \/ LinkPrev(r) \/ WonRight(r) \/ StartKeepWrite(r) \/ CasUnwritten(r)
                                 \/ CasNewRequests(r) \/ ReverseList(r)
          PROVE  UNCHANGED <<wire, wr, left, mem>>
      BY <3>2, Zenon DEF StartWrite, LinkPrev, WonRight, StartKeepWrite, CasUnwritten, CasNewRequests, ReverseList
    <3> QED
      BY <1>5, <3>1, <3>2, Zenon DEF ListStepOf
  <2>2. \A q \in Reqs : Counted(q)' => Counted(q) /\ left'[q] = left[q]
    BY <1>5, <1>d, <2>1, Zenon DEF Counted
  <2>3. \A q \in Reqs : mem'[q] = "ok" => left[q] = 0
    BY <1>0, <2>1, Zenon DEF CountInv
  <2> QED
    BY <2>1, <2>2, <2>3, CountKept, Zenon
<1> QED
  BY <1>1, <1>2, <1>3, <1>4, <1>5, Zenon

\* A part moves from the data of its request into the work request.
LEMMA CountCut ==
    ASSUME IInv, NEW r \in Reqs, CutPart(r)
    PROVE  CountInv'
<1>0. TypeOK /\ CountInv /\ SingleWriter
  BY Zenon DEF IInv
<1>f. UNCHANGED <<wire, mem, mode, pc, wpc>> /\ wpc[r] = "post" /\ Owns(r)
  BY Zenon DEF CutPart, Owns
<1>1. PICK q \in Reqs, u \in 1..Len(mine[r]) :
              /\ left[q] \in 1..NParts /\ mem[q] = "queued"
              /\ left'[q] = left[q] - 1 /\ \A x \in Reqs : x # q => left'[x] = left[x]
              /\ Len(wr'[r]) = Len(wr[r]) + 1 /\ Len(wr[r]) \in Nat /\ Len(wr[r]) < BlockParts
              /\ \A i \in 1..Len(wr[r]) : wr'[r][i] = wr[r][i]
              /\ wr'[r][Len(wr[r]) + 1] = q
              /\ \A x \in Reqs : x # r => wr'[x] = wr[x]
  BY CutNode, Zenon
<1>2. PICK n \in Nat : n = Len(wr[r])
  BY <1>1, Zenon
<1>3. \A x \in Reqs : x # r => Len(wr[x]) = 0 /\ Len(wr'[x]) = 0
  BY <1>1, <1>f, OthersBuildNothing, SMTT(30)
<1>4. n < BlockParts /\ BlockParts \in Nat /\ NParts \in Nat
  BY <1>1, <1>2, WriteQueueAssumption, Zenon
<1>5. \A x \in Reqs : Building(x) = {i \in 1..n : wr[r][i] = x}
  <2>1. ASSUME NEW x \in Reqs PROVE Building(x) = {i \in 1..n : wr[r][i] = x}
    <3>1. ASSUME NEW i \in 1..BlockParts, NEW y \in Reqs, i <= Len(wr[y]), wr[y][i] = x PROVE i \in 1..n /\ wr[r][i] = x
      BY <1>2, <1>3, <1>4, <3>1, SMTT(30)
    <3>2. ASSUME NEW i \in 1..n, wr[r][i] = x PROVE i \in 1..BlockParts /\ i <= Len(wr[r])
      BY <1>2, <1>4, SMTT(30)
    <3> QED
      BY <3>1, <3>2, Zenon DEF Building
  <2> QED
    BY <2>1, Zenon
<1>6. \A x \in Reqs : Building(x)' = {i \in 1..n + 1 : wr'[r][i] = x}
  <2>1. ASSUME NEW x \in Reqs PROVE Building(x)' = {i \in 1..n + 1 : wr'[r][i] = x}
    <3>1. ASSUME NEW i \in 1..BlockParts, NEW y \in Reqs, i <= Len(wr'[y]), wr'[y][i] = x PROVE i \in 1..n + 1 /\ wr'[r][i] = x
      BY <1>1, <1>2, <1>3, <1>4, <3>1, SMTT(30)
    <3>2. ASSUME NEW i \in 1..n + 1, wr'[r][i] = x PROVE i \in 1..BlockParts /\ i <= Len(wr'[r])
      BY <1>1, <1>2, <1>4, SMTT(30)
    <3> QED
      BY <3>1, <3>2, Zenon DEF Building
  <2> QED
    BY <2>1, Zenon
<1>7. Building(q)' = Building(q) \union {n + 1} /\ n + 1 \notin Building(q)
  <2>1. \A i : i \in 1..n + 1 <=> i \in 1..n \/ i = n + 1
    OBVIOUS
  <2>2. wr'[r][n + 1] = q /\ \A i \in 1..n : wr'[r][i] = wr[r][i]
    BY <1>1, <1>2, Zenon
  <2>3. n + 1 \notin 1..n
    OBVIOUS
  <2> QED
    BY <1>5, <1>6, <2>1, <2>2, <2>3, Zenon
<1>8. \A x \in Reqs : x # q => Building(x)' = Building(x)
  <2>1. \A i : i \in 1..n + 1 <=> i \in 1..n \/ i = n + 1
    OBVIOUS
  <2>2. wr'[r][n + 1] = q /\ \A i \in 1..n : wr'[r][i] = wr[r][i]
    BY <1>1, <1>2, Zenon
  <2>3. ASSUME NEW x \in Reqs, x # q PROVE Building(x)' = Building(x)
    <3>1. \A i : i \in Building(x)' <=> i \in Building(x)
      BY <1>5, <1>6, <2>1, <2>2, <2>3, SMTT(30)
    <3>2. Building(x)' \subseteq 1..n + 1 /\ Building(x) \subseteq 1..n
      BY <1>5, <1>6, Zenon
    <3> QED
      BY <3>1, <3>2, Zenon
  <2> QED
    BY <2>3, Zenon
<1>9. \A x \in Reqs : PartsOf(x)' = PartsOf(x) /\ (Counted(x)' <=> Counted(x))
  BY <1>f, Zenon DEF PartsOf, Counted, Owns
<1>10. IsFiniteSet(Building(q)) /\ Cardinality(PartsOf(q)) \in Nat /\ Cardinality(Building(q)) \in Nat
  BY <1>0, PartsFinite, Zenon
<1>11. Cardinality(Building(q)') = Cardinality(Building(q)) + 1
  BY <1>7, <1>10, FS_AddElement, Zenon
<1>12. ASSUME NEW x \in Reqs
       PROVE  /\ Counted(x)' => Cardinality(PartsOf(x)') + Cardinality(Building(x)') = NParts - left'[x]
              /\ mem'[x] = "ok" => left'[x] = 0
  <2>1. /\ Counted(x) => Cardinality(PartsOf(x)) + Cardinality(Building(x)) = NParts - left[x]
        /\ mem[x] = "ok" => left[x] = 0
    BY <1>0, Zenon DEF CountInv
  <2>2. CASE x # q
    BY <1>1, <1>8, <1>9, <1>f, <2>1, <2>2, Zenon
  <2>3. CASE x = q
    <3>1. Counted(q)' => Cardinality(PartsOf(q)') + Cardinality(Building(q)') = NParts - left'[q]
      BY <1>1, <1>4, <1>9, <1>10, <1>11, <2>1, <2>3, SMTT(30)
    <3> QED
      BY <1>1, <1>f, <2>3, <3>1, Zenon
  <2> QED
    BY <2>2, <2>3, SMTT(30)
<1> QED
  BY <1>12, Zenon DEF CountInv

\* The parts of the work request become parts on the wire.
LEMMA CountPosted ==
    ASSUME IInv, NEW r \in Reqs, PostSend(r) \/ PostSendFails(r)
    PROVE  CountInv'
<1>0. TypeOK /\ CountInv
  BY Zenon DEF IInv
<1>1. PICK a \in Nat : a = Len(wire)
  BY PostedWire, Zenon
<1>2. PICK n \in Nat : n = Len(wr[r])
  BY PostedWire, Zenon
<1>3. /\ UNCHANGED <<mem, left, mode>> /\ Len(wire') = a + n
      /\ \A i \in 1..a : wire'[i] = wire[i]
      /\ \A i \in 1..n : wire'[a + i].req = wr[r][i]
      /\ \A j \in 1..Len(wire') : j \in 1..a \/ \E i \in 1..n : j = a + i
      /\ \A x \in Reqs : Len(wr'[x]) = 0
      /\ \A x \in Reqs : x # r => Len(wr[x]) = 0
  BY <1>1, <1>2, PostedWire, Zenon
<1>4. \A x \in Reqs : Owns(x)' <=> Owns(x)
  <2>1. wpc \in [Reqs -> WriterPCs]
    BY <1>0, Updated, Zenon
  <2>2. pc' = pc /\ wpc[r] = "post" /\ (wpc' = wpc \/ wpc' = [wpc EXCEPT ![r] = "cutDone"])
    BY Zenon DEF PostSend, PostSendFails, Writer
  <2> QED
    BY <2>1, <2>2, Zenon DEF Owns
<1>5. \A x \in Reqs : Counted(x)' <=> Counted(x)
  BY <1>3, <1>4, Zenon DEF Counted
<1>6. \A i \in 1..n : i \in 1..BlockParts
  BY <1>2, Built, Zenon
<1> SUFFICES ASSUME NEW q \in Reqs
             PROVE  Cardinality(PartsOf(q)') + Cardinality(Building(q)')
                       = Cardinality(PartsOf(q)) + Cardinality(Building(q))
  BY <1>0, <1>3, <1>5, Zenon DEF CountInv
<1>7. Building(q) = {i \in 1..n : wr[r][i] = q}
  <2>1. ASSUME NEW i \in 1..BlockParts, NEW y \in Reqs, i <= Len(wr[y]), wr[y][i] = q PROVE i \in 1..n /\ wr[r][i] = q
    BY <1>2, <1>3, <2>1, WriteQueueAssumption, SMTT(30)
  <2>2. ASSUME NEW i \in 1..n, wr[r][i] = q PROVE i \in 1..BlockParts /\ i <= Len(wr[r])
    BY <1>2, <1>6, SMTT(30)
  <2> QED
    BY <2>1, <2>2, Zenon DEF Building
<1>8. Building(q)' = {}
  BY <1>3, WriteQueueAssumption DEF Building
<1> DEFINE New == {a + i : i \in Building(q)}
<1>9. PartsOf(q)' = PartsOf(q) \union New
  <2>1. ASSUME NEW j \in PartsOf(q)' PROVE j \in PartsOf(q) \union New
    <3>1. j \in 1..Len(wire') /\ wire'[j].req = q
      BY <2>1, Zenon DEF PartsOf
    <3>2. CASE j \in 1..a
      BY <1>1, <1>3, <3>1, <3>2, Zenon DEF PartsOf
    <3>3. ASSUME NEW i \in 1..n, j = a + i PROVE j \in New
      BY <1>3, <1>7, <3>1, <3>3, Zenon
    <3> QED
      BY <1>3, <3>1, <3>2, <3>3, Zenon
  <2>2. ASSUME NEW j \in PartsOf(q) PROVE j \in PartsOf(q)'
    <3>1. j \in 1..a /\ wire[j].req = q
      BY <1>1, <2>2, Zenon DEF PartsOf
    <3>2. j \in 1..a + n /\ wire'[j].req = q
      BY <1>3, <3>1
    <3> QED
      BY <1>3, <3>2, Zenon DEF PartsOf
  <2>3. ASSUME NEW i \in Building(q) PROVE a + i \in PartsOf(q)'
    <3>1. i \in 1..n /\ wr[r][i] = q
      BY <1>7, <2>3, Zenon
    <3>2. a + i \in 1..a + n /\ wire'[a + i].req = q
      BY <1>3, <3>1
    <3> QED
      BY <1>3, <3>2, Zenon DEF PartsOf
  <2> QED
    BY <2>1, <2>2, <2>3, Zenon
<1>10. PartsOf(q) \cap New = {}
  <2>1. ASSUME NEW j \in PartsOf(q), NEW i \in Building(q) PROVE j # a + i
    <3>1. j \in 1..a /\ i \in 1..n
      BY <1>1, <1>7, <2>1, Zenon DEF PartsOf
    <3> QED
      BY <3>1
  <2> QED
    BY <2>1, Zenon
<1>11. /\ IsFiniteSet(PartsOf(q)) /\ IsFiniteSet(Building(q))
       /\ Cardinality(PartsOf(q)) \in Nat /\ Cardinality(Building(q)) \in Nat
  BY <1>0, PartsFinite, Zenon
<1>12. IsFiniteSet(New) /\ Cardinality(New) = Cardinality(Building(q))
  <2> DEFINE f == [i \in Building(q) |-> a + i]
  <2>1. f \in [Building(q) -> New]
    BY Zenon
  <2>2. \A x, y \in Building(q) : f[x] = f[y] => x = y
    <3>1. \A x \in Building(q) : x \in Nat
      BY <1>7
    <3> QED
      BY <3>1
  <2>3. \A t \in New : \E x \in Building(q) : f[x] = t
    BY Zenon
  <2> HIDE DEF f, New
  <2> QED
    BY <1>11, <2>1, <2>2, <2>3, OneToOneCount, SMTT(30)
<1> HIDE DEF New
<1>13. Cardinality(PartsOf(q) \union New) = Cardinality(PartsOf(q)) + Cardinality(New)
  <2>1. Cardinality(PartsOf(q) \union New) = Cardinality(PartsOf(q)) + Cardinality(New) - Cardinality(PartsOf(q) \cap New)
    BY <1>11, <1>12, FS_Union, Zenon
  <2>2. Cardinality(PartsOf(q) \cap New) = 0
    BY <1>10, FS_EmptySet, Zenon
  <2> QED
    BY <1>11, <1>12, <2>1, <2>2, SMTT(30)
<1>14. Cardinality(Building(q)') = 0
  BY <1>8, FS_EmptySet, Zenon
<1> QED
  BY <1>9, <1>11, <1>12, <1>13, <1>14, SMTT(30)

\* Every step keeps what is cut and what is left of a request adding up.
LEMMA CountStep == IInv /\ [Next]_vars => CountInv'
BY CountOthers, CountCut, CountPosted, Zenon

-----------------------------------------------------------------------------
(* Failed posts *)

\* A doomed writer owns the right to write; it is not one that returns requests
\* as successful.
LEMMA DoomedOwns ==
    ASSUME IInv, NEW x \in Reqs, Doomed(x)
    PROVE  /\ Owns(x) /\ wpc[x] \notin {"begin", "post"} /\ x # pending
           /\ wpc[x] = "cutDone" => FatalWrite(x)
           /\ wpc[x] = "complete" => mode[x] = "drain"
<1>0. ControlInv /\ SingleWriter
  BY Zenon DEF IInv
<1>1. /\ wpc[x] \in {"begin", "post", "cutDone", "fail"} => mode[x] # "drain"
      /\ wpc[x] = "pending" => mode[x] = "first"
  BY <1>0, Zenon DEF ControlInv, Control
<1>2. x = pending => wpc[x] = "pending"
  BY <1>0, WriteQueueAssumption, Zenon DEF SingleWriter
<1> QED
  BY <1>1, <1>2, Zenon DEF Doomed, Owns

\* A doomed writer stays doomed until it gives the right to write away.
LEMMA DoomedKept ==
    ASSUME IInv, [Next]_vars, NEW x \in Reqs, Doomed(x), \A r \in Reqs : ~CasNoMore(r)
    PROVE  Doomed(x)'
<1> USE DEF writerVars, connVars, failVars, Goto, Writer
<1>0. TypeOK /\ ControlInv
  BY Zenon DEF IInv
<1>t. /\ wpc \in [Reqs -> WriterPCs] /\ nw \in [Reqs -> {"negative", "zero", "positive"}]
      /\ again \in [Reqs -> BOOLEAN] /\ mode \in [Reqs -> {"first", "keep", "drain"}]
  BY <1>0, Zenon DEF TypeOK
<1>1. CASE Owns(x) /\ mode[x] = "drain"
  BY <1>1, DrainKept, Zenon DEF Doomed
<1>2. CASE wpc[x] = "fail" \/ (wpc[x] = "cutDone" /\ FatalWrite(x))
  <2>c. pc[x] # "won" /\ pc[x] # "handshake" /\ x # pending
    BY <1>0, <1>2, DoomedOwns, SMTT(30) DEF ControlInv, Control
  <2>d. (wpc'[x] = wpc[x] /\ nw'[x] = nw[x] /\ again'[x] = again[x]) \/ wpc'[x] = "fail" => Doomed(x)'
    BY <1>2, Zenon DEF Doomed, FatalWrite
  <2>1. CASE \E r \in Reqs : StartWriteRefused(r) \/ StartWrite(r) \/ Exchange(r) \/ LinkPrev(r) \/ ConnectFails(r)
                             \/ ConnectStarted(r)
    BY <2>1, <2>d, Zenon DEF StartWriteRefused, StartWrite, Exchange, LinkPrev, ConnectFails, ConnectStarted
  <2>2. ASSUME NEW r \in Reqs, WonRight(r) \/ CheckHandshake(r) PROVE Doomed(x)'
    <3>1. r # x
      BY <2>c, <2>2, Zenon DEF WonRight, CheckHandshake
    <3> QED
      BY <1>t, <2>2, <2>d, <3>1, Zenon DEF WonRight, CheckHandshake
  <2>3. ASSUME NEW r \in Reqs, ConnectRollback(r) PROVE Doomed(x)'
    BY <1>t, <2>3, <2>c, <2>d, Zenon DEF ConnectRollback, TakeAndFail
  <2>4. ASSUME NEW r \in Reqs, StartKeepWrite(r) \/ BeginWrite(r) \/ CutPart(r) \/ PostSend(r) \/ PostSendFails(r)
                               \/ EndCut(r) \/ Waited(r) PROVE Doomed(x)'
    <3>1. r # x
      BY <1>2, <2>4, Zenon DEF StartKeepWrite, BeginWrite, CutPart, PostSend, PostSendFails, EndCut, Waited
    <3>2. wpc'[x] = wpc[x] /\ nw'[x] = nw[x] /\ again'[x] = again[x]
      BY <1>t, <2>4, <3>1, Zenon DEF StartKeepWrite, BeginWrite, CutPart, PostSend, PostSendFails, EndCut, Waited
    <3> QED
      BY <2>d, <3>2, SMTT(30)
  <2>5. ASSUME NEW r \in Reqs, AfterWrite(r) PROVE Doomed(x)'
    <3>1. CASE r = x
      BY <1>t, <1>2, <2>5, <2>d, <3>1, SMTT(30) DEF AfterWrite
    <3>2. CASE r # x
      BY <1>t, <2>5, <2>d, <3>2, Zenon DEF AfterWrite
    <3> QED
      BY <3>1, <3>2, Zenon
  <2>6. ASSUME NEW r \in Reqs, CasUnwritten(r) \/ CasNewRequests(r) \/ ReverseList(r) PROVE Doomed(x)'
    <3>1. r # x
      BY <1>2, <2>6, Zenon DEF CasUnwritten, CasNewRequests, ReverseList
    <3> QED
      BY <1>t, <2>6, <2>d, <3>1, Zenon DEF CasUnwritten, CasNewRequests, ReverseList
  <2>7. ASSUME NEW r \in Reqs, OnFailedReturns(r) \/ WalkFailed(r) PROVE Doomed(x)'
    <3>1. r # x
      BY <1>2, <2>7, Zenon DEF OnFailedReturns, WalkFailed
    <3> QED
      BY <1>t, <2>7, <2>d, <3>1, Zenon DEF OnFailedReturns, WalkFailed
  <2>8. ASSUME NEW r \in Reqs, FailWrite(r) PROVE Doomed(x)'
    <3>1. CASE r # x
      BY <1>t, <2>8, <2>d, <3>1, Zenon DEF FailWrite
    <3>2. CASE r = x
      <4>1. mode'[x] = "drain" /\ wpc'[x] \in {"onFailed", "walk"}
        BY <1>t, <2>8, <3>2, ZenonT(30) DEF FailWrite
      <4> QED
        BY <4>1, Zenon DEF Doomed, Owns
    <3> QED
      BY <3>1, <3>2, Zenon
  <2>9. CASE Connection
    BY <1>t, <2>9, <2>c, <2>d, SMTT(30) DEF Connection, OnClientHandshake, HandshakeDone, HandshakeTake, HandshakeFailPending, TakeAndFail
  <2>10. CASE BeforeRecycled
    BY <1>t, <2>10, <2>c, <2>d, SMTT(30) DEF BeforeRecycled
  <2>11. CASE FailedByOthers \/ OnFailed \/ Recycle \/ UNCHANGED vars
    BY <2>11, <2>d, Zenon DEF FailedByOthers, OnFailed, Recycle, vars
  <2> QED
    BY <2>1, <2>2, <2>3, <2>4, <2>5, <2>6, <2>7, <2>8, <2>9, <2>10, <2>11, Zenon DEF Next, Producer, WriterStep
<1> QED
  BY <1>1, <1>2, Zenon DEF Doomed

\* No request is returned as successful while there is a doomed writer.
LEMMA DoomedReturns ==
    ASSUME IInv, [Next]_vars, NEW x \in Reqs, Doomed(x), NEW q \in Reqs, mem[q] # "ok"
    PROVE  mem'[q] # "ok"
<1>0. SingleWriter /\ TypeOK
  BY Zenon DEF IInv
<1>1. ASSUME NEW r \in Reqs, BeginWrite(r) \/ AfterWrite(r) \/ CasNoMore(r) \/ WalkFailed(r), mem'[q] = "ok"
      PROVE  FALSE
  <2>1. Owns(r) /\ mode[r] # "drain"
    BY <1>1, OkChanges, Zenon
  <2>2. r = x
    BY <1>0, <2>1, DoomedOwns, Zenon DEF SingleWriter
  <2>3. wpc[x] \notin {"begin", "complete"} /\ (wpc[x] = "cutDone" => FatalWrite(x))
    BY <2>1, <2>2, DoomedOwns, Zenon
  <2>4. CASE AfterWrite(r)
    <3>1. mem' = mem
      BY <2>2, <2>3, <2>4, Zenon DEF AfterWrite
    <3> QED
      BY <1>1, <3>1, Zenon
  <2>5. CASE BeginWrite(r)
    BY <2>2, <2>3, <2>5, Zenon DEF BeginWrite
  <2>6. CASE CasNoMore(r)
    BY <2>2, <2>3, <2>6, Zenon DEF CasNoMore
  <2>7. CASE WalkFailed(r)
    <3>1. mode[r] = "drain"
      BY <2>7, Zenon DEF IInv, ControlInv, Control, WalkFailed
    <3> QED
      BY <2>1, <3>1, Zenon
  <2> QED
    BY <1>1, <2>4, <2>5, <2>6, <2>7, Zenon
<1>2. ASSUME NEW r \in Reqs, Exchange(r) PROVE mem'[q] # "ok"
  <2>1. mem'[r] = "queued" /\ \A y \in Reqs : y # r => mem'[y] = mem[y]
    BY <1>2, Published DEF IInv
  <2> QED
    BY <2>1, Zenon
<1>3. CASE \A r \in Reqs : ~Exchange(r) /\ ~BeginWrite(r) /\ ~AfterWrite(r) /\ ~CasNoMore(r) /\ ~WalkFailed(r)
  <2>1. UNCHANGED mem
    <3>1. CASE \A r \in Reqs : ~ListStepOf(r)
      BY <3>1, QuietSteps, Zenon DEF Quiet
    <3>2. ASSUME NEW r \in Reqs, StartWrite(r) \/ LinkPrev(r) \/ WonRight(r) \/ StartKeepWrite(r) \/ CasUnwritten(r)
                                 \/ CasNewRequests(r) \/ ReverseList(r) \/ CutPart(r) \/ PostSend(r) \/ PostSendFails(r)
          PROVE  UNCHANGED mem
      BY <3>2, Zenon DEF StartWrite, LinkPrev, WonRight, StartKeepWrite, CasUnwritten, CasNewRequests, ReverseList,
                  CutPart, PostSend, PostSendFails
    <3> QED
      BY <1>3, <3>1, <3>2, Zenon DEF ListStepOf
  <2> QED
    BY <2>1, Zenon
<1> QED
  BY <1>1, <1>2, <1>3, Zenon

\* What was accepted stays queued or is returned, and what failed stays failed.
LEMMA AcceptedStep ==
    ASSUME IInv, [Next]_vars, NEW q \in Reqs, mem[q] # "unused"
    PROVE  mem'[q] = mem[q] \/ (mem[q] = "queued" /\ mem'[q] \in {"ok", "failed"})
<1>1. ASSUME NEW r \in Reqs, Exchange(r) PROVE mem'[q] = mem[q]
  <2>1. mem[r] = "unused" /\ \A y \in Reqs : y # r => mem'[y] = mem[y]
    BY <1>1, Published, SMTT(30) DEF IInv
  <2> QED
    BY <2>1, Zenon
<1>2. ASSUME NEW r \in Reqs, CutPart(r) \/ PostSend(r) \/ PostSendFails(r) PROVE mem'[q] = mem[q]
  BY <1>2, Zenon DEF CutPart, PostSend, PostSendFails
<1> QED
  BY <1>1, <1>2, PartsKept, Zenon

\* Every step keeps the failed posts visible.
LEMMA FatalStep == IInv /\ [Next]_vars => FatalInv'
<1> SUFFICES ASSUME IInv, [Next]_vars, NEW i \in 1..Len(wire'), wire'[i].post = "failed"
             PROVE  \/ mem'[wire'[i].req] = "failed"
                    \/ mem'[wire'[i].req] = "queued" /\ \E r \in Reqs : Doomed(r)'
  BY Zenon DEF FatalInv
<1>0. TypeOK /\ FatalInv /\ WireInv
  BY Zenon DEF IInv
<1>1. ASSUME i \in 1..Len(wire), wire'[i] = wire[i]
      PROVE  \/ mem'[wire'[i].req] = "failed"
             \/ mem'[wire'[i].req] = "queued" /\ \E r \in Reqs : Doomed(r)'
  <2>1. PICK q : q = wire[i].req
    BY Zenon
  <2>2. q \in Reqs /\ mem[q] # "unused"
    <3>1. wire[i] \in Part
      BY <1>0, <1>1, SeqHas, Zenon DEF TypeOK, Part
    <3> QED
      BY <1>0, <1>1, <2>1, <3>1, Zenon DEF Part, WireInv
  <2>3. mem[q] = "failed" \/ (mem[q] = "queued" /\ \E r \in Reqs : Doomed(r))
    BY <1>0, <1>1, <2>1, Zenon DEF FatalInv
  <2>4. mem'[q] = mem[q] \/ (mem[q] = "queued" /\ mem'[q] \in {"ok", "failed"})
    BY <2>2, AcceptedStep, Zenon
  <2>5. CASE mem[q] = "failed"
    BY <1>1, <2>1, <2>4, <2>5, Zenon
  <2>6. ASSUME NEW x \in Reqs, Doomed(x), mem[q] = "queued"
        PROVE  mem'[q] = "failed" \/ (mem'[q] = "queued" /\ \E r \in Reqs : Doomed(r)')
    <3>1. mem'[q] \in {"queued", "failed"}
      BY <2>2, <2>4, <2>6, DoomedReturns, Zenon
    <3>2. CASE \E r \in Reqs : CasNoMore(r)
      BY <2>2, <3>1, <3>2, NoneQueued, Zenon
    <3>3. CASE \A r \in Reqs : ~CasNoMore(r)
      BY <2>6, <3>1, <3>3, DoomedKept, Zenon
    <3> QED
      BY <3>2, <3>3, Zenon
  <2> QED
    BY <1>1, <2>1, <2>3, <2>5, <2>6, Zenon
<1>2. ASSUME NEW r \in Reqs, PostSend(r) \/ PostSendFails(r), NEW j \in 1..Len(wr[r]), i = Len(wire) + j
      PROVE  mem'[wire'[i].req] = "queued" /\ Doomed(r)'
  <2>1. wire'[i].req = wr[r][j] /\ PostSendFails(r) /\ ~again[r] /\ mem' = mem
    BY <1>2, PostedWire, Zenon
  <2>2. mem[wr[r][j]] = "queued"
    BY Built, Zenon
  <2>3. Doomed(r)'
    <3>1. /\ wpc \in [Reqs -> WriterPCs] /\ nw \in [Reqs -> {"negative", "zero", "positive"}]
      BY <1>0, Zenon DEF TypeOK
    <3>2. wpc'[r] = "cutDone" /\ nw'[r] = "negative" /\ again' = again
      BY <2>1, <3>1, Zenon DEF PostSendFails, Writer
    <3> QED
      BY <2>1, <3>2, Zenon DEF Doomed, FatalWrite
  <2> QED
    BY <2>1, <2>2, <2>3, Zenon
<1>3. ASSUME NEW r \in Reqs, PostSend(r) \/ PostSendFails(r)
      PROVE  (i \in 1..Len(wire) /\ wire'[i] = wire[i]) \/ \E j \in 1..Len(wr[r]) : i = Len(wire) + j
  BY <1>3, PostedWire, Zenon
<1>4. CASE \A r \in Reqs : ~PostSend(r) /\ ~PostSendFails(r)
  <2>1. wire' = wire
    <3>1. ASSUME NEW r \in Reqs, Exchange(r) \/ CutPart(r) PROVE wire' = wire
      BY <3>1, Zenon DEF Exchange, CutPart
    <3> QED
      BY <1>4, <3>1, PartsKept, Zenon
  <2> QED
    BY <1>1, <2>1, Zenon
<1> QED
  BY <1>1, <1>2, <1>3, <1>4, Zenon

-----------------------------------------------------------------------------
(* The theorems *)

\* The queue starts empty.
LEMMA InitInv == Init => IInv
<1> SUFFICES ASSUME Init PROVE IInv
  BY Zenon
<1>1. TypeOK
  <2>1. /\ left \in [Reqs -> 0..NParts] /\ mem \in [Reqs -> {"unused", "queued", "ok", "failed"}]
        /\ pc \in [Reqs -> StartPCs] /\ wpc \in [Reqs -> WriterPCs]
        /\ mode \in [Reqs -> {"first", "keep", "drain"}] /\ nw \in [Reqs -> {"negative", "zero", "positive"}]
        /\ again \in [Reqs -> BOOLEAN]
    BY WriteQueueAssumption DEF Init, StartPCs, WriterPCs
  <2>2. /\ head \in Reqs \union {NULL} /\ next \in [Reqs -> Ptr] /\ prev \in [Reqs -> Reqs \union {NULL}]
        /\ tail \in [Reqs -> Reqs \union {NULL}] /\ pending \in Reqs \union {NULL}
    BY Zenon DEF Init, Ptr
  <2>3. /\ mine \in [Reqs -> Seq(Reqs)] /\ wr \in [Reqs -> Seq(Reqs)] /\ order \in Seq(Reqs)
        /\ wire \in Seq([req : Reqs, post : {"sent", "failed", "failedEagain"}])
    BY DEF Init
  <2>4. scan \in [Reqs -> [new : Reqs \union {NULL}, p : Ptr, rev : Seq(Reqs)]]
    <3>1. NoScan \in [new : Reqs \union {NULL}, p : Ptr, rev : Seq(Reqs)]
      BY DEF NoScan, Ptr
    <3>2. scan = [r \in Reqs |-> NoScan]
      BY Zenon DEF Init
    <3> QED
      BY <3>1, <3>2, Zenon
  <2>5. hsOk \in BOOLEAN /\ errAgain \in BOOLEAN
    BY Zenon DEF Init
  <2>6. hs \in {"none", "registered", "running", "take", "failPending", "done"}
    BY Zenon DEF Init
  <2>7. fail \in 0..4 /\ recycled \in {"no", "draining", "done", "check_failed"}
    BY SMT DEF Init
  <2> QED
    BY <2>1, <2>2, <2>3, <2>4, <2>5, <2>6, <2>7, Zenon DEF TypeOK
<1>l. Len(order) = 0 /\ Len(wire) = 0 /\ \A r \in Reqs : Len(wr[r]) = 0 /\ Len(mine[r]) = 0
  BY Zenon DEF Init
<1>o. \A r \in Reqs : ~Owns(r)
  BY Zenon DEF Init, Owns
<1>2. ControlInv
  BY WriteQueueAssumption, Zenon DEF Init, ControlInv, Control
<1>3. TailInv /\ WireInv /\ FatalInv
  BY <1>l DEF Init, TailInv, WireInv, FatalInv
<1>4. SingleWriter
  BY <1>o, Zenon DEF Init, SingleWriter
<1>5. OrderInv
  BY <1>l DEF Init, OrderInv
<1>6. ListInv
  <2>1. QueueInv(0)
    BY <1>l, <1>o, SMTT(30) DEF Init, QueueInv
  <2>2. LinkInv(0)
    BY <1>o DEF LinkInv
  <2>3. ScanInv(0)
    BY Zenon DEF Init, ScanInv
  <2> QED
    BY <1>l, <2>1, <2>2, <2>3, SMTT(30) DEF ListInv
<1>7. RecycleInv
  BY Zenon DEF Init, RecycleInv
<1>8. BuildInv
  BY <1>l, WriteQueueAssumption, SMTT(30) DEF BuildInv
<1>9. CutOrderInv
  BY <1>l DEF CutOrderInv, CutOrdered
<1>10. CountInv
  <2>1. ASSUME NEW q \in Reqs PROVE PartsOf(q) = {} /\ Building(q) = {} /\ left[q] = NParts /\ mem[q] = "unused"
    BY <1>l, WriteQueueAssumption, SMTT(30) DEF Init, PartsOf, Building
  <2>2. Cardinality({}) = 0
    BY FS_EmptySet, Zenon
  <2>3. NParts \in Nat /\ NParts - NParts = 0
    BY WriteQueueAssumption
  <2>4. ASSUME NEW q \in Reqs
        PROVE  /\ Cardinality(PartsOf(q)) + Cardinality(Building(q)) = NParts - left[q]
               /\ mem[q] # "ok"
    BY <2>1, <2>2, <2>3, SMTT(30)
  <2> QED
    BY <2>4, Zenon DEF CountInv
<1> QED
  BY <1>1, <1>2, <1>3, <1>4, <1>5, <1>6, <1>7, <1>8, <1>9, <1>10, Zenon DEF IInv

\* The inductive invariant holds in every reachable state.
LEMMA Invariance == Spec => []IInv
<1>1. IInv /\ [Next]_vars => IInv'
  BY TypeStep, ControlStep, TailStep, SingleWriterStep, OrderStep, ListStep, RecycleStep, BuildStep,
     CutOrderStep, WireStep, CountStep, FatalStep, Zenon DEF IInv
<1> QED
  BY InitInv, <1>1, PTL DEF Spec

\* Type correctness of the send queue.
THEOREM TypeCorrect == Spec => []TypeOK
<1>1. IInv => TypeOK
  BY Zenon DEF IInv
<1> QED
  BY Invariance, <1>1, PTL

\* The right to write has one holder, from the exchange of a null _write_head to
\* the CAS back to null, through StartWrite, the handshake's hand-over, KeepWrite
\* and every failure path, whatever the number of producers.
THEOREM OneWriter == Spec => []SingleWriter
<1>1. IInv => SingleWriter
  BY Zenon DEF IInv
<1> QED
  BY Invariance, <1>1, PTL

\* No accepted request is lost or overtaken: the requests leave the queue in the
\* order of their exchanges, and the writer's list is the oldest part of the rest.
THEOREM NoRequestLost == Spec => []NoneLost
BY Invariance, InvNoneLost, PTL

\* No thread touches a WriteRequest that was returned to the object pool.
THEOREM NoUseAfterReturn == Spec => []SafeMemory
BY Invariance, InvSafeMemory, PTL

\* The CHECKs of IsWriteComplete and BeforeRecycled never fire.
THEOREM NoCheckFires == Spec => []ChecksHold
BY Invariance, InvChecksHold, PTL

\* The parts are handed to the queue pair in the order of the StartWrite calls'
\* exchanges.
THEOREM PartsInOrder == Spec => []InOrder
BY Invariance, InvInOrder, PTL

\* A request is returned as successful only when each of its parts was cut and
\* posted exactly once, and none in a post whose failure was reported.
THEOREM FailuresReported == Spec => []FailedPostsShow
BY Invariance, InvFailedPostsShow, PTL
=============================================================================
