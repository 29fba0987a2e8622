------------------------------ MODULE FlatMap ------------------------------
(***************************************************************************)
(* fast::butil::FlatMap (butil/flat_map.h, butil/flat_map_inl.h) and the   *)
(* SingleThreadedPool of its nodes (butil/single_threaded_pool.h): chained *)
(* buckets whose first node is inlined, a small array inside the map and a *)
(* larger one outside, rehashing, copies and swaps of two maps, and an     *)
(* iteration whose position is saved and restored.  Keys hash to           *)
(* themselves; every other operation is checked against a function.        *)
(***************************************************************************)
EXTENDS Naturals, Sequences, SequencesExt, FiniteSets, TLC

CONSTANTS
  MapKeys,          \* the keys
  DefaultNbucket,   \* DEFAULT_NBUCKET, a power of 2 (16 in the code)
  MinNbucket,       \* the lower bound of flatmap_round(), a power of 2 (8 in the code)
  InitNbuckets,     \* the bucket counts init() and resize() are called with
  MaxMapOps         \* bound: operations on the maps

ASSUME FlatMapAssumption ==
  /\ MapKeys \subseteq Nat /\ InitNbuckets \subseteq Nat /\ MaxMapOps \in Nat
  /\ MinNbucket \in Nat \ {0} /\ DefaultNbucket \in Nat /\ DefaultNbucket > MinNbucket

VARIABLES
  fmap,     \* the two maps
  fmWant,   \* the function each map should be
  fmHint,   \* a PositionHint of map a with the keys its iteration has still to visit
  fmOps     \* operations done so far

fmVars == <<fmap, fmWant, fmHint, fmOps>>

Maps == {"a", "b"}
NoHint == [nbucket |-> 0]   \* no map has 0 buckets
DefaultLoad == 80
ValueOf(k) == k + 1         \* what is inserted at k; T() is 0

\* init_buckets_and_thumbnail(): a chain is empty when its first node is invalid.
NoChains(n) == [i \in 0..n - 1 |-> <<>>]
NewMap == [dflt |-> TRUE, def |-> NoChains(DefaultNbucket), heap |-> <<>>,
           nbucket |-> DefaultNbucket, size |-> 0, load |-> DefaultLoad, ownLoad |-> FALSE,
           free |-> <<>>, nalloc |-> 0]

FlatMapInit ==
  /\ fmap = [x \in Maps |-> NewMap] /\ fmWant = [x \in Maps |-> <<>>]
  /\ fmHint = NoHint /\ fmOps = 0

---------------------------------------------------------------------------
(* SingleThreadedPool: get(), back() and reset().                          *)

NodeGot(m) == IF m.free # <<>> THEN Head(m.free) ELSE m.nalloc + 1
AfterGet(m) == IF m.free # <<>> THEN [m EXCEPT !.free = Tail(@)] ELSE [m EXCEPT !.nalloc = @ + 1]
GiveBack(m, nodes) == [m EXCEPT !.free = Reverse(nodes) \o @]
ResetPool(m) == [m EXCEPT !.free = <<>>, !.nalloc = 0]

---------------------------------------------------------------------------
(* Buckets.                                                                *)

FindPower2(n) ==
  CHOOSE p \in {2^i : i \in 0..10} : p >= n /\ \A i \in 0..10 : 2^i >= n => p <= 2^i
FlatmapRound(n) == IF n <= MinNbucket THEN MinNbucket ELSE FindPower2(n)
TooCrowded(size, nbucket, load) == size * 100 >= nbucket * load

\* new_buckets_and_thumbnail(): the count it settles on.
RECURSIVE NewNbucket(_, _, _)
NewNbucket(size, n, load) ==
  LET r == FlatmapRound(n) IN IF TooCrowded(size, r, load) THEN NewNbucket(size, r + 1, load) ELSE r

Chains(m) == IF m.dflt THEN m.def ELSE m.heap
IndexIn(k, nbucket) == k % nbucket
ChainOf(m, k) == Chains(m)[IndexIn(k, m.nbucket)]
WithChain(m, i, chain) ==
  IF m.dflt THEN [m EXCEPT !.def[i] = chain] ELSE [m EXCEPT !.heap[i] = chain]
PositionsOf(chain, k) == {i \in DOMAIN chain : chain[i].key = k}

\* FlatMapIterator: the entry and the node in it; the bucket past the last is always valid.
IteratorAt(m, pos) ==
  [entry |-> CHOOSE e \in pos..m.nbucket :
               /\ e = m.nbucket \/ Chains(m)[e] # <<>>
               /\ \A j \in pos..e - 1 : Chains(m)[j] = <<>>,
   node |-> 1]
AtEnd(m, it) == it.entry = m.nbucket
NextOf(m, it) ==
  IF it.node = Len(Chains(m)[it.entry]) THEN IteratorAt(m, it.entry + 1)
  ELSE [it EXCEPT !.node = @ + 1]
RECURSIVE Walk(_, _)
Walk(m, it) ==
  IF AtEnd(m, it) THEN <<>> ELSE <<Chains(m)[it.entry][it.node]>> \o Walk(m, NextOf(m, it))
Elements(m) == Walk(m, IteratorAt(m, 0))
KeysIn(elements) == {elements[i].key : i \in DOMAIN elements}

\* The nodes of a pool that hold these elements: the first of a chain is inlined, node 0.
NodesOf(elements) == LET ns == [i \in DOMAIN elements |-> elements[i].node]
                     IN SelectSeq(ns, LAMBDA n : n # 0)

---------------------------------------------------------------------------
(* Operations.                                                             *)

ClearMap(m) ==
  IF m.size = 0 THEN m
  ELSE LET m1 == [GiveBack(m, NodesOf(Elements(m))) EXCEPT !.size = 0]
       IN IF m.dflt THEN [m1 EXCEPT !.def = NoChains(m.nbucket)]
          ELSE [m1 EXCEPT !.heap = NoChains(m.nbucket)]

\* The loop of resize(): a further element of a bucket goes right after its first node.
RECURSIVE Rehash(_, _, _, _)
Rehash(m, elements, n, chains) ==
  IF elements = <<>> THEN [m |-> m, chains |-> chains]
  ELSE LET e == Head(elements)
           i == IndexIn(e.key, n)
           c == chains[i]
       IN IF c = <<>>
            THEN Rehash(m, Tail(elements), n, [chains EXCEPT ![i] = <<[e EXCEPT !.node = 0]>>])
            ELSE Rehash(AfterGet(m), Tail(elements), n,
                        [chains EXCEPT
                           ![i] = <<Head(c), [e EXCEPT !.node = NodeGot(m)]>> \o Tail(c)])

Resizes(m, nbucket) == NewNbucket(m.size, nbucket, m.load) # m.nbucket
Resized(m, nbucket) ==
  LET n == NewNbucket(m.size, nbucket, m.load)
      r == Rehash(m, Elements(m), n, NoChains(n))
  IN [ClearMap(r.m) EXCEPT !.dflt = FALSE, !.heap = r.chains, !.nbucket = n, !.size = m.size]

\* operator[]: the element at the key, made with T() when there is none.
RECURSIVE Entered(_, _)
Entered(m, k) ==
  LET i == IndexIn(k, m.nbucket)
      c == ChainOf(m, k)
      new(n) == [key |-> k, val |-> 0, node |-> n]
  IN IF c = <<>> THEN [WithChain(m, i, <<new(0)>>) EXCEPT !.size = @ + 1]
     ELSE IF PositionsOf(c, k) # {} THEN m
     ELSE IF TooCrowded(m.size, m.nbucket, m.load) /\ Resizes(m, m.nbucket + 1)
       THEN Entered(Resized(m, m.nbucket + 1), k)
     ELSE [WithChain(AfterGet(m), i, Append(c, new(NodeGot(m)))) EXCEPT !.size = @ + 1]

Inserted(m, k, v) ==
  LET m1 == Entered(m, k)
      c == ChainOf(m1, k)
      p == CHOOSE p \in PositionsOf(c, k) : TRUE
  IN WithChain(m1, IndexIn(k, m1.nbucket), [c EXCEPT ![p].val = v])

\* erase(): the second element of a chain moves into the first node when that one goes.
Erased(m, k) ==
  LET i == IndexIn(k, m.nbucket)
      c == ChainOf(m, k)
      p == CHOOSE p \in PositionsOf(c, k) : TRUE
      gone(q, chain) == [GiveBack(WithChain(m, i, chain), NodesOf(<<c[q]>>)) EXCEPT !.size = @ - 1]
  IN IF PositionsOf(c, k) = {} THEN m
     ELSE IF p > 1 THEN gone(p, RemoveAt(c, p))
     ELSE IF Len(c) = 1 THEN gone(1, <<>>)
     ELSE gone(2, <<[c[2] EXCEPT !.node = 0]>> \o SubSeq(c, 3, Len(c)))

\* seek() and seek_all(): the values found, none for NULL.
Seek(m, k) == {ChainOf(m, k)[p].val : p \in PositionsOf(ChainOf(m, k), k)}

InitLoad(m, load) == IF m.ownLoad THEN m ELSE [m EXCEPT !.ownLoad = TRUE, !.load = load]
Inited(m, nbucket, load) ==
  IF nbucket <= m.nbucket \/ load < 10 \/ load > 100 \/ m.ownLoad \/ m.size # 0 \/ ~m.dflt THEN m
  ELSE Resized(InitLoad(m, load), nbucket)

\* operator=: buckets of the same count are copied one by one, others element by element.
RECURSIVE CopyChains(_, _, _)
CopyChains(m, r, i) ==
  LET copy(acc, e) ==
        [m |-> IF e.node = 0 THEN acc.m ELSE AfterGet(acc.m),
         c |-> Append(acc.c, [e EXCEPT !.node = IF @ = 0 THEN 0 ELSE NodeGot(acc.m)])]
      done == FoldLeft(copy, [m |-> m, c |-> <<>>], Chains(r)[i])
  IN IF i = r.nbucket THEN [m EXCEPT !.size = r.size]
     ELSE CopyChains(WithChain(done.m, i, done.c), r, i + 1)
Assigned(m, r) ==
  LET m1 == InitLoad(ClearMap(m), r.load)
      n == NewNbucket(r.size, r.nbucket, m1.load)
      m2 == IF TooCrowded(r.size, m1.nbucket, m1.load) /\ n # m1.nbucket
              THEN [m1 EXCEPT !.dflt = FALSE, !.heap = NoChains(n), !.nbucket = n]
              ELSE m1
  IN IF r.size = 0 THEN ClearMap(m)
     ELSE IF m2.nbucket = r.nbucket THEN CopyChains(m2, r, 0)
     ELSE FoldLeft(LAMBDA acc, e : Inserted(acc, e.key, e.val), m2, Elements(r))
CopyConstructed(r) == IF r.size = 0 THEN NewMap ELSE Assigned(NewMap, r)

\* swap(): the arrays outside the maps change hands, the ones inside their elements.
Swapped(m, r) == IF ~m.dflt /\ ~r.dflt THEN [r EXCEPT !.def = m.def] ELSE r

---------------------------------------------------------------------------
(* A position that is saved, and the iteration that resumes there.         *)

SaveIterator(m, it) ==
  IF AtEnd(m, it)
    THEN [nbucket |-> m.nbucket, offset |-> it.entry, atEntry |-> FALSE, key |-> 0]
    ELSE [nbucket |-> m.nbucket, offset |-> it.entry, atEntry |-> it.node = 1,
          key |-> Chains(m)[it.entry][it.node].key]
RestoreIterator(m, hint) ==
  LET c == Chains(m)[hint.offset] IN
  IF hint.nbucket # m.nbucket THEN IteratorAt(m, 0)
  ELSE IF hint.offset >= m.nbucket THEN IteratorAt(m, m.nbucket)
  ELSE IF hint.atEntry THEN IteratorAt(m, hint.offset)
  ELSE IF c = <<>> THEN IteratorAt(m, hint.offset + 1)
  ELSE IF PositionsOf(c, hint.key) # {}
    THEN [entry |-> hint.offset, node |-> CHOOSE p \in PositionsOf(c, hint.key) : TRUE]
  ELSE IteratorAt(m, hint.offset)

\* The hint after keys were erased and after a key was entered: a key that was erased and is
\* entered again goes to the end of its chain, past elements that were still to be visited.
Unvisited(hint, gone) == IF hint = NoHint THEN hint ELSE [hint EXCEPT !.todo = @ \ gone]
HintEntered(hint, k) ==
  IF hint # NoHint /\ ~hint.atEntry /\ hint.key = k /\ k \notin DOMAIN fmWant["a"]
  THEN NoHint ELSE hint

Inserts(k) ==
  /\ fmap' = [fmap EXCEPT !["a"] = Inserted(@, k, ValueOf(k))]
  /\ fmWant' = [fmWant EXCEPT !["a"] = (k :> ValueOf(k)) @@ @]
  /\ fmHint' = HintEntered(fmHint, k)
Indexes(k) ==
  /\ fmap' = [fmap EXCEPT !["a"] = Entered(@, k)]
  /\ fmWant' = [fmWant EXCEPT !["a"] = @ @@ (k :> 0)]
  /\ fmHint' = HintEntered(fmHint, k)
Erases(k) ==
  /\ fmap' = [fmap EXCEPT !["a"] = Erased(@, k)]
  /\ fmWant' = [fmWant EXCEPT !["a"] = [j \in DOMAIN @ \ {k} |-> @[j]]]
  /\ fmHint' = Unvisited(fmHint, {k})
Clears(reset) ==
  /\ fmap' = [fmap EXCEPT !["a"] = IF reset THEN ResetPool(ClearMap(@)) ELSE ClearMap(@)]
  /\ fmWant' = [fmWant EXCEPT !["a"] = <<>>]
  /\ fmHint' = Unvisited(fmHint, MapKeys)
Inits(n, load) ==
  /\ fmap' = [fmap EXCEPT !["a"] = Inited(@, n, load)]
  /\ UNCHANGED <<fmWant, fmHint>>
ResizesTo(n) ==
  /\ Resizes(fmap["a"], n) /\ fmap' = [fmap EXCEPT !["a"] = Resized(@, n)]
  /\ UNCHANGED <<fmWant, fmHint>>
AssignsMap(copied) ==
  /\ fmap' = [fmap EXCEPT !["b"] = IF copied THEN CopyConstructed(fmap["a"])
                                   ELSE Assigned(@, fmap["a"])]
  /\ fmWant' = [fmWant EXCEPT !["b"] = fmWant["a"]] /\ UNCHANGED fmHint
Swaps ==
  /\ fmap' = [fmap EXCEPT !["a"] = Swapped(@, fmap["b"]), !["b"] = Swapped(@, fmap["a"])]
  /\ fmWant' = [fmWant EXCEPT !["a"] = fmWant["b"], !["b"] = fmWant["a"]]
  /\ fmHint' = NoHint
Saves(e, i) ==
  LET m == fmap["a"]  it == [entry |-> e, node |-> i] IN
  /\ fmHint = NoHint
  /\ fmHint' = SaveIterator(m, it) @@ [todo |-> KeysIn(Walk(m, it))]
  /\ UNCHANGED <<fmap, fmWant, fmOps>>

FlatMapNext ==
  \/ /\ fmOps < MaxMapOps /\ fmOps' = fmOps + 1
     /\ \/ \E k \in MapKeys : Inserts(k) \/ Indexes(k) \/ Erases(k)
        \/ \E reset \in BOOLEAN : Clears(reset)
        \/ \E n \in InitNbuckets : Inits(n, 100) \/ ResizesTo(n)
        \/ \E copied \in BOOLEAN : AssignsMap(copied)
        \/ Swaps
  \/ \E e \in DOMAIN Chains(fmap["a"]) : \E i \in DOMAIN Chains(fmap["a"])[e] : Saves(e, i)

FlatMapSpec == FlatMapInit /\ [][FlatMapNext]_fmVars

---------------------------------------------------------------------------

FlatMapTypeOK ==
  /\ DOMAIN fmap = Maps /\ DOMAIN fmWant = Maps /\ fmOps \in 0..MaxMapOps
  /\ \A x \in Maps : DOMAIN Chains(fmap[x]) = 0..fmap[x].nbucket - 1

\* Each map is the function its operations make it, through rehashes, copies and swaps:
\* seek() and size() agree with it, an iteration meets every key once, each node of its
\* pool is in one chain or free, and the array inside the map is empty while it is not in
\* use.  An iteration resumed from a saved position visits every element that was still to
\* be visited and stayed (flat_map_inl.h:87-560, single_threaded_pool.h:82-119).
MapsKept ==
  /\ \A x \in Maps :
       LET m == fmap[x]  w == fmWant[x]  nodes == NodesOf(Elements(m)) \o m.free IN
       /\ \A k \in MapKeys : Seek(m, k) = {w[j] : j \in DOMAIN w \cap {k}}
       /\ Len(Elements(m)) = m.size /\ m.size = Cardinality(DOMAIN w)
       /\ KeysIn(Elements(m)) = DOMAIN w
       /\ ToSet(nodes) = 1..m.nalloc /\ Len(nodes) = m.nalloc
       /\ ~m.dflt => m.def = NoChains(DefaultNbucket)
  /\ fmHint # NoHint =>
       fmHint.todo \subseteq KeysIn(Walk(fmap["a"], RestoreIterator(fmap["a"], fmHint)))
=============================================================================
