--------------------------- MODULE WriteQueueInv ----------------------------
(***************************************************************************)
(* The inductive invariant of WriteQueue and what follows from it.  Every  *)
(* step keeps the types, the control of the calls and writers, and the     *)
(* right to write: its one holder, the tail of its collected list, the     *)
(* order of the exchanges, and the parts its holder cuts and posts.        *)
(***************************************************************************)
EXTENDS WriteQueue, WellFoundedInduction, TLAPS

-----------------------------------------------------------------------------
(* The inductive invariant *)

\* Where a request's call and its writer can be at the same time, and what the
\* writer's local state is there.
Control(r) ==
    /\ pc[r] \in {"idle", "exchange", "refused"} <=> mem[r] = "unused"
    /\ pc[r] \in {"idle", "exchange", "refused", "link", "won"} => wpc[r] = "none"
    /\ pc[r] = "handshake" <=> wpc[r] = "won"
    /\ pc[r] \in {"exchange", "link"} => next[r] = UNCONNECTED
    /\ wpc[r] \in {"none", "done"} => mine[r] = <<>> /\ tail[r] = NULL
    /\ wpc[r] \notin {"none", "done"} => Len(mine[r]) > 0
    /\ wpc[r] # "post" => wr[r] = <<>>
    /\ wpc[r] \in {"none", "won", "pending"} => mode[r] = "first"
    /\ wpc[r] \in {"start", "wait"} => mode[r] = "keep"
    /\ wpc[r] \in {"onFailed", "walk"} => mode[r] = "drain"
    /\ wpc[r] \in {"begin", "post", "cutDone", "fail"} => mode[r] # "drain"
    /\ wpc[r] \notin {"none", "done"} /\ mode[r] = "first" => mine[r] = <<r>>
    /\ wpc[r] \in {"complete", "reverse"} /\ mode[r] = "drain" => Len(mine[r]) = 1
ControlInv == \A r \in Reqs : Control(r)

\* The cached tail is the last node of the collected list.
TailInv ==
    \A r \in Reqs :
        /\ tail[r] # NULL => wpc[r] \notin {"none", "done"} /\ tail[r] = LastOf(mine[r])
        /\ wpc[r] = "reverse" => tail[r] # NULL

\* The order of the exchanges holds each accepted request once.
OrderInv ==
    /\ \A i, j \in 1..Len(order) : order[i] = order[j] => i = j
    /\ \A q \in Reqs : mem[q] # "unused" <=> \E i \in 1..Len(order) : order[i] = q

\* The first k of the accepted requests are returned, the others are queued;
\* the owner of the right to write has collected the first of the queued ones.
QueueInv(k) ==
    /\ k \in 0..Len(order)
    /\ \A i \in 1..Len(order) : mem[order[i]] = "queued" <=> i > k
    /\ head = IF k = Len(order) THEN NULL ELSE order[Len(order)]
    /\ \A r \in Reqs : Owns(r) =>
          /\ k + Len(mine[r]) <= Len(order)
          /\ \A i \in 1..Len(mine[r]) : mine[r][i] = order[k + i]
          /\ pc[r] = "won" => k < Len(order) /\ r = order[k + 1]

\* A node above the collected ones points to its predecessor, or its producer
\* still has to link it; the collected nodes and the first one are linked.
Above(r, k, j) == j > k + 1 /\ j > k + Len(mine[r])
LinkInv(k) ==
    /\ \A j \in 1..k : pc[order[j]] # "link"
    /\ \A r \in Reqs : Owns(r) =>
          \A j \in 1..Len(order) :
              /\ Above(r, k, j) =>
                    IF pc[order[j]] = "link" THEN prev[order[j]] = order[j - 1]
                                             ELSE next[order[j]] = order[j - 1]
              /\ ~Above(r, k, j) => pc[order[j]] # "link"

\* The scan has met the nodes m+1 .. n, newest first and all of them linked, and
\* stands at node m.
ScanInv(k) ==
    \A r \in Reqs : wpc[r] = "reverse" =>
        \E m, n \in 1..Len(order) :
            /\ k + Len(mine[r]) < m /\ m <= n
            /\ scan[r].new = order[n] /\ scan[r].p = order[m]
            /\ Len(scan[r].rev) = n - m
            /\ \A i \in 1..n - m : scan[r].rev[i] = order[m + i]
            /\ \A j \in m + 1..n : pc[order[j]] # "link"

ListInv == \E k \in 0..Len(order) : QueueInv(k) /\ LinkInv(k) /\ ScanInv(k)

\* When the last reference is gone nobody can publish, connect or hand over.
RecycleInv ==
    recycled # "no" =>
        /\ fail = 4 /\ pending = NULL
        /\ \A r \in Reqs : pc[r] \in {"idle", "done", "refused"}
        /\ hs \notin {"running", "take", "failPending"}
        /\ recycled # "check_failed"

\* The parts of the work request being built belong to the collected list.
BuildInv ==
    \A r \in Reqs :
        /\ Len(wr[r]) <= BlockParts
        /\ \A i \in 1..Len(wr[r]) : \E j \in 1..Len(mine[r]) : wr[r][i] = mine[r][j]

\* Parts are cut in the order o of the exchanges, and what is cut, into a work
\* request in ws or onto the wire w, does not come after what a request still
\* queued according to m has left in l.
CutOrdered(o, w, ws, m, l) ==
    \A a, b \in 1..Len(o) :
        /\ \A i, j \in 1..Len(w) : w[i].req = o[a] /\ w[j].req = o[b] /\ i <= j => a <= b
        /\ \A r \in Reqs : \A i, j \in 1..Len(ws[r]) :
              ws[r][i] = o[a] /\ ws[r][j] = o[b] /\ i <= j => a <= b
        /\ \A i \in 1..Len(w) : \A r \in Reqs : \A j \in 1..Len(ws[r]) :
              w[i].req = o[a] /\ ws[r][j] = o[b] => a <= b
        /\ m[o[b]] = "queued" /\ l[o[b]] > 0 =>
              /\ \A i \in 1..Len(w) : w[i].req = o[a] => a <= b
              /\ \A r \in Reqs : \A i \in 1..Len(ws[r]) : ws[r][i] = o[a] => a <= b

CutOrderInv == CutOrdered(order, wire, wr, mem, left)

\* Nothing is cut from a request that was not accepted.
WireInv == \A i \in 1..Len(wire) : mem[wire[i].req] # "unused"

\* The places of the parts of a request in the work request being built.
Building(q) == {i \in 1..BlockParts : \E r \in Reqs : i <= Len(wr[r]) /\ wr[r][i] = q}

\* Until a failed list is drained, what is cut of a request and what is left add up.
Counted(q) ==
    \/ mem[q] \in {"unused", "ok"}
    \/ mem[q] = "queued" /\ \A r \in Reqs : Owns(r) => mode[r] # "drain"
CountInv ==
    \A q \in Reqs :
        /\ Counted(q) => Cardinality(PartsOf(q)) + Cardinality(Building(q)) = NParts - left[q]
        /\ mem[q] = "ok" => left[q] = 0

\* A writer that will return nothing as successful any more.
Doomed(r) ==
    \/ wpc[r] = "cutDone" /\ FatalWrite(r)
    \/ wpc[r] = "fail"
    \/ Owns(r) /\ mode[r] = "drain"

\* A request with a part in a failed post is failed, or will be.
FatalInv ==
    \A i \in 1..Len(wire) : wire[i].post = "failed" =>
        \/ mem[wire[i].req] = "failed"
        \/ mem[wire[i].req] = "queued" /\ \E r \in Reqs : Doomed(r)

IInv ==
    /\ TypeOK /\ ControlInv /\ TailInv /\ SingleWriter /\ OrderInv /\ ListInv
    /\ RecycleInv /\ BuildInv /\ CutOrderInv /\ WireInv /\ CountInv /\ FatalInv

-----------------------------------------------------------------------------
(* Sequences *)

\* What sequences over a set are, and what their operators return.
LEMMA SeqHas ==
    ASSUME NEW S, NEW s \in Seq(S)
    PROVE  /\ Len(s) \in Nat /\ DOMAIN s = 1..Len(s) /\ s \in [1..Len(s) -> S]
           /\ \A i \in 1..Len(s) : s[i] \in S
OBVIOUS

\* The empty sequence is the one of length zero.
LEMMA SeqNone ==
    ASSUME NEW S
    PROVE  <<>> \in Seq(S) /\ Len(<<>>) = 0 /\ \A s \in Seq(S) : s # <<>> => Len(s) \in Nat \ {0}
OBVIOUS

\* Equal elements make equal sequences.
LEMMA SeqSame ==
    ASSUME NEW S, NEW s \in Seq(S), NEW t \in Seq(S), Len(s) = Len(t), \A i \in 1..Len(s) : s[i] = t[i]
    PROVE  s = t
OBVIOUS

\* What Append returns.
LEMMA SeqAppend ==
    ASSUME NEW S, NEW s \in Seq(S), NEW x \in S
    PROVE  /\ Append(s, x) \in Seq(S) /\ Append(s, x) # <<>>
           /\ Len(Append(s, x)) = Len(s) + 1 /\ Append(s, x)[Len(s) + 1] = x
           /\ \A i \in 1..Len(s) : Append(s, x)[i] = s[i]
OBVIOUS

\* What the concatenation returns.
LEMMA SeqConcat ==
    ASSUME NEW S, NEW s \in Seq(S), NEW t \in Seq(S)
    PROVE  /\ s \o t \in Seq(S) /\ Len(s \o t) = Len(s) + Len(t)
           /\ \A i \in 1..Len(s) + Len(t) :
                 (s \o t)[i] = IF i <= Len(s) THEN s[i] ELSE t[i - Len(s)]
OBVIOUS

\* The head and the tail.
LEMMA SeqRest ==
    ASSUME NEW S, NEW s \in Seq(S), s # <<>>
    PROVE  /\ Head(s) \in S /\ Tail(s) \in Seq(S) /\ Len(Tail(s)) = Len(s) - 1
           /\ \A i \in 1..Len(Tail(s)) : Tail(s)[i] = s[i + 1]
OBVIOUS

\* A part of a sequence.
LEMMA SeqPart ==
    ASSUME NEW S, NEW s \in Seq(S), NEW m \in 1..Len(s) + 1, NEW n \in m - 1..Len(s)
    PROVE  /\ SubSeq(s, m, n) \in Seq(S) /\ Len(SubSeq(s, m, n)) = n - m + 1
           /\ \A i \in 1..n - m + 1 : SubSeq(s, m, n)[i] = s[m + i - 1]
OBVIOUS

\* What a list of requests holds.
LEMMA ReqsList ==
    ASSUME NEW s \in Seq(Reqs)
    PROVE  /\ Len(s) \in Nat
           /\ \A i \in 1..Len(s) : s[i] \in Reqs
           /\ s = <<>> <=> Len(s) = 0
           /\ Len(s) > 0 => LastOf(s) \in Reqs /\ Head(s) \in Reqs /\ Head(s) = s[1]
<1>1. Len(s) \in Nat /\ \A i \in 1..Len(s) : s[i] \in Reqs
  BY SeqHas, Zenon
<1>2. s = <<>> <=> Len(s) = 0
  BY SeqNone, <1>1, Zenon
<1>3. ASSUME Len(s) > 0 PROVE LastOf(s) \in Reqs /\ Head(s) \in Reqs /\ Head(s) = s[1]
  <2>1. 1 \in 1..Len(s) /\ Len(s) \in 1..Len(s)
    BY <1>1, <1>3
  <2>2. Head(s) = s[1]
    BY <1>2, <1>3
  <2> QED
    BY <2>1, <2>2, <1>1, Zenon DEF LastOf
<1> QED
  BY <1>1, <1>2, <1>3, Zenon

\* The list that is left when the first k of its nodes are returned.
LEMMA DropNodes ==
    ASSUME NEW s \in Seq(Reqs), NEW k \in 0..Len(s) - 1
    PROVE  LET t == SubSeq(s, k + 1, Len(s))
           IN  /\ t \in Seq(Reqs)
               /\ Len(t) = Len(s) - k
               /\ \A i \in 1..Len(s) - k : t[i] = s[k + i]
               /\ LastOf(t) = LastOf(s)
<1> DEFINE t == SubSeq(s, k + 1, Len(s))
<1>1. Len(s) \in Nat /\ \A i \in 1..Len(s) : s[i] \in Reqs
  BY ReqsList, Zenon
<1>2. /\ t \in Seq(Reqs)
      /\ Len(t) = IF k + 1 <= Len(s) THEN Len(s) - (k + 1) + 1 ELSE 0
      /\ \A i \in 1..Len(s) - (k + 1) + 1 : t[i] = s[k + 1 + i - 1]
  <2>1. \A i \in k + 1..Len(s) : s[i] \in Reqs
    BY <1>1
  <2>2. k + 1 \in Int /\ Len(s) \in Int
    BY <1>1
  <2> QED
    BY <2>1, <2>2, SeqPart
<1>3. Len(t) = Len(s) - k /\ \A i \in 1..Len(s) - k : t[i] = s[k + i]
  BY <1>1, <1>2
<1>4. LastOf(t) = LastOf(s)
  BY <1>1, <1>3 DEF LastOf
<1> QED
  BY <1>2, <1>3, <1>4, Zenon

\* The list without its first node.
LEMMA DropFirst ==
    ASSUME NEW s \in Seq(Reqs), Len(s) > 1
    PROVE  /\ Tail(s) \in Seq(Reqs)
           /\ Len(Tail(s)) = Len(s) - 1
           /\ \A i \in 1..Len(s) - 1 : Tail(s)[i] = s[i + 1]
           /\ LastOf(Tail(s)) = LastOf(s)
<1>1. Len(s) \in Nat /\ s # <<>>
  BY ReqsList
<1>2. /\ Tail(s) \in Seq(Reqs) /\ Len(Tail(s)) = Len(s) - 1
      /\ \A i \in 1..Len(Tail(s)) : Tail(s)[i] = s[i + 1]
  BY <1>1, SeqRest, Zenon
<1>3. LastOf(Tail(s)) = LastOf(s)
  BY <1>1, <1>2 DEF LastOf
<1> QED
  BY <1>2, <1>3, Zenon

\* The list of one node.
LEMMA OneNode ==
    ASSUME NEW q \in Reqs
    PROVE  /\ <<q>> \in Seq(Reqs) /\ Len(<<q>>) = 1 /\ <<q>>[1] = q
           /\ LastOf(<<q>>) = q /\ Head(<<q>>) = q
  BY DEF LastOf

\* The list with a node in front of it.
LEMMA AddFirst ==
    ASSUME NEW q \in Reqs, NEW s \in Seq(Reqs)
    PROVE  /\ <<q>> \o s \in Seq(Reqs)
           /\ Len(<<q>> \o s) = Len(s) + 1
           /\ (<<q>> \o s)[1] = q
           /\ \A i \in 1..Len(s) : (<<q>> \o s)[i + 1] = s[i]
<1>1. Len(s) \in Nat
  BY ReqsList, Zenon
<1>2. <<q>> \in Seq(Reqs) /\ Len(<<q>>) = 1 /\ <<q>>[1] = q
  BY OneNode, Zenon
<1>3. /\ <<q>> \o s \in Seq(Reqs) /\ Len(<<q>> \o s) = 1 + Len(s)
      /\ \A i \in 1..1 + Len(s) : (<<q>> \o s)[i] = IF i <= 1 THEN <<q>>[i] ELSE s[i - 1]
  BY <1>2, SeqConcat, Zenon
<1>4. (<<q>> \o s)[1] = q
  BY <1>1, <1>2, <1>3
<1>5. ASSUME NEW i \in 1..Len(s) PROVE (<<q>> \o s)[i + 1] = s[i]
  <2>1. i + 1 \in 1..1 + Len(s) /\ ~(i + 1 <= 1) /\ (i + 1) - 1 = i
    BY <1>1, <1>5
  <2> QED
    BY <2>1, <1>3, Zenon
<1> QED
  BY <1>1, <1>3, <1>4, <1>5

\* A set of numbers that is not empty has a least one.
LEMMA LeastOf ==
    ASSUME NEW T, T \subseteq Nat, T # {}
    PROVE  \E i \in T : \A j \in T : i <= j
<1>1. PICK i \in T : \A j \in T : ~(<<j, i>> \in OpToRel(<, Nat))
  BY NatLessThanWellFounded, WFMin, Zenon
<1>2. ASSUME NEW j \in T PROVE i <= j
  <2>1. i \in Nat /\ j \in Nat
    BY <1>1, <1>2, Zenon
  <2>2. j < i <=> <<j, i>> \in OpToRel(<, Nat)
    BY <2>1, Zenon DEF OpToRel
  <2>3. ~(j < i)
    BY <2>2, <1>1, <1>2, Zenon
  <2> QED
    BY <2>1, <2>3
<1> QED
  BY <1>1, <1>2, Zenon

\* A function on 1..n is a sequence of length n.
LEMMA FunctionSeq ==
    ASSUME NEW S, NEW n \in Nat, NEW f \in [1..n -> S]
    PROVE  f \in Seq(S) /\ Len(f) = n
<1>1. f \in Seq(S)
  OBVIOUS
<1>2. Len(f) \in Nat /\ DOMAIN f = 1..Len(f) /\ DOMAIN f = 1..n
  BY <1>1, SeqHas, Zenon
<1>3. n \in DOMAIN f \/ n = 0
  BY <1>2
<1>4. Len(f) \in DOMAIN f \/ Len(f) = 0
  BY <1>2
<1>5. n <= Len(f)
  BY <1>2, <1>3
<1>6. Len(f) <= n
  BY <1>2, <1>4
<1> QED
  BY <1>1, <1>2, <1>5, <1>6

\* The elements of a concatenation.
LEMMA ConcatParts ==
    ASSUME NEW S, NEW s \in Seq(S), NEW t \in Seq(S)
    PROVE  /\ s \o t \in Seq(S) /\ Len(s \o t) = Len(s) + Len(t)
           /\ \A i \in 1..Len(s) : (s \o t)[i] = s[i]
           /\ \A i \in 1..Len(t) : (s \o t)[Len(s) + i] = t[i]
<1>1. Len(s) \in Nat /\ Len(t) \in Nat
  BY SeqHas, Zenon
<1>2. /\ s \o t \in Seq(S) /\ Len(s \o t) = Len(s) + Len(t)
      /\ \A i \in 1..Len(s) + Len(t) : (s \o t)[i] = IF i <= Len(s) THEN s[i] ELSE t[i - Len(s)]
  BY SeqConcat, Zenon
<1>3. ASSUME NEW i \in 1..Len(s) PROVE (s \o t)[i] = s[i]
  <2>1. i \in 1..Len(s) + Len(t) /\ i <= Len(s)
    BY <1>1, <1>3
  <2> QED
    BY <2>1, <1>2, Zenon
<1>4. ASSUME NEW i \in 1..Len(t) PROVE (s \o t)[Len(s) + i] = t[i]
  <2>1. Len(s) + i \in 1..Len(s) + Len(t) /\ ~(Len(s) + i <= Len(s)) /\ (Len(s) + i) - Len(s) = i
    BY <1>1, <1>4
  <2> QED
    BY <2>1, <1>2, Zenon
<1> QED
  BY <1>2, <1>3, <1>4, Zenon

-----------------------------------------------------------------------------
(* Types *)

\* The node the scan stands at is a request.
LEMMA ScanNode ==
    ASSUME TypeOK, ListInv, NEW r \in Reqs, wpc[r] = "reverse"
    PROVE  scan[r].p \in Reqs /\ scan[r].new \in Reqs /\ scan[r].rev \in Seq(Reqs)
<1>1. PICK k \in 0..Len(order) : ScanInv(k)
  BY Zenon DEF ListInv
<1>2. PICK m, n \in 1..Len(order) : scan[r].new = order[n] /\ scan[r].p = order[m]
  BY <1>1, Zenon DEF ScanInv
<1>3. order[m] \in Reqs /\ order[n] \in Reqs
  BY ReqsList, Zenon DEF TypeOK
<1> QED
  BY <1>2, <1>3, Zenon DEF TypeOK

\* What the writer finds in its list.
LEMMA ListNodes ==
    ASSUME TypeOK, ControlInv, NEW r \in Reqs, wpc[r] \notin {"none", "done"}
    PROVE  /\ mine[r] \in Seq(Reqs) /\ Len(mine[r]) \in Nat /\ Len(mine[r]) > 0
           /\ First(r) \in Reqs /\ First(r) = mine[r][1]
           /\ LastOf(mine[r]) \in Reqs /\ OldHead(r) \in Reqs
           /\ \A i \in 1..Len(mine[r]) : mine[r][i] \in Reqs
<1>1. mine[r] \in Seq(Reqs) /\ Len(mine[r]) > 0
  BY Zenon DEF TypeOK, ControlInv, Control
<1>2. tail[r] \in Reqs \union {NULL}
  BY Zenon DEF TypeOK
<1> QED
  BY <1>1, <1>2, ReqsList, Zenon DEF First, OldHead

\* The first request that has data left is one of the list.
LEMMA UncutNode ==
    ASSUME TypeOK, ControlInv, NEW r \in Reqs, wpc[r] \notin {"none", "done"}, Uncut(r) # {}
    PROVE  /\ NextUncut(r) \in 1..Len(mine[r])
           /\ mine[r][NextUncut(r)] \in Reqs
           /\ left[mine[r][NextUncut(r)]] \in 1..NParts
           /\ \A j \in 1..Len(mine[r]) : left[mine[r][j]] > 0 => NextUncut(r) <= j
<1>1. Len(mine[r]) \in Nat /\ \A i \in 1..Len(mine[r]) : mine[r][i] \in Reqs
  BY ListNodes, Zenon
<1>2. Uncut(r) \subseteq Nat
  BY <1>1 DEF Uncut
<1>3. \E i \in Uncut(r) : \A j \in Uncut(r) : i <= j
  BY <1>2, LeastOf, Zenon
<1>4. NextUncut(r) \in Uncut(r) /\ \A j \in Uncut(r) : NextUncut(r) <= j
  BY <1>3, Zenon DEF NextUncut
<1>5. \A q \in Reqs : left[q] \in 0..NParts
  BY Zenon DEF TypeOK
<1> QED
  BY <1>1, <1>4, <1>5, WriteQueueAssumption DEF Uncut

\* The requests KeepWrite returns after an attempt: written, and not the last.
LEMMA WrittenPrefixIs ==
    ASSUME TypeOK, ControlInv, NEW r \in Reqs, wpc[r] \notin {"none", "done"}
    PROVE  /\ WrittenPrefix(r) \in 0..Len(mine[r]) - 1
           /\ \A i \in 1..WrittenPrefix(r) : left[mine[r][i]] = 0
<1> DEFINE T == {i \in 0..Len(mine[r]) - 1 : i = Len(mine[r]) - 1 \/ left[mine[r][i + 1]] > 0}
<1>1. Len(mine[r]) \in Nat /\ Len(mine[r]) > 0 /\ \A i \in 1..Len(mine[r]) : mine[r][i] \in Reqs
  BY ListNodes, Zenon
<1>2. Len(mine[r]) - 1 \in T /\ T \subseteq Nat
  BY <1>1
<1>3. PICK k \in T : \A j \in T : k <= j
  <2> HIDE DEF T
  <2> QED
    BY <1>2, LeastOf, Zenon
<1>4. ASSUME NEW i \in 1..k PROVE left[mine[r][i]] = 0
  <2>1. i - 1 \in 0..Len(mine[r]) - 1 /\ i - 1 < k /\ (i - 1) + 1 = i
    BY <1>1, <1>3
  <2>2. ~(left[mine[r][i]] > 0)
    <3>1. i - 1 \notin T
      <4> HIDE DEF T
      <4> QED
        BY <2>1, <1>2, <1>3
    <3> QED
      BY <2>1, <3>1, Zenon
  <2>3. left[mine[r][i]] \in 0..NParts
    <3>1. i \in 1..Len(mine[r])
      BY <2>1, <1>1
    <3> QED
      BY <3>1, <1>1, Zenon DEF TypeOK
  <2> QED
    BY <2>2, <2>3, WriteQueueAssumption
<1>5. \E j \in 0..Len(mine[r]) - 1 :
        /\ \A i \in 1..j : left[mine[r][i]] = 0
        /\ j = Len(mine[r]) - 1 \/ left[mine[r][j + 1]] > 0
  BY <1>3, <1>4, Zenon
<1> HIDE DEF T
<1> QED
  BY <1>5, Zenon DEF WrittenPrefix

\* A part on the wire.
Part == [req : Reqs, post : {"sent", "failed", "failedEagain"}]

\* The parts of the work request, posted with some outcome, behind what is on the wire.
LEMMA PostedParts ==
    ASSUME TypeOK, NEW r \in Reqs, NEW outcome \in {"sent", "failed", "failedEagain"}
    PROVE  LET w == wire \o Posted(r, outcome)
           IN  /\ w \in Seq(Part)
               /\ Len(w) = Len(wire) + Len(wr[r]) /\ Len(wire) \in Nat /\ Len(wr[r]) \in Nat
               /\ \A i \in 1..Len(wire) : w[i] = wire[i]
               /\ \A i \in 1..Len(wr[r]) : w[Len(wire) + i] = [req |-> wr[r][i], post |-> outcome]
<1> DEFINE news == Posted(r, outcome)
<1>1. wr[r] \in Seq(Reqs) /\ Len(wr[r]) \in Nat /\ \A i \in 1..Len(wr[r]) : wr[r][i] \in Reqs
  BY ReqsList, Zenon DEF TypeOK
<1>2. news \in [1..Len(wr[r]) -> Part] /\ \A i \in 1..Len(wr[r]) : news[i] = [req |-> wr[r][i], post |-> outcome]
  BY <1>1, Zenon DEF Posted, Part
<1>3. wire \in Seq(Part) /\ Len(wire) \in Nat
  BY SeqHas, Zenon DEF TypeOK, Part
<1> HIDE DEF news
<1>4. news \in Seq(Part) /\ Len(news) = Len(wr[r])
  BY <1>1, <1>2, FunctionSeq, Zenon
<1>5. /\ wire \o news \in Seq(Part) /\ Len(wire \o news) = Len(wire) + Len(news)
      /\ \A i \in 1..Len(wire) : (wire \o news)[i] = wire[i]
      /\ \A i \in 1..Len(news) : (wire \o news)[Len(wire) + i] = news[i]
  <2>1. wire \in Seq(Part)
    BY <1>3, Zenon
  <2>2. news \in Seq(Part)
    BY <1>4, Zenon
  <2> QED
    BY <2>1, <2>2, ConcatParts
<1> QED
  BY <1>1, <1>2, <1>3, <1>4, <1>5, Zenon DEF news

\* Every step keeps the types.
LEMMA TypeStep == IInv /\ [Next]_vars => TypeOK'
<1> SUFFICES ASSUME IInv, [Next]_vars PROVE TypeOK'
  BY Zenon
<1> USE DEF writerVars, connVars, failVars, Goto, Writer
<1>0. TypeOK /\ ControlInv /\ ListInv
  BY Zenon DEF IInv
<1>pc. pc \in [Reqs -> StartPCs] /\ wpc \in [Reqs -> WriterPCs]
  BY <1>0, Zenon DEF TypeOK
<1>1. ASSUME NEW r \in Reqs, StartWriteRefused(r) PROVE TypeOK'
  BY <1>0, <1>1, Zenon DEF TypeOK, StartPCs, WriterPCs, StartWriteRefused
<1>2. ASSUME NEW r \in Reqs, StartWrite(r) PROVE TypeOK'
  BY <1>0, <1>2, Zenon DEF TypeOK, StartPCs, WriterPCs, StartWrite, Ptr
<1>3. ASSUME NEW r \in Reqs, Exchange(r) PROVE TypeOK'
  <2>1. order' \in Seq(Reqs)
    BY <1>0, <1>3, SeqAppend, Zenon DEF TypeOK, Exchange
  <2> QED
    BY <1>0, <1>3, <2>1, SMTT(30) DEF TypeOK, StartPCs, WriterPCs, Exchange
<1>4. ASSUME NEW r \in Reqs, LinkPrev(r) PROVE TypeOK'
  BY <1>0, <1>4, ZenonT(30) DEF TypeOK, StartPCs, WriterPCs, LinkPrev, Ptr
<1>5. ASSUME NEW r \in Reqs, WonRight(r) PROVE TypeOK'
  <2>1. <<r>> \in Seq(Reqs)
    BY OneNode, Zenon
  <2>2. next' \in [Reqs -> Ptr]
    BY <1>0, <1>5, Zenon DEF TypeOK, WonRight, Ptr
  <2>3. mine' \in [Reqs -> Seq(Reqs)]
    BY <1>0, <1>5, <2>1, Zenon DEF TypeOK, WonRight, Ptr
  <2>4. pc' \in [Reqs -> StartPCs]
    BY <1>pc, <1>5, Zenon DEF StartPCs, WonRight, Ptr
  <2>5. wpc' \in [Reqs -> WriterPCs]
    BY <1>pc, <1>5, Zenon DEF WriterPCs, WonRight, Ptr
  <2> QED
    BY <1>0, <1>5, <2>2, <2>3, <2>4, <2>5, ZenonT(30) DEF TypeOK, WonRight
<1>6. ASSUME NEW r \in Reqs, CheckHandshake(r) PROVE TypeOK'
  <2>1. pc' \in [Reqs -> StartPCs]
    BY <1>pc, <1>6, Zenon DEF StartPCs, CheckHandshake
  <2>2. wpc' \in [Reqs -> WriterPCs]
    BY <1>pc, <1>6, Zenon DEF WriterPCs, CheckHandshake
  <2>3. again' \in [Reqs -> BOOLEAN]
    BY <1>0, <1>6, Zenon DEF TypeOK, CheckHandshake
  <2>4. pending' \in Reqs \union {NULL}
    BY <1>0, <1>6, Zenon DEF TypeOK, CheckHandshake
  <2> QED
    BY <1>0, <1>6, <2>1, <2>2, <2>3, <2>4, Zenon DEF TypeOK, CheckHandshake
<1>7. ASSUME NEW r \in Reqs, ConnectFails(r) PROVE TypeOK'
  BY <1>0, <1>7, SMTT(30) DEF TypeOK, StartPCs, WriterPCs, ConnectFails
<1>8. ASSUME NEW r \in Reqs, ConnectStarted(r) PROVE TypeOK'
  BY <1>0, <1>8, Zenon DEF TypeOK, StartPCs, WriterPCs, ConnectStarted
<1>9. ASSUME NEW r \in Reqs, ConnectRollback(r) PROVE TypeOK'
  BY <1>0, <1>9, Zenon DEF TypeOK, StartPCs, WriterPCs, ConnectRollback, TakeAndFail
<1>10. ASSUME NEW r \in Reqs, StartKeepWrite(r) PROVE TypeOK'
  <2>1. wpc' \in [Reqs -> WriterPCs]
    BY <1>pc, <1>10, Zenon DEF WriterPCs, StartKeepWrite
  <2>2. again' \in [Reqs -> BOOLEAN]
    BY <1>0, <1>10, Zenon DEF TypeOK, StartKeepWrite
  <2>3. tail' \in [Reqs -> Reqs \union {NULL}]
    BY <1>0, <1>10, Zenon DEF TypeOK, StartKeepWrite
  <2> QED
    BY <1>0, <1>10, <2>1, <2>2, <2>3, ZenonT(30) DEF TypeOK, StartKeepWrite
<1>11. ASSUME NEW r \in Reqs, BeginWrite(r) PROVE TypeOK'
  <2>1. mine' \in [Reqs -> Seq(Reqs)] /\ mem' \in [Reqs -> {"unused", "queued", "ok", "failed"}]
    <3>1. Len(mine[r]) > 1 => Tail(mine[r]) \in Seq(Reqs)
      BY <1>0, DropFirst, Zenon DEF TypeOK
    <3>2. First(r) \in Reqs
      BY <1>0, <1>11, ListNodes, Zenon DEF BeginWrite
    <3>3. \/ mine' = mine \/ mine' = [mine EXCEPT ![r] = mine[r]]
          \/ Len(mine[r]) > 1 /\ mine' = [mine EXCEPT ![r] = Tail(mine[r])]
      BY <1>11, Zenon DEF BeginWrite
    <3>4. mem' = mem \/ mem' = [mem EXCEPT ![First(r)] = "ok"]
      BY <1>11, Zenon DEF BeginWrite
    <3>5. mine' \in [Reqs -> Seq(Reqs)]
      BY <1>0, <3>1, <3>3, ZenonT(30) DEF TypeOK
    <3>6. mem' \in [Reqs -> {"unused", "queued", "ok", "failed"}]
      BY <1>0, <3>2, <3>4, Zenon DEF TypeOK
    <3> QED
      BY <3>5, <3>6, Zenon
  <2>2. nw' \in [Reqs -> {"negative", "zero", "positive"}]
    BY <1>0, <1>11, Zenon DEF TypeOK, BeginWrite
  <2>3. again' \in [Reqs -> BOOLEAN]
    BY <1>0, <1>11, Zenon DEF TypeOK, BeginWrite
  <2>4. wpc' \in [Reqs -> WriterPCs]
    BY <1>pc, <1>11, Zenon DEF WriterPCs, BeginWrite
  <2> QED
    BY <1>0, <1>11, <2>1, <2>2, <2>3, <2>4, ZenonT(30) DEF TypeOK, BeginWrite
<1>12. ASSUME NEW r \in Reqs, CutPart(r) PROVE TypeOK'
  <2> DEFINE q == mine[r][NextUncut(r)]
  <2>1. q \in Reqs /\ left[q] \in 1..NParts
    BY <1>0, <1>12, UncutNode, Zenon DEF CutPart
  <2>2. Append(wr[r], q) \in Seq(Reqs)
    BY <1>0, <2>1, SeqAppend DEF TypeOK
  <2>3. left' = [left EXCEPT ![q] = left[q] - 1] /\ wr' = [wr EXCEPT ![r] = Append(wr[r], q)]
    BY <1>12, Zenon DEF CutPart
  <2> HIDE DEF q
  <2>4. left' \in [Reqs -> 0..NParts]
    BY <1>0, <2>1, <2>3, WriteQueueAssumption DEF TypeOK
  <2>5. wr' \in [Reqs -> Seq(Reqs)]
    BY <1>0, <2>2, <2>3, Zenon DEF TypeOK
  <2> QED
    BY <1>0, <1>12, <2>4, <2>5, ZenonT(30) DEF TypeOK, CutPart
<1>13. ASSUME NEW r \in Reqs, PostSend(r) PROVE TypeOK'
  <2>1. wire' \in Seq(Part)
    BY <1>0, <1>13, PostedParts, Zenon DEF TypeOK, PostSend
  <2>2. wr' \in [Reqs -> Seq(Reqs)]
    BY <1>0, <1>13 DEF TypeOK, PostSend
  <2> QED
    BY <1>0, <1>13, <2>1, <2>2, ZenonT(30) DEF TypeOK, PostSend, Part
<1>14. ASSUME NEW r \in Reqs, PostSendFails(r) PROVE TypeOK'
  <2>1. wire' \in Seq(Part)
    BY <1>0, <1>14, PostedParts, Zenon DEF TypeOK, PostSendFails
  <2>2. wr' \in [Reqs -> Seq(Reqs)]
    BY <1>0, <1>14 DEF TypeOK, PostSendFails
  <2> QED
    BY <1>0, <1>14, <2>1, <2>2, ZenonT(30) DEF TypeOK, StartPCs, WriterPCs, PostSendFails, Part
<1>15. ASSUME NEW r \in Reqs, EndCut(r) PROVE TypeOK'
  <2>1. wpc' \in [Reqs -> WriterPCs]
    BY <1>pc, <1>15, Zenon DEF WriterPCs, EndCut
  <2>2. nw' \in [Reqs -> {"negative", "zero", "positive"}]
    <3>1. nw' = nw \/ nw' = [nw EXCEPT ![r] = "negative"]
      BY <1>15, Zenon DEF EndCut
    <3> QED
      BY <1>0, <3>1, Zenon DEF TypeOK
  <2>3. again' \in [Reqs -> BOOLEAN]
    BY <1>0, <1>15, Zenon DEF TypeOK, EndCut
  <2> QED
    BY <1>0, <1>15, <2>1, <2>2, <2>3, ZenonT(30) DEF TypeOK, EndCut
<1>16. ASSUME NEW r \in Reqs, AfterWrite(r) PROVE TypeOK'
  <2>1. wpc[r] \notin {"none", "done"}
    BY <1>16, Zenon DEF AfterWrite
  <2>2. First(r) \in Reqs
    BY <1>0, <2>1, ListNodes, Zenon
  <2>3. SubSeq(mine[r], WrittenPrefix(r) + 1, Len(mine[r])) \in Seq(Reqs)
    BY <1>0, <2>1, WrittenPrefixIs, DropNodes, Zenon DEF TypeOK
  <2>4. mine' \in [Reqs -> Seq(Reqs)]
    BY <1>0, <1>16, <2>3, ZenonT(30) DEF TypeOK, AfterWrite
  <2>5. tail' \in [Reqs -> Reqs \union {NULL}]
    <3>1. tail' = tail \/ tail' = [tail EXCEPT ![r] = First(r)]
      BY <1>16, Zenon DEF AfterWrite
    <3> QED
      BY <1>0, <2>2, <3>1, Zenon DEF TypeOK
  <2>6. mem' \in [Reqs -> {"unused", "queued", "ok", "failed"}]
    BY <1>0, <1>16 DEF TypeOK, AfterWrite
  <2>7. wpc' \in [Reqs -> WriterPCs]
    BY <1>pc, <1>16, Zenon DEF WriterPCs, AfterWrite
  <2> QED
    BY <1>0, <1>16, <2>4, <2>5, <2>6, <2>7, ZenonT(30) DEF TypeOK, AfterWrite
<1>17. ASSUME NEW r \in Reqs, Waited(r) PROVE TypeOK'
  BY <1>0, <1>17, SMTT(60) DEF TypeOK, StartPCs, WriterPCs, Waited
<1>18. ASSUME NEW r \in Reqs, CasNoMore(r) PROVE TypeOK'
  <2>1. wpc' \in [Reqs -> WriterPCs]
    BY <1>pc, <1>18, Zenon DEF WriterPCs, CasNoMore
  <2>2. mem' \in [Reqs -> {"unused", "queued", "ok", "failed"}]
    BY <1>0, <1>18, Zenon DEF TypeOK, CasNoMore
  <2>3. mine' \in [Reqs -> Seq(Reqs)]
    BY <1>0, <1>18, SeqNone, Zenon DEF TypeOK, CasNoMore
  <2>4. tail' \in [Reqs -> Reqs \union {NULL}]
    BY <1>0, <1>18, Zenon DEF TypeOK, CasNoMore
  <2>5. head' \in Reqs \union {NULL}
    BY <1>0, <1>18, Zenon DEF TypeOK, CasNoMore
  <2> QED
    BY <1>0, <1>18, <2>1, <2>2, <2>3, <2>4, <2>5, Zenon DEF TypeOK, CasNoMore
<1>19. ASSUME NEW r \in Reqs, CasUnwritten(r) PROVE TypeOK'
  <2>1. OldHead(r) \in Reqs
    BY <1>0, <1>19, ListNodes, Zenon DEF CasUnwritten
  <2>2. AfterIncomplete(r) \in {"start", "begin", "walk"} /\ NextMode(r) \in {"first", "keep", "drain"}
    BY <1>0, Zenon DEF TypeOK, AfterIncomplete, NextMode
  <2>3. wpc' \in [Reqs -> WriterPCs]
    BY <1>pc, <1>19, <2>2, Zenon DEF WriterPCs, CasUnwritten
  <2>4. tail' \in [Reqs -> Reqs \union {NULL}]
    BY <1>0, <1>19, <2>1, Zenon DEF TypeOK, CasUnwritten
  <2>5. mode' \in [Reqs -> {"first", "keep", "drain"}]
    BY <1>0, <1>19, <2>2, Zenon DEF TypeOK, CasUnwritten
  <2> QED
    BY <1>0, <1>19, <2>3, <2>4, <2>5, ZenonT(30) DEF TypeOK, CasUnwritten
<1>20. ASSUME NEW r \in Reqs, CasNewRequests(r) PROVE TypeOK'
  <2>1. OldHead(r) \in Reqs
    BY <1>0, <1>20, ListNodes, Zenon DEF CasNewRequests
  <2>2. [new |-> head, p |-> head, rev |-> <<>>] \in [new : Reqs \union {NULL}, p : Ptr, rev : Seq(Reqs)]
    BY <1>0, SeqNone, Zenon DEF TypeOK, Ptr
  <2> QED
    BY <1>0, <1>20, <2>1, <2>2, ZenonT(30) DEF TypeOK, StartPCs, WriterPCs, CasNewRequests
<1>21. ASSUME NEW r \in Reqs, ReverseList(r) PROVE TypeOK'
  <2> DEFINE p == scan[r].p
             rev == <<p>> \o scan[r].rev
  <2>1. p \in Reqs /\ scan[r].rev \in Seq(Reqs)
    BY <1>0, <1>21, ScanNode, Zenon DEF ReverseList
  <2>2. rev \in Seq(Reqs)
    BY <2>1, AddFirst, Zenon
  <2>3. mine[r] \o rev \in Seq(Reqs)
    BY <1>0, <2>2, SeqConcat, SMTT(30) DEF TypeOK
  <2>4. AfterIncomplete(r) \in {"start", "begin", "walk"} /\ NextMode(r) \in {"first", "keep", "drain"}
    BY <1>0, Zenon DEF TypeOK, AfterIncomplete, NextMode
  <2>5. NoScan \in [new : Reqs \union {NULL}, p : Ptr, rev : Seq(Reqs)]
    BY SeqNone, Zenon DEF NoScan, Ptr
  <2>6. [scan[r] EXCEPT !.p = next[p], !.rev = rev] \in [new : Reqs \union {NULL}, p : Ptr, rev : Seq(Reqs)]
    <3>1. /\ scan[r] \in [new : Reqs \union {NULL}, p : Ptr, rev : Seq(Reqs)]
          /\ next[p] \in Ptr
      BY <1>0, <2>1, Zenon DEF TypeOK
    <3> HIDE DEF rev
    <3> QED
      BY <2>2, <3>1, Zenon
  <2> HIDE DEF rev
  <2>7. /\ mine' = IF next[p] = tail[r] THEN [mine EXCEPT ![r] = mine[r] \o rev] ELSE mine
        /\ scan' = [scan EXCEPT ![r] = IF next[p] = tail[r] THEN NoScan
                                         ELSE [scan[r] EXCEPT !.p = next[p], !.rev = rev]]
    BY <1>21, Zenon DEF ReverseList, rev
  <2> HIDE DEF p
  <2>8. mine' \in [Reqs -> Seq(Reqs)]
    BY <1>0, <2>3, <2>7, Zenon DEF TypeOK
  <2>9. scan' \in [Reqs -> [new : Reqs \union {NULL}, p : Ptr, rev : Seq(Reqs)]]
    BY <1>0, <2>5, <2>6, <2>7, Zenon DEF TypeOK
  <2>10. tail' \in [Reqs -> Reqs \union {NULL}]
    BY <1>0, <1>21, Zenon DEF TypeOK, ReverseList
  <2>11. wpc' \in [Reqs -> WriterPCs]
    BY <1>pc, <1>21, <2>4, Zenon DEF WriterPCs, ReverseList
  <2>12. mode' \in [Reqs -> {"first", "keep", "drain"}]
    BY <1>0, <1>21, <2>4, Zenon DEF TypeOK, ReverseList
  <2> QED
    BY <1>0, <1>21, <2>8, <2>9, <2>10, <2>11, <2>12, Zenon DEF TypeOK, ReverseList
<1>22. ASSUME NEW r \in Reqs, FailWrite(r) PROVE TypeOK'
  <2>1. wpc' \in [Reqs -> WriterPCs]
    BY <1>pc, <1>22, Zenon DEF WriterPCs, FailWrite
  <2>2. mode' \in [Reqs -> {"first", "keep", "drain"}]
    BY <1>0, <1>22, Zenon DEF TypeOK, FailWrite
  <2>3. fail' \in 0..4
    BY <1>0, <1>22 DEF TypeOK, FailWrite
  <2>4. errAgain' \in BOOLEAN
    BY <1>0, <1>22, Zenon DEF TypeOK, FailWrite
  <2> QED
    BY <1>0, <1>22, <2>1, <2>2, <2>3, <2>4, Zenon DEF TypeOK, FailWrite
<1>23. ASSUME NEW r \in Reqs, OnFailedReturns(r) PROVE TypeOK'
  BY <1>0, <1>23, SMTT(30) DEF TypeOK, StartPCs, WriterPCs, OnFailedReturns
<1>24. ASSUME NEW r \in Reqs, WalkFailed(r) PROVE TypeOK'
  <2>1. LastOf(mine[r]) \in Reqs
    BY <1>0, <1>24, ListNodes, Zenon DEF WalkFailed
  <2>2. <<LastOf(mine[r])>> \in Seq(Reqs)
    BY <2>1, OneNode, Zenon
  <2>3. wpc' \in [Reqs -> WriterPCs]
    BY <1>pc, <1>24, Zenon DEF WriterPCs, WalkFailed
  <2>4. mem' \in [Reqs -> {"unused", "queued", "ok", "failed"}]
    BY <1>0, <1>24, Zenon DEF TypeOK, WalkFailed
  <2>5. mine' \in [Reqs -> Seq(Reqs)]
    BY <1>0, <1>24, <2>2, Zenon DEF TypeOK, WalkFailed
  <2>6. left' \in [Reqs -> 0..NParts]
    BY <1>0, <1>24, <2>1, WriteQueueAssumption DEF TypeOK, WalkFailed
  <2>7. tail' \in [Reqs -> Reqs \union {NULL}]
    BY <1>0, <1>24, <2>1, Zenon DEF TypeOK, WalkFailed
  <2> QED
    BY <1>0, <1>24, <2>3, <2>4, <2>5, <2>6, <2>7, ZenonT(30) DEF TypeOK, WalkFailed
<1>25. CASE Connection
  <2>1. CASE OnClientHandshake
    BY <1>0, <2>1, SMTT(30) DEF TypeOK, OnClientHandshake
  <2>2. CASE HandshakeDone
    BY <1>0, <2>2, Zenon DEF TypeOK, HandshakeDone
  <2>3. CASE HandshakeTake
    BY <1>0, <2>3, Zenon DEF TypeOK, StartPCs, WriterPCs, HandshakeTake
  <2>4. CASE HandshakeFailPending
    BY <1>0, <2>4, Zenon DEF TypeOK, StartPCs, WriterPCs, HandshakeFailPending, TakeAndFail
  <2> QED
    BY <1>25, <2>1, <2>2, <2>3, <2>4, Zenon DEF Connection
<1>26. CASE FailedByOthers
  BY <1>0, <1>26, SMTT(30) DEF TypeOK, FailedByOthers
<1>27. CASE OnFailed
  <2>1. fail' \in 0..4 /\ hs' \in {"none", "registered", "running", "take", "failPending", "done"}
    BY <1>0, <1>27 DEF TypeOK, OnFailed
  <2> QED
    BY <1>0, <1>27, <2>1, Zenon DEF TypeOK, OnFailed
<1>28. CASE BeforeRecycled
  BY <1>0, <1>28, Zenon DEF TypeOK, StartPCs, WriterPCs, BeforeRecycled
<1>29. CASE Recycle
  BY <1>0, <1>29, ZenonT(30) DEF TypeOK, Recycle
<1>30. CASE UNCHANGED vars
  BY <1>0, <1>30, SMTT(30) DEF TypeOK, vars
<1> QED
  BY <1>1, <1>2, <1>3, <1>4, <1>5, <1>6, <1>7, <1>8, <1>9, <1>10, <1>11, <1>12, <1>13, <1>14,
     <1>15, <1>16, <1>17, <1>18, <1>19, <1>20, <1>21, <1>22, <1>23, <1>24, <1>25, <1>26, <1>27,
     <1>28, <1>29, <1>30, Zenon DEF Next, Producer, WriterStep

-----------------------------------------------------------------------------
(* What the invariant says about the lists *)

\* The requests in the order of their exchange.
LEMMA OrderNodes ==
    ASSUME TypeOK
    PROVE  Len(order) \in Nat /\ \A i \in 1..Len(order) : order[i] \in Reqs
  BY ReqsList, Zenon DEF TypeOK

\* A collected node is the owner's, queued, and its producer has left it.
LEMMA MineNodes ==
    ASSUME TypeOK, NEW k \in 0..Len(order), QueueInv(k), LinkInv(k),
           NEW r \in Reqs, Owns(r), NEW i \in 1..Len(mine[r])
    PROVE  /\ k + i \in 1..Len(order) /\ mine[r][i] = order[k + i] /\ mine[r][i] \in Reqs
           /\ mem[mine[r][i]] = "queued" /\ pc[mine[r][i]] # "link"
<1>1. Len(order) \in Nat /\ \A j \in 1..Len(order) : order[j] \in Reqs
  BY OrderNodes, Zenon
<1>2. Len(mine[r]) \in Nat
  BY ReqsList, Zenon DEF TypeOK
<1>3. k + Len(mine[r]) <= Len(order) /\ mine[r][i] = order[k + i]
  BY Zenon DEF QueueInv
<1>4. k + i \in 1..Len(order) /\ k + i > k /\ ~Above(r, k, k + i)
  BY <1>1, <1>2, <1>3 DEF Above
<1>5. mem[order[k + i]] = "queued"
  BY <1>4, Zenon DEF QueueInv
<1>6. pc[order[k + i]] # "link"
  BY <1>4, Zenon DEF LinkInv
<1> QED
  BY <1>1, <1>3, <1>4, <1>5, <1>6, Zenon

\* The nodes of the scan are above the collected ones.
LEMMA ScanNodes ==
    ASSUME TypeOK, ControlInv, NEW k \in 0..Len(order), QueueInv(k), LinkInv(k), ScanInv(k),
           NEW r \in Reqs, wpc[r] = "reverse"
    PROVE  \E m, n \in 1..Len(order) :
              /\ k + Len(mine[r]) < m /\ m <= n /\ m - 1 \in 1..Len(order)
              /\ scan[r].new = order[n] /\ scan[r].p = order[m]
              /\ Len(scan[r].rev) = n - m
              /\ \A i \in 1..n - m : scan[r].rev[i] = order[m + i]
              /\ \A j \in m + 1..n : pc[order[j]] # "link"
              /\ Above(r, k, m) /\ mem[order[m]] = "queued"
              /\ \/ pc[order[m]] = "link" /\ next[order[m]] = UNCONNECTED
                 \/ pc[order[m]] # "link" /\ next[order[m]] = order[m - 1]
<1>1. PICK m, n \in 1..Len(order) :
            /\ k + Len(mine[r]) < m /\ m <= n
            /\ scan[r].new = order[n] /\ scan[r].p = order[m]
            /\ Len(scan[r].rev) = n - m
            /\ \A i \in 1..n - m : scan[r].rev[i] = order[m + i]
            /\ \A j \in m + 1..n : pc[order[j]] # "link"
  BY Zenon DEF ScanInv
<1>2. Len(mine[r]) \in Nat /\ Len(mine[r]) > 0 /\ Owns(r)
  BY ListNodes, Zenon DEF Owns
<1>3. Len(order) \in Nat /\ order[m] \in Reqs
  BY OrderNodes, Zenon
<1>4. Above(r, k, m) /\ m > k /\ m - 1 \in 1..Len(order)
  BY <1>1, <1>2, <1>3, SMTT(30) DEF Above
<1>5. mem[order[m]] = "queued"
  BY <1>4, Zenon DEF QueueInv
<1>6. pc[order[m]] = "link" => next[order[m]] = UNCONNECTED
  BY <1>3, Zenon DEF ControlInv, Control
<1>7. pc[order[m]] # "link" => next[order[m]] = order[m - 1]
  BY <1>2, <1>4, Zenon DEF LinkInv
<1> QED
  BY <1>1, <1>4, <1>5, <1>6, <1>7, Zenon

\* No thread touches a request that was returned.
LEMMA InvSafeMemory == IInv => SafeMemory
<1> SUFFICES ASSUME IInv PROVE SafeMemory
  BY Zenon
<1>0. TypeOK /\ ControlInv /\ OrderInv
  BY Zenon DEF IInv
<1>1. PICK k \in 0..Len(order) : QueueInv(k) /\ LinkInv(k) /\ ScanInv(k)
  BY Zenon DEF IInv, ListInv
<1>2. Len(order) \in Nat /\ \A i \in 1..Len(order) : order[i] \in Reqs
  BY <1>0, OrderNodes, Zenon
<1>3. ASSUME NEW r \in Reqs, pc[r] = "link" PROVE mem[r] = "queued"
  <2>1. PICK j \in 1..Len(order) : order[j] = r
    BY <1>0, <1>3, Zenon DEF OrderInv, ControlInv, Control
  <2>2. j > k
    BY <1>1, <1>2, <1>3, <2>1 DEF LinkInv
  <2> QED
    BY <1>1, <2>1, <2>2, Zenon DEF QueueInv
<1>4. ASSUME NEW r \in Reqs, pc[r] = "won" PROVE mem[r] = "queued"
  <2>1. k < Len(order) /\ r = order[k + 1]
    BY <1>1, <1>4, Zenon DEF QueueInv, Owns
  <2>2. k + 1 \in 1..Len(order) /\ k + 1 > k
    BY <1>1, <1>2, <2>1, SMTT(30)
  <2> QED
    BY <1>1, <2>1, <2>2, Zenon DEF QueueInv
<1>5. ASSUME NEW r \in Reqs, pc[r] = "handshake" PROVE mem[r] = "queued"
  <2>1. wpc[r] = "won" /\ mine[r] = <<r>>
    BY <1>0, <1>5, Zenon DEF ControlInv, Control
  <2>2. Owns(r) /\ 1 \in 1..Len(mine[r]) /\ mine[r][1] = r
    BY <2>1, OneNode DEF Owns
  <2> QED
    BY <1>0, <1>1, <2>2, MineNodes
<1>6. ASSUME NEW r \in Reqs, Owns(r), NEW i \in 1..Len(mine[r]) PROVE mem[mine[r][i]] = "queued"
  BY <1>0, <1>1, <1>6, MineNodes, Zenon
<1>7. ASSUME NEW r \in Reqs, wpc[r] = "reverse" PROVE mem[scan[r].p] = "queued"
  BY <1>0, <1>1, <1>7, ScanNodes, Zenon
<1> QED
  BY <1>3, <1>4, <1>5, <1>6, <1>7, Zenon DEF SafeMemory

\* IsWriteComplete's CHECKs and the one of BeforeRecycled hold.
LEMMA InvChecksHold == IInv => ChecksHold
<1> SUFFICES ASSUME IInv PROVE ChecksHold
  BY Zenon
<1>0. TypeOK /\ ControlInv /\ TailInv
  BY Zenon DEF IInv
<1>1. PICK k \in 0..Len(order) : QueueInv(k) /\ LinkInv(k) /\ ScanInv(k)
  BY Zenon DEF IInv, ListInv
<1>2. ASSUME NEW r \in Reqs PROVE OldHead(r) = LastOf(mine[r])
  BY <1>0, Zenon DEF TailInv, OldHead
<1>3. ASSUME NEW r \in Reqs, wpc[r] = "reverse" PROVE next[scan[r].p] # NULL
  <2>1. PICK m \in 1..Len(order) : /\ scan[r].p = order[m] /\ m - 1 \in 1..Len(order)
                                   /\ next[order[m]] = UNCONNECTED \/ next[order[m]] = order[m - 1]
    BY <1>0, <1>1, <1>3, ScanNodes, Zenon
  <2>2. order[m - 1] \in Reqs
    BY <1>0, <2>1, OrderNodes, Zenon
  <2> QED
    BY <2>1, <2>2, WriteQueueAssumption, Zenon
<1>4. recycled # "check_failed"
  BY Zenon DEF IInv, RecycleInv
<1> QED
  BY <1>2, <1>3, <1>4, Zenon DEF ChecksHold

-----------------------------------------------------------------------------
(* The control of the calls and of the writers *)

\* Only queued requests are returned, so no step makes a request unused.
LEMMA ReturnedNodes ==
    ASSUME TypeOK, ControlInv, SafeMemory, NEW r \in Reqs, wpc[r] \notin {"none", "done"}
    PROVE  /\ mem[First(r)] = "queued" /\ mem[LastOf(mine[r])] = "queued"
           /\ \A n \in 0..Len(mine[r]) : \A q \in Prefix(mine[r], n) : mem[q] = "queued"
<1>1. Len(mine[r]) \in Nat /\ Len(mine[r]) > 0 /\ First(r) = mine[r][1]
  BY ListNodes, Zenon
<1>2. \A i \in 1..Len(mine[r]) : mem[mine[r][i]] = "queued"
  BY Zenon DEF SafeMemory, Owns
<1>3. 1 \in 1..Len(mine[r]) /\ Len(mine[r]) \in 1..Len(mine[r])
  BY <1>1
<1>4. \A n \in 0..Len(mine[r]) : \A i \in 1..n : i \in 1..Len(mine[r])
  BY <1>1
<1> QED
  BY <1>1, <1>2, <1>3, <1>4, Zenon DEF LastOf, Prefix

\* What the steps of the writer that return requests do to them.
LEMMA MemChanges ==
    ASSUME IInv, NEW r \in Reqs,
           BeginWrite(r) \/ AfterWrite(r) \/ CasNoMore(r) \/ WalkFailed(r)
    PROVE  \A q \in Reqs : mem'[q] = mem[q] \/ (mem[q] = "queued" /\ mem'[q] \in {"ok", "failed"})
<1>0. TypeOK /\ ControlInv /\ SafeMemory
  BY InvSafeMemory, Zenon DEF IInv
<1>1. wpc[r] \notin {"none", "done"}
  BY Zenon DEF BeginWrite, AfterWrite, CasNoMore, WalkFailed
<1>2. First(r) \in Reqs /\ Len(mine[r]) \in Nat /\ Len(mine[r]) > 0
  BY <1>0, <1>1, ListNodes, Zenon
<1>3. /\ mem[First(r)] = "queued"
      /\ \A n \in 0..Len(mine[r]) : \A q \in Prefix(mine[r], n) : mem[q] = "queued"
  BY <1>0, <1>1, ReturnedNodes, Zenon
<1>4. mem \in [Reqs -> {"unused", "queued", "ok", "failed"}]
  BY <1>0, Zenon DEF TypeOK
<1>5. CASE BeginWrite(r)
  <2>1. mem' = mem \/ mem' = [mem EXCEPT ![First(r)] = "ok"]
    BY <1>5, Zenon DEF BeginWrite
  <2>2. \A q \in Reqs : mem'[q] = mem[q] \/ (q = First(r) /\ mem'[q] = "ok")
    BY <1>4, <2>1, Zenon
  <2> QED
    BY <1>3, <2>2, Zenon
<1>6. CASE AfterWrite(r)
  <2>1. WrittenPrefix(r) \in 0..Len(mine[r])
    BY <1>0, <1>1, <1>2, WrittenPrefixIs
  <2>2. mem' = mem \/ mem' = [q \in Reqs |-> IF q \in Prefix(mine[r], WrittenPrefix(r)) THEN "ok" ELSE mem[q]]
    BY <1>6, Zenon DEF AfterWrite
  <2>3. \A q \in Reqs : mem'[q] = mem[q] \/ (q \in Prefix(mine[r], WrittenPrefix(r)) /\ mem'[q] = "ok")
    BY <2>2, Zenon
  <2>4. \A q \in Prefix(mine[r], WrittenPrefix(r)) : mem[q] = "queued"
    BY <1>3, <2>1, Zenon
  <2> QED
    BY <2>3, <2>4, Zenon
<1>7. CASE CasNoMore(r)
  <2>1. mem' = [mem EXCEPT ![First(r)] = "ok"] \/ mem' = [mem EXCEPT ![First(r)] = "failed"]
    BY <1>7, Zenon DEF CasNoMore
  <2>2. \A q \in Reqs : mem'[q] = mem[q] \/ (q = First(r) /\ mem'[q] \in {"ok", "failed"})
    BY <1>4, <2>1, Zenon
  <2> QED
    BY <1>3, <2>2, Zenon
<1>8. CASE WalkFailed(r)
  <2>1. Len(mine[r]) - 1 \in 0..Len(mine[r])
    BY <1>2
  <2>2. mem' = [q \in Reqs |-> IF q \in Prefix(mine[r], Len(mine[r]) - 1) THEN "failed" ELSE mem[q]]
    BY <1>8, Zenon DEF WalkFailed
  <2>3. \A q \in Reqs : mem'[q] = mem[q] \/ (q \in Prefix(mine[r], Len(mine[r]) - 1) /\ mem'[q] = "failed")
    BY <2>2, Zenon
  <2>4. \A q \in Prefix(mine[r], Len(mine[r]) - 1) : mem[q] = "queued"
    BY <1>3, <2>1, Zenon
  <2> QED
    BY <2>3, <2>4, Zenon
<1> QED
  BY <1>5, <1>6, <1>7, <1>8, Zenon

\* Every step keeps the control state consistent.
LEMMA ControlStep == IInv /\ [Next]_vars => ControlInv'
<1> SUFFICES ASSUME IInv, [Next]_vars PROVE ControlInv'
  BY Zenon
<1> USE DEF writerVars, connVars, failVars, Goto, Writer
<1>0. TypeOK /\ ControlInv /\ TailInv /\ SingleWriter /\ ListInv
  BY Zenon DEF IInv
<1>t. /\ pc \in [Reqs -> StartPCs] /\ wpc \in [Reqs -> WriterPCs]
      /\ next \in [Reqs -> Ptr] /\ mem \in [Reqs -> {"unused", "queued", "ok", "failed"}]
      /\ mode \in [Reqs -> {"first", "keep", "drain"}] /\ mine \in [Reqs -> Seq(Reqs)]
      /\ tail \in [Reqs -> Reqs \union {NULL}] /\ wr \in [Reqs -> Seq(Reqs)]
  BY <1>0, Zenon DEF TypeOK
<1>c. \A q \in Reqs : Control(q)
  BY <1>0, Zenon DEF ControlInv
<1>1. ASSUME NEW r \in Reqs, StartWriteRefused(r), NEW q \in Reqs PROVE Control(q)'
  BY <1>t, <1>c, <1>1, Zenon DEF Control, StartWriteRefused
<1>2. ASSUME NEW r \in Reqs, StartWrite(r), NEW q \in Reqs PROVE Control(q)'
  BY <1>t, <1>c, <1>2, Zenon DEF Control, StartWrite
<1>3. ASSUME NEW r \in Reqs, Exchange(r), NEW q \in Reqs PROVE Control(q)'
  BY <1>t, <1>c, <1>3, Zenon DEF Control, Exchange
<1>4. ASSUME NEW r \in Reqs, LinkPrev(r), NEW q \in Reqs PROVE Control(q)'
  BY <1>t, <1>c, <1>4, Zenon DEF Control, LinkPrev
<1>5. ASSUME NEW r \in Reqs, WonRight(r), NEW q \in Reqs PROVE Control(q)'
  <2>1. Len(<<r>>) = 1
    BY OneNode, Zenon
  <2>2. /\ q # r => UNCHANGED <<pc[q], wpc[q], next[q], mine[q]>>
        /\ pc[r] = "won" /\ mine'[r] = <<r>>
        /\ (pc'[r] = "done" /\ wpc'[r] = "fail") \/ (pc'[r] = "handshake" /\ wpc'[r] = "won")
        /\ UNCHANGED <<mem, tail, wr, mode>>
    BY <1>t, <1>5, Zenon DEF WonRight
  <2>3. CASE q # r
    BY <1>c, <2>2, <2>3, SMTT(30) DEF Control
  <2>4. Len(mine'[r]) > 0
    BY <2>1, <2>2
  <2>5. CASE q = r
    BY <1>c, <2>2, <2>4, <2>5, Zenon DEF Control
  <2> QED
    BY <2>3, <2>5, Zenon
<1>6. ASSUME NEW r \in Reqs, CheckHandshake(r), NEW q \in Reqs PROVE Control(q)'
  BY <1>t, <1>c, <1>6, SMTT(30) DEF Control, CheckHandshake
<1>7. ASSUME NEW r \in Reqs, ConnectFails(r), NEW q \in Reqs PROVE Control(q)'
  BY <1>t, <1>c, <1>7, Zenon DEF Control, ConnectFails
<1>8. ASSUME NEW r \in Reqs, ConnectStarted(r), NEW q \in Reqs PROVE Control(q)'
  BY <1>t, <1>c, <1>8, Zenon DEF Control, ConnectStarted
<1>p. pending # NULL => pending \in Reqs /\ wpc[pending] = "pending"
  BY <1>0, Zenon DEF SingleWriter, TypeOK
<1>n. NULL \notin Reqs
  BY WriteQueueAssumption, Zenon
<1>9. ASSUME NEW r \in Reqs, ConnectRollback(r), NEW q \in Reqs PROVE Control(q)'
  BY <1>t, <1>c, <1>p, <1>n, <1>9 DEF Control, ConnectRollback, TakeAndFail
<1>10. ASSUME NEW r \in Reqs, StartKeepWrite(r), NEW q \in Reqs PROVE Control(q)'
  <2>1. /\ q # r => UNCHANGED <<wpc[q], tail[q]>>
        /\ wpc[r] = "start" /\ wpc'[r] \in {"begin", "fail"} /\ tail'[r] = NULL
        /\ UNCHANGED <<pc, mem, next, mine, wr, mode>>
    BY <1>t, <1>10, Zenon DEF StartKeepWrite
  <2> QED
    BY <1>c, <2>1, Zenon DEF Control
<1>11. ASSUME NEW r \in Reqs, BeginWrite(r), NEW q \in Reqs PROVE Control(q)'
  <2>1. mem'[q] = "unused" <=> mem[q] = "unused"
    BY <1>11, MemChanges, Zenon
  <2>2. Len(mine[r]) > 1 => Len(Tail(mine[r])) > 0
    BY <1>t, DropFirst, ReqsList
  <2>3. \/ mine' = mine \/ mine' = [mine EXCEPT ![r] = mine[r]]
        \/ Len(mine[r]) > 1 /\ mode[r] = "keep" /\ mine' = [mine EXCEPT ![r] = Tail(mine[r])]
    BY <1>11, Zenon DEF BeginWrite
  <2>4. mine'[q] = mine[q] \/ (q = r /\ Len(mine[r]) > 1 /\ mode[r] = "keep" /\ mine'[q] = Tail(mine[r]))
    BY <1>t, <2>3, Zenon
  <2>5. /\ q # r => wpc'[q] = wpc[q]
        /\ wpc[r] = "begin" /\ wpc'[r] \in {"fail", "post", "cutDone"}
        /\ UNCHANGED <<pc, next, tail, wr, mode>>
    BY <1>t, <1>11, Zenon DEF BeginWrite
  <2> QED
    BY <1>c, <2>1, <2>2, <2>4, <2>5, ZenonT(30) DEF Control
<1>12. ASSUME NEW r \in Reqs, CutPart(r), NEW q \in Reqs PROVE Control(q)'
  <2>1. wpc[r] = "post" /\ (q # r => wr'[q] = wr[q]) /\ UNCHANGED <<pc, wpc, mem, next, mine, tail, mode>>
    BY <1>t, <1>12, Zenon DEF CutPart
  <2> QED
    BY <1>c, <2>1, Zenon DEF Control
<1>13. ASSUME NEW r \in Reqs, PostSend(r), NEW q \in Reqs PROVE Control(q)'
  BY <1>t, <1>c, <1>13, Zenon DEF Control, PostSend
<1>14. ASSUME NEW r \in Reqs, PostSendFails(r), NEW q \in Reqs PROVE Control(q)'
  BY <1>t, <1>c, <1>14, Zenon DEF Control, PostSendFails
<1>15. ASSUME NEW r \in Reqs, EndCut(r), NEW q \in Reqs PROVE Control(q)'
  BY <1>t, <1>c, <1>15, Zenon DEF Control, EndCut
<1>16. ASSUME NEW r \in Reqs, AfterWrite(r), NEW q \in Reqs PROVE Control(q)'
  <2> DEFINE rest == SubSeq(mine[r], WrittenPrefix(r) + 1, Len(mine[r]))
  <2>1. mem'[q] = "unused" <=> mem[q] = "unused"
    BY <1>16, MemChanges, Zenon
  <2>2. Len(rest) > 0
    <3>1. WrittenPrefix(r) \in 0..Len(mine[r]) - 1 /\ Len(mine[r]) \in Nat
      BY <1>0, <1>16, WrittenPrefixIs, ListNodes, Zenon DEF AfterWrite
    <3> QED
      BY <1>t, <3>1, DropNodes
  <2>3. mine' = mine \/ (mode[r] = "keep" /\ mine' = [mine EXCEPT ![r] = rest])
    BY <1>16, Zenon DEF AfterWrite
  <2> HIDE DEF rest
  <2>4. mine'[q] = mine[q] \/ (q = r /\ mode[r] = "keep" /\ mine'[q] = rest)
    BY <1>t, <2>3, Zenon
  <2>5. /\ q # r => wpc'[q] = wpc[q]
        /\ wpc[r] = "cutDone" /\ wpc'[r] \in {"fail", "complete", "wait"}
        /\ wpc'[r] = "wait" => mode[r] = "keep"
    BY <1>t, <1>16, Zenon DEF AfterWrite
  <2>6. (q # r => tail'[q] = tail[q]) /\ UNCHANGED <<pc, next, wr, mode>>
    BY <1>t, <1>16, Zenon DEF AfterWrite
  <2> QED
    BY <1>c, <2>1, <2>2, <2>4, <2>5, <2>6, SMTT(30) DEF Control
<1>17. ASSUME NEW r \in Reqs, Waited(r), NEW q \in Reqs PROVE Control(q)'
  BY <1>t, <1>c, <1>17, Zenon DEF Control, Waited
<1>18. ASSUME NEW r \in Reqs, CasNoMore(r), NEW q \in Reqs PROVE Control(q)'
  <2>1. mem'[q] = "unused" <=> mem[q] = "unused"
    BY <1>18, MemChanges, Zenon
  <2>2. /\ q # r => mine'[q] = mine[q] /\ tail'[q] = tail[q] /\ wpc'[q] = wpc[q]
        /\ wpc[r] = "complete" /\ wpc'[r] = "done" /\ mine'[r] = <<>> /\ tail'[r] = NULL
        /\ UNCHANGED <<pc, next, wr, mode>>
    BY <1>t, <1>18, Zenon DEF CasNoMore
  <2> QED
    BY <1>c, <2>1, <2>2 DEF Control
<1>19. ASSUME NEW r \in Reqs, CasUnwritten(r), NEW q \in Reqs PROVE Control(q)'
  <2>1. Len(mine[r]) = 1 \/ mode[r] = "keep"
    <3>1. mode[r] \in {"first", "keep", "drain"} /\ wpc[r] = "complete" /\ Len(<<r>>) = 1
      BY <1>t, <1>19, OneNode, Zenon DEF CasUnwritten
    <3> QED
      BY <1>c, <3>1, Zenon DEF Control
  <2> QED
    BY <1>t, <1>c, <1>19, <2>1, SMTT(30) DEF Control, CasUnwritten, AfterIncomplete, NextMode
<1>20. ASSUME NEW r \in Reqs, CasNewRequests(r), NEW q \in Reqs PROVE Control(q)'
  BY <1>t, <1>c, <1>20, Zenon DEF Control, CasNewRequests
<1>21. ASSUME NEW r \in Reqs, ReverseList(r), NEW q \in Reqs PROVE Control(q)'
  <2> DEFINE rev == <<scan[r].p>> \o scan[r].rev
  <2>1. rev \in Seq(Reqs)
    BY <1>0, <1>21, ScanNode, AddFirst, Zenon DEF ReverseList
  <2> HIDE DEF rev
  <2>2. Len(mine[r] \o rev) = Len(mine[r]) + Len(rev) /\ Len(mine[r]) \in Nat /\ Len(rev) \in Nat
    BY <1>t, <2>1, SeqConcat, ReqsList
  <2>3. \/ UNCHANGED <<mine, tail, wpc, mode>>
        \/ /\ mine' = [mine EXCEPT ![r] = mine[r] \o rev]
           /\ tail' = [tail EXCEPT ![r] = scan[r].new]
           /\ wpc' = [wpc EXCEPT ![r] = AfterIncomplete(r)]
           /\ mode' = [mode EXCEPT ![r] = NextMode(r)]
    BY <1>21, Zenon DEF ReverseList, rev
  <2>4. wpc[r] = "reverse" /\ UNCHANGED <<pc, mem, next, wr>>
    BY <1>21, Zenon DEF ReverseList
  <2>5. \/ mode[r] \in {"first", "keep"} /\ NextMode(r) = "keep" /\ AfterIncomplete(r) \in {"start", "begin"}
        \/ mode[r] = "drain" /\ NextMode(r) = "drain" /\ AfterIncomplete(r) = "walk"
    BY <1>t, Zenon DEF NextMode, AfterIncomplete
  <2>6. CASE UNCHANGED <<mine, tail, wpc, mode>>
    BY <1>c, <2>4, <2>6, Zenon DEF Control
  <2>7. CASE /\ mine' = [mine EXCEPT ![r] = mine[r] \o rev]
             /\ tail' = [tail EXCEPT ![r] = scan[r].new]
             /\ wpc' = [wpc EXCEPT ![r] = AfterIncomplete(r)]
             /\ mode' = [mode EXCEPT ![r] = NextMode(r)]
    <3>1. /\ q # r => UNCHANGED <<mine[q], tail[q], wpc[q], mode[q]>>
          /\ mine'[r] = mine[r] \o rev /\ wpc'[r] = AfterIncomplete(r) /\ mode'[r] = NextMode(r)
      BY <1>t, <2>7, Zenon
    <3>2. Len(mine'[r]) > 0
      BY <1>c, <2>2, <2>4, <3>1, SMTT(30) DEF Control
    <3> QED
      BY <1>c, <2>4, <2>5, <3>1, <3>2, SMTT(60) DEF Control
  <2> QED
    BY <2>3, <2>6, <2>7, Zenon
<1>22. ASSUME NEW r \in Reqs, FailWrite(r), NEW q \in Reqs PROVE Control(q)'
  BY <1>t, <1>c, <1>22, Zenon DEF Control, FailWrite
<1>23. ASSUME NEW r \in Reqs, OnFailedReturns(r), NEW q \in Reqs PROVE Control(q)'
  BY <1>t, <1>c, <1>23, ZenonT(30) DEF Control, OnFailedReturns
<1>24. ASSUME NEW r \in Reqs, WalkFailed(r), NEW q \in Reqs PROVE Control(q)'
  <2>1. mem'[q] = "unused" <=> mem[q] = "unused"
    BY <1>24, MemChanges, Zenon
  <2>2. LastOf(mine[r]) \in Reqs
    BY <1>0, <1>24, ListNodes, Zenon DEF WalkFailed
  <2>3. Len(<<LastOf(mine[r])>>) = 1
    BY <2>2, OneNode, Zenon
  <2>4. /\ q # r => mine'[q] = mine[q] /\ tail'[q] = tail[q] /\ wpc'[q] = wpc[q]
        /\ wpc[r] = "walk" /\ wpc'[r] = "complete" /\ mine'[r] = <<LastOf(mine[r])>>
        /\ UNCHANGED <<pc, next, wr, mode>>
    BY <1>t, <1>24, Zenon DEF WalkFailed
  <2>5. mode[r] = "drain" /\ Len(mine'[r]) = 1 /\ Len(mine'[r]) > 0
    BY <1>c, <2>3, <2>4, SMTT(30) DEF Control
  <2> QED
    BY <1>c, <2>1, <2>4, <2>5, ZenonT(30) DEF Control
<1>25. ASSUME Connection, NEW q \in Reqs PROVE Control(q)'
  <2>1. CASE OnClientHandshake
    BY <1>c, <2>1, Zenon DEF Control, OnClientHandshake
  <2>2. CASE HandshakeDone
    BY <1>c, <2>2, Zenon DEF Control, HandshakeDone
  <2>3. CASE HandshakeTake
    BY <1>t, <1>c, <1>p, <1>n, <2>3, Zenon DEF Control, HandshakeTake
  <2>4. CASE HandshakeFailPending
    BY <1>t, <1>c, <1>p, <1>n, <2>4, Zenon DEF Control, HandshakeFailPending, TakeAndFail
  <2> QED
    BY <1>25, <2>1, <2>2, <2>3, <2>4, Zenon DEF Connection
<1>26. ASSUME FailedByOthers \/ OnFailed \/ Recycle, NEW q \in Reqs PROVE Control(q)'
  BY <1>c, <1>26, Zenon DEF Control, FailedByOthers, OnFailed, Recycle
<1>27. ASSUME BeforeRecycled, NEW q \in Reqs PROVE Control(q)'
  BY <1>t, <1>c, <1>p, <1>n, <1>27, Zenon DEF Control, BeforeRecycled
<1>28. ASSUME UNCHANGED vars, NEW q \in Reqs PROVE Control(q)'
  BY <1>c, <1>28, Zenon DEF Control, vars
<1> QED
  BY <1>1, <1>2, <1>3, <1>4, <1>5, <1>6, <1>7, <1>8, <1>9, <1>10, <1>11, <1>12, <1>13, <1>14,
     <1>15, <1>16, <1>17, <1>18, <1>19, <1>20, <1>21, <1>22, <1>23, <1>24, <1>25, <1>26, <1>27,
     <1>28, Zenon DEF Next, Producer, WriterStep, ControlInv

-----------------------------------------------------------------------------
(* The right to write *)

\* The functions the steps update at one request.
LEMMA Updated ==
    ASSUME TypeOK
    PROVE  /\ pc \in [Reqs -> StartPCs] /\ wpc \in [Reqs -> WriterPCs]
           /\ next \in [Reqs -> Ptr] /\ mem \in [Reqs -> {"unused", "queued", "ok", "failed"}]
           /\ mode \in [Reqs -> {"first", "keep", "drain"}] /\ mine \in [Reqs -> Seq(Reqs)]
           /\ tail \in [Reqs -> Reqs \union {NULL}] /\ wr \in [Reqs -> Seq(Reqs)]
           /\ prev \in [Reqs -> Reqs \union {NULL}] /\ left \in [Reqs -> 0..NParts]
           /\ scan \in [Reqs -> [new : Reqs \union {NULL}, p : Ptr, rev : Seq(Reqs)]]
           /\ pending \in Reqs \union {NULL} /\ head \in Reqs \union {NULL}
  BY Zenon DEF TypeOK

\* Where the caller of IsWriteComplete goes on.
LEMMA Continues ==
    ASSUME TypeOK, NEW r \in Reqs
    PROVE  \/ mode[r] \in {"first", "keep"} /\ NextMode(r) = "keep" /\ AfterIncomplete(r) \in {"start", "begin"}
           \/ mode[r] = "drain" /\ NextMode(r) = "drain" /\ AfterIncomplete(r) = "walk"
<1>1. mode[r] \in {"first", "keep", "drain"}
  BY Zenon DEF TypeOK
<1> QED
  BY <1>1, Zenon DEF NextMode, AfterIncomplete

\* Only the exchange of a null head and the CAS back to null change who owns the right.
LEMMA OwnsKept ==
    ASSUME IInv, [Next]_vars, \A r \in Reqs : ~Exchange(r) /\ ~CasNoMore(r)
    PROVE  \A q \in Reqs : Owns(q)' <=> Owns(q)
<1> SUFFICES ASSUME NEW q \in Reqs PROVE Owns(q)' <=> Owns(q)
  BY Zenon
<1> USE DEF writerVars, connVars, failVars, Goto, Writer
<1>0. TypeOK /\ ControlInv /\ SingleWriter
  BY Zenon DEF IInv
<1>t. pc \in [Reqs -> StartPCs] /\ wpc \in [Reqs -> WriterPCs]
  BY <1>0, Zenon DEF TypeOK
<1>c. /\ pc[q] = "won" => wpc[q] = "none"
      /\ pc[q] = "handshake" => wpc[q] = "won"
  BY <1>0, Zenon DEF ControlInv, Control
<1>p. pending # NULL => wpc[pending] = "pending"
  BY <1>0, Zenon DEF SingleWriter
<1>n. q # NULL
  BY WriteQueueAssumption, Zenon
<1>1. CASE \E r \in Reqs : StartWriteRefused(r) \/ StartWrite(r) \/ LinkPrev(r) \/ ConnectFails(r) \/ ConnectStarted(r)
  BY <1>t, <1>1, Zenon DEF Owns, StartWriteRefused, StartWrite, LinkPrev, ConnectFails, ConnectStarted
<1>2. CASE \E r \in Reqs : WonRight(r)
  BY <1>t, <1>2 DEF Owns, WonRight
<1>3. CASE \E r \in Reqs : CheckHandshake(r)
  BY <1>t, <1>c, <1>3, Zenon DEF Owns, CheckHandshake
<1>4. CASE \E r \in Reqs : ConnectRollback(r)
  BY <1>t, <1>p, <1>n, <1>4 DEF Owns, ConnectRollback, TakeAndFail
<1>5. CASE \E r \in Reqs : StartKeepWrite(r) \/ BeginWrite(r) \/ CutPart(r) \/ PostSend(r) \/ PostSendFails(r)
  BY <1>t, <1>5, SMTT(60) DEF Owns, StartKeepWrite, BeginWrite, CutPart, PostSend, PostSendFails
<1>6. CASE \E r \in Reqs : EndCut(r) \/ AfterWrite(r) \/ Waited(r) \/ FailWrite(r) \/ OnFailedReturns(r) \/ WalkFailed(r)
  BY <1>t, <1>6, SMTT(30) DEF Owns, EndCut, AfterWrite, Waited, FailWrite, OnFailedReturns, WalkFailed
<1>7. CASE \E r \in Reqs : CasUnwritten(r) \/ CasNewRequests(r) \/ ReverseList(r)
  <2>1. \A r \in Reqs : AfterIncomplete(r) \notin {"none", "done"}
    BY <1>0, Continues, Zenon
  <2> QED
    BY <1>t, <1>7, <2>1, ZenonT(30) DEF Owns, CasUnwritten, CasNewRequests, ReverseList
<1>8. CASE Connection
  BY <1>t, <1>p, <1>n, <1>8 DEF Owns, Connection, OnClientHandshake, HandshakeDone, HandshakeTake,
                                 HandshakeFailPending, TakeAndFail
<1>9. CASE FailedByOthers \/ OnFailed \/ Recycle
  BY <1>9, Zenon DEF Owns, FailedByOthers, OnFailed, Recycle
<1>10. CASE BeforeRecycled
  BY <1>t, <1>p, <1>n, <1>10, Zenon DEF Owns, BeforeRecycled
<1>11. CASE UNCHANGED vars
  BY <1>11, Zenon DEF Owns, vars
<1> QED
  BY <1>1, <1>2, <1>3, <1>4, <1>5, <1>6, <1>7, <1>8, <1>9, <1>10, <1>11, Zenon DEF Next, Producer, WriterStep

\* The steps that touch neither the requests nor the lists: the control moves on.
Quiet ==
    /\ UNCHANGED <<head, next, mem, prev, mine, order, left, wr, wire, tail, scan>>
    /\ \A q \in Reqs :
          /\ pc'[q] = "link" <=> pc[q] = "link"
          /\ pc'[q] = "won" <=> pc[q] = "won"
          /\ wpc'[q] = "reverse" <=> wpc[q] = "reverse"
          /\ wpc'[q] \in {"none", "done"} <=> wpc[q] \in {"none", "done"}
\* The steps of the lists.
ListStepOf(r) ==
    \/ StartWrite(r) \/ Exchange(r) \/ LinkPrev(r) \/ WonRight(r) \/ StartKeepWrite(r) \/ BeginWrite(r)
    \/ CutPart(r) \/ PostSend(r) \/ PostSendFails(r) \/ AfterWrite(r)
    \/ CasNoMore(r) \/ CasUnwritten(r) \/ CasNewRequests(r) \/ ReverseList(r) \/ WalkFailed(r)

\* Every other step is quiet.
LEMMA QuietSteps ==
    ASSUME IInv, [Next]_vars, \A r \in Reqs : ~ListStepOf(r)
    PROVE  Quiet
<1> USE DEF writerVars, connVars, failVars, Goto, Writer
<1>0. TypeOK /\ ControlInv /\ SingleWriter
  BY Zenon DEF IInv
<1>t. pc \in [Reqs -> StartPCs] /\ wpc \in [Reqs -> WriterPCs]
  BY <1>0, Zenon DEF TypeOK
<1>c. \A q \in Reqs : pc[q] = "handshake" => wpc[q] = "won"
  BY <1>0, Zenon DEF ControlInv, Control
<1>p. pending # NULL => wpc[pending] = "pending"
  BY <1>0, Zenon DEF SingleWriter
<1>n. NULL \notin Reqs
  BY WriteQueueAssumption, Zenon
<1>1. CASE \E r \in Reqs : StartWriteRefused(r) \/ ConnectFails(r) \/ ConnectStarted(r)
  BY <1>t, <1>1, Zenon DEF Quiet, StartWriteRefused, ConnectFails, ConnectStarted
<1>2. CASE \E r \in Reqs : CheckHandshake(r)
  <2>1. PICK r \in Reqs : CheckHandshake(r)
    BY <1>2, Zenon
  <2>2. /\ UNCHANGED <<head, next, mem, prev, mine, order, left, wr, wire, tail, scan>>
        /\ pc[r] = "handshake" /\ wpc[r] = "won"
    BY <1>c, <2>1, Zenon DEF CheckHandshake
  <2>3. \/ pc' = [pc EXCEPT ![r] = "done"] /\ wpc' = [wpc EXCEPT ![r] = "begin"]
        \/ pc' = [pc EXCEPT ![r] = "connect"] /\ wpc' = [wpc EXCEPT ![r] = "pending"]
    BY <2>1, Zenon DEF CheckHandshake
  <2> QED
    BY <1>t, <2>2, <2>3, Zenon DEF Quiet
<1>3. CASE \E r \in Reqs : ConnectRollback(r)
  BY <1>t, <1>p, <1>n, <1>3 DEF Quiet, ConnectRollback, TakeAndFail
<1>4. CASE \E r \in Reqs : EndCut(r) \/ Waited(r) \/ FailWrite(r) \/ OnFailedReturns(r)
  <2>1. PICK r \in Reqs : EndCut(r) \/ Waited(r) \/ FailWrite(r) \/ OnFailedReturns(r)
    BY <1>4, Zenon
  <2>2. /\ UNCHANGED <<head, next, mem, prev, mine, order, left, wr, wire, tail, scan, pc>>
        /\ wpc[r] \in {"post", "wait", "fail", "onFailed"}
    BY <2>1, Zenon DEF EndCut, Waited, FailWrite, OnFailedReturns
  <2>3. \/ wpc' = [wpc EXCEPT ![r] = "cutDone"] \/ wpc' = [wpc EXCEPT ![r] = "fail"]
        \/ wpc' = [wpc EXCEPT ![r] = "complete"] \/ wpc' = [wpc EXCEPT ![r] = "onFailed"]
        \/ wpc' = [wpc EXCEPT ![r] = "walk"]
    BY <2>1, Zenon DEF EndCut, Waited, FailWrite, OnFailedReturns
  <2> QED
    BY <1>t, <2>2, <2>3, Zenon DEF Quiet
<1>5. CASE Connection
  BY <1>t, <1>p, <1>n, <1>5, Zenon DEF Quiet, Connection, OnClientHandshake, HandshakeDone, HandshakeTake,
                                 HandshakeFailPending, TakeAndFail
<1>6. CASE FailedByOthers \/ OnFailed \/ Recycle
  BY <1>6, Zenon DEF Quiet, FailedByOthers, OnFailed, Recycle
<1>7. CASE BeforeRecycled
  BY <1>t, <1>p, <1>n, <1>7, Zenon DEF Quiet, BeforeRecycled
<1>8. CASE UNCHANGED vars
  BY <1>8, Zenon DEF Quiet, vars
<1> QED
  BY <1>1, <1>2, <1>3, <1>4, <1>5, <1>6, <1>7, <1>8, Zenon DEF Next, Producer, WriterStep, ListStepOf

\* The request in _pending_keepwrite_req is the one that waits there.
LEMMA PendingStep ==
    ASSUME IInv, [Next]_vars
    PROVE  /\ pending' # NULL => wpc'[pending'] = "pending"
           /\ \A q \in Reqs : wpc'[q] = "pending" => pending' = q
<1> USE DEF writerVars, connVars, failVars, Goto, Writer
<1> DEFINE P == /\ pending # NULL => pending \in Reqs /\ wpc[pending] = "pending"
                /\ \A q \in Reqs : wpc[q] = "pending" => pending = q
<1>0. TypeOK /\ ControlInv /\ SingleWriter
  BY Zenon DEF IInv
<1>t. pc \in [Reqs -> StartPCs] /\ wpc \in [Reqs -> WriterPCs]
  BY <1>0, Zenon DEF TypeOK
<1>p. P
  BY <1>0, Zenon DEF SingleWriter, TypeOK
<1>n. NULL \notin Reqs
  BY WriteQueueAssumption, Zenon
<1>1. CASE \E r \in Reqs : StartWriteRefused(r) \/ StartWrite(r) \/ Exchange(r) \/ LinkPrev(r) \/ ConnectFails(r) \/ ConnectStarted(r)
  BY <1>p, <1>1, Zenon DEF StartWriteRefused, StartWrite, Exchange, LinkPrev, ConnectFails, ConnectStarted
<1>2. CASE \E r \in Reqs : WonRight(r)
  <2>1. PICK r \in Reqs : WonRight(r)
    BY <1>2, Zenon
  <2>2. wpc[r] = "none"
    BY <1>0, <2>1, Zenon DEF ControlInv, Control, WonRight
  <2> QED
    BY <1>t, <1>p, <2>1, <2>2, Zenon DEF WonRight
<1>3. CASE \E r \in Reqs : CheckHandshake(r)
  <2>1. PICK r \in Reqs : CheckHandshake(r)
    BY <1>3, Zenon
  <2>2. wpc[r] = "won"
    BY <1>0, <2>1, Zenon DEF ControlInv, Control, CheckHandshake
  <2>3. pending = NULL
    BY <1>0, <1>p, <2>2, Zenon DEF SingleWriter, Owns
  <2>4. \/ wpc' = [wpc EXCEPT ![r] = "begin"] /\ pending' = pending
        \/ wpc' = [wpc EXCEPT ![r] = "pending"] /\ pending' = r
    BY <2>1, Zenon DEF CheckHandshake
  <2> QED
    BY <1>t, <1>p, <1>n, <2>2, <2>3, <2>4, Zenon
<1>4. CASE \E r \in Reqs : ConnectRollback(r)
  BY <1>t, <1>p, <1>n, <1>4, Zenon DEF ConnectRollback, TakeAndFail
<1>5. CASE \E r \in Reqs : StartKeepWrite(r) \/ BeginWrite(r) \/ CutPart(r) \/ PostSend(r) \/ PostSendFails(r)
  BY <1>t, <1>p, <1>5, SMTT(60) DEF StartKeepWrite, BeginWrite, CutPart, PostSend, PostSendFails
<1>6. CASE \E r \in Reqs : EndCut(r) \/ AfterWrite(r) \/ Waited(r) \/ FailWrite(r) \/ OnFailedReturns(r) \/ WalkFailed(r)
  <2>1. PICK r \in Reqs : EndCut(r) \/ AfterWrite(r) \/ Waited(r) \/ FailWrite(r) \/ OnFailedReturns(r) \/ WalkFailed(r)
    BY <1>6, Zenon
  <2>2. /\ pending' = pending /\ wpc[r] # "pending"
        /\ wpc' = wpc \/ \E l \in WriterPCs : l # "pending" /\ wpc' = [wpc EXCEPT ![r] = l]
    <3>1. CASE EndCut(r)
      BY <3>1 DEF EndCut, WriterPCs
    <3>2. CASE AfterWrite(r)
      BY <3>2 DEF AfterWrite, WriterPCs
    <3>3. CASE Waited(r)
      BY <3>3 DEF Waited, WriterPCs
    <3>4. CASE FailWrite(r)
      BY <3>4 DEF FailWrite, WriterPCs
    <3>5. CASE OnFailedReturns(r)
      BY <3>5 DEF OnFailedReturns, WriterPCs
    <3>6. CASE WalkFailed(r)
      BY <3>6 DEF WalkFailed, WriterPCs
    <3> QED
      BY <2>1, <3>1, <3>2, <3>3, <3>4, <3>5, <3>6, Zenon
  <2> QED
    BY <1>t, <1>p, <2>2
<1>7. CASE \E r \in Reqs : CasNoMore(r) \/ CasUnwritten(r) \/ CasNewRequests(r) \/ ReverseList(r)
  <2>1. \A r \in Reqs : AfterIncomplete(r) # "pending"
    BY <1>0, Continues, Zenon
  <2>2. PICK r \in Reqs : CasNoMore(r) \/ CasUnwritten(r) \/ CasNewRequests(r) \/ ReverseList(r)
    BY <1>7, Zenon
  <2>3. /\ pending' = pending /\ wpc[r] \in {"complete", "reverse"}
        /\ \/ wpc' = wpc \/ wpc' = [wpc EXCEPT ![r] = "done"] \/ wpc' = [wpc EXCEPT ![r] = "reverse"]
           \/ wpc' = [wpc EXCEPT ![r] = AfterIncomplete(r)]
    BY <2>2, Zenon DEF CasNoMore, CasUnwritten, CasNewRequests, ReverseList
  <2> QED
    BY <1>t, <1>p, <2>1, <2>3, Zenon
<1>8. CASE Connection
  BY <1>t, <1>p, <1>n, <1>8, Zenon DEF Connection, OnClientHandshake, HandshakeDone, HandshakeTake,
                                 HandshakeFailPending, TakeAndFail
<1>9. CASE FailedByOthers \/ OnFailed \/ Recycle
  BY <1>p, <1>9, Zenon DEF FailedByOthers, OnFailed, Recycle
<1>10. CASE BeforeRecycled
  BY <1>t, <1>p, <1>n, <1>10, Zenon DEF BeforeRecycled
<1>11. CASE UNCHANGED vars
  BY <1>p, <1>11, Zenon DEF vars
<1> QED
  BY <1>1, <1>2, <1>3, <1>4, <1>5, <1>6, <1>7, <1>8, <1>9, <1>10, <1>11, Zenon DEF Next, Producer, WriterStep

\* The exchange gives the right to whoever found a null head, and to nobody else.
LEMMA ExchangeOwns ==
    ASSUME IInv, NEW r \in Reqs, Exchange(r)
    PROVE  \A q \in Reqs : Owns(q)' <=> IF head = NULL THEN q = r ELSE Owns(q)
<1>0. TypeOK /\ ControlInv /\ SingleWriter
  BY Zenon DEF IInv
<1>1. wpc[r] = "none" /\ pc[r] = "exchange"
  BY <1>0, Zenon DEF ControlInv, Control, Exchange
<1>2. /\ pc' = [pc EXCEPT ![r] = IF head = NULL THEN "won" ELSE "link"] /\ wpc' = wpc
      /\ pc \in [Reqs -> StartPCs]
  BY <1>0, Zenon DEF Exchange, Goto, TypeOK, writerVars
<1>3. head = NULL => \A q \in Reqs : ~Owns(q)
  BY <1>0, Zenon DEF SingleWriter
<1> QED
  BY <1>1, <1>2, <1>3, Zenon DEF Owns

\* The CAS back to null leaves no owner.
LEMMA CasOwns ==
    ASSUME IInv, NEW r \in Reqs, CasNoMore(r)
    PROVE  \A q \in Reqs : ~Owns(q)'
<1>0. TypeOK /\ ControlInv /\ SingleWriter
  BY Zenon DEF IInv
<1>1. Owns(r) /\ pc[r] # "won"
  BY <1>0, Zenon DEF CasNoMore, Owns, ControlInv, Control
<1>2. wpc' = [wpc EXCEPT ![r] = "done"] /\ pc' = pc /\ wpc \in [Reqs -> WriterPCs]
  BY <1>0, Zenon DEF CasNoMore, Writer, TypeOK
<1>3. \A q \in Reqs : Owns(q) => q = r
  BY <1>0, <1>1, Zenon DEF SingleWriter
<1> QED
  BY <1>1, <1>2, <1>3, Zenon DEF Owns

\* Every step keeps the right to write single.
LEMMA SingleWriterStep == IInv /\ [Next]_vars => SingleWriter'
<1> SUFFICES ASSUME IInv, [Next]_vars PROVE SingleWriter'
  BY Zenon
<1>0. SingleWriter /\ TypeOK
  BY Zenon DEF IInv
<1>1. /\ \A r, q \in Reqs : Owns(r)' /\ Owns(q)' => r = q
      /\ head' # NULL <=> \E r \in Reqs : Owns(r)'
  <2>1. CASE \E r \in Reqs : Exchange(r)
    <3>1. PICK r \in Reqs : Exchange(r)
      BY <2>1, Zenon
    <3>2. head' = r /\ r # NULL
      BY <3>1, WriteQueueAssumption, Zenon DEF Exchange
    <3> QED
      BY <1>0, <3>1, <3>2, ExchangeOwns, Zenon DEF SingleWriter
  <2>2. CASE \E r \in Reqs : CasNoMore(r)
    <3>1. PICK r \in Reqs : CasNoMore(r)
      BY <2>2, Zenon
    <3>2. head' = NULL
      BY <3>1, Zenon DEF CasNoMore
    <3> QED
      BY <3>1, <3>2, CasOwns, Zenon
  <2>3. CASE \A r \in Reqs : ~Exchange(r) /\ ~CasNoMore(r)
    <3>1. \A q \in Reqs : Owns(q)' <=> Owns(q)
      BY <2>3, OwnsKept, Zenon
    <3>2. head' = head
      <4>1. CASE \E r \in Reqs : ListStepOf(r)
        BY <2>3, <4>1, ZenonT(30) DEF ListStepOf, StartWrite, LinkPrev, WonRight, StartKeepWrite, BeginWrite, CutPart, PostSend,
                          PostSendFails, AfterWrite, CasUnwritten, CasNewRequests, ReverseList, WalkFailed
      <4> QED
        BY <4>1, QuietSteps, Zenon DEF Quiet
    <3> QED
      BY <1>0, <3>1, <3>2, Zenon DEF SingleWriter
  <2> QED
    BY <2>1, <2>2, <2>3, Zenon
<1>2. /\ pending' # NULL => wpc'[pending'] = "pending"
      /\ \A q \in Reqs : wpc'[q] = "pending" => pending' = q
  BY PendingStep, Zenon
<1> QED
  BY <1>1, <1>2, Zenon DEF SingleWriter

-----------------------------------------------------------------------------
(* The collected list and its tail *)

\* One step of the scan: it moves to the predecessor, or it has reached the tail
\* and the collected list is continued up to the node it started from.
LEMMA ScanMoves ==
    ASSUME TypeOK, ControlInv, TailInv, OrderInv, NEW k \in 0..Len(order), QueueInv(k), LinkInv(k), ScanInv(k),
           NEW r \in Reqs, ReverseList(r)
    PROVE  \E m, n \in 1..Len(order) :
              /\ k + Len(mine[r]) < m /\ m <= n
              /\ \A q \in Reqs : q # r => UNCHANGED <<mine[q], tail[q], wpc[q], mode[q], scan[q]>>
              /\ \A j \in m..n : pc[order[j]] # "link"
              /\ \/ /\ k + Len(mine[r]) < m - 1
                    /\ UNCHANGED <<mine, tail, wpc, mode>>
                    /\ scan'[r].new = order[n] /\ scan'[r].p = order[m - 1]
                    /\ Len(scan'[r].rev) = n - (m - 1)
                    /\ \A i \in 1..n - (m - 1) : scan'[r].rev[i] = order[(m - 1) + i]
                 \/ /\ k + Len(mine[r]) = m - 1
                    /\ Len(mine'[r]) = n - k
                    /\ \A i \in 1..n - k : mine'[r][i] = order[k + i]
                    /\ tail'[r] = order[n] /\ wpc'[r] = AfterIncomplete(r) /\ mode'[r] = NextMode(r)
<1>1. PICK m, n \in 1..Len(order) :
              /\ k + Len(mine[r]) < m /\ m <= n /\ m - 1 \in 1..Len(order)
              /\ scan[r].new = order[n] /\ scan[r].p = order[m]
              /\ Len(scan[r].rev) = n - m
              /\ \A i \in 1..n - m : scan[r].rev[i] = order[m + i]
              /\ \A j \in m + 1..n : pc[order[j]] # "link"
              /\ \/ pc[order[m]] = "link" /\ next[order[m]] = UNCONNECTED
                 \/ pc[order[m]] # "link" /\ next[order[m]] = order[m - 1]
  BY ScanNodes, Zenon DEF ReverseList
<1>t. /\ mine \in [Reqs -> Seq(Reqs)] /\ tail \in [Reqs -> Reqs \union {NULL}] /\ wpc \in [Reqs -> WriterPCs]
      /\ mode \in [Reqs -> {"first", "keep", "drain"}]
      /\ scan \in [Reqs -> [new : Reqs \union {NULL}, p : Ptr, rev : Seq(Reqs)]]
  BY Updated, Zenon
<1>2. Len(order) \in Nat /\ \A i \in 1..Len(order) : order[i] \in Reqs
  BY OrderNodes, Zenon
<1>3. wpc[r] = "reverse" /\ Owns(r) /\ Len(mine[r]) \in Nat /\ Len(mine[r]) > 0 /\ mine[r] \in Seq(Reqs)
  BY ListNodes, Zenon DEF ReverseList, Owns
<1>4. /\ k + Len(mine[r]) \in 1..Len(order)
      /\ tail[r] = order[k + Len(mine[r])]
  <2>1. tail[r] = mine[r][Len(mine[r])]
    BY <1>3, Zenon DEF TailInv, LastOf
  <2>2. Len(mine[r]) \in 1..Len(mine[r]) /\ k + Len(mine[r]) <= Len(order)
    BY <1>3 DEF QueueInv
  <2>3. mine[r][Len(mine[r])] = order[k + Len(mine[r])]
    BY <1>3, <2>2, Zenon DEF QueueInv
  <2> QED
    BY <1>2, <1>3, <2>1, <2>2, <2>3, SMTT(30)
<1>5. next[order[m]] = order[m - 1] /\ pc[order[m]] # "link"
  BY <1>1, Zenon DEF ReverseList
<1>k. ASSUME NEW j \in m..n PROVE pc[order[j]] # "link"
  <2>1. j = m \/ j \in m + 1..n
    BY <1>2
  <2> QED
    BY <1>1, <1>5, <2>1, Zenon
<1>i. /\ k \in Nat /\ m \in Nat /\ n \in Nat /\ Len(mine[r]) \in Nat
      /\ k + Len(mine[r]) < m /\ m <= n
  BY <1>1, <1>2, <1>3
<1>l. PICK l \in Nat : l = Len(mine[r])
  BY <1>3, Zenon
<1>j. k \in Nat /\ m \in Nat /\ n \in Nat /\ k + l < m /\ m <= n
  BY <1>i, <1>l, Zenon
<1>6. next[order[m]] = tail[r] <=> m - 1 = k + Len(mine[r])
  BY <1>1, <1>4, <1>5 DEF OrderInv
<1> DEFINE rev == <<scan[r].p>> \o scan[r].rev
<1>7. /\ rev \in Seq(Reqs) /\ Len(rev) = (n - m) + 1 /\ rev[1] = order[m]
      /\ \A i \in 1..n - m : rev[i + 1] = order[m + i]
  <2> DEFINE q == scan[r].p
             met == scan[r].rev
  <2>1. /\ q \in Reqs /\ q = order[m] /\ met \in Seq(Reqs) /\ Len(met) = n - m
        /\ \A i \in 1..n - m : met[i] = order[m + i]
    <3>1. scan[r] \in [new : Reqs \union {NULL}, p : Ptr, rev : Seq(Reqs)]
      BY <1>t, Zenon
    <3> QED
      BY <1>1, <1>2, <3>1, Zenon
  <2> HIDE DEF q, met
  <2>2. /\ <<q>> \o met \in Seq(Reqs) /\ Len(<<q>> \o met) = Len(met) + 1 /\ (<<q>> \o met)[1] = q
        /\ \A i \in 1..Len(met) : (<<q>> \o met)[i + 1] = met[i]
    BY <2>1, AddFirst, Zenon
  <2> QED
    BY <2>1, <2>2, Zenon DEF q, met
<1>8. mine' = IF next[order[m]] = tail[r] THEN [mine EXCEPT ![r] = mine[r] \o rev] ELSE mine
  BY <1>1, Zenon DEF ReverseList
<1>9. tail' = IF next[order[m]] = tail[r] THEN [tail EXCEPT ![r] = scan[r].new] ELSE tail
  BY <1>1, Zenon DEF ReverseList
<1>10. /\ wpc' = IF next[order[m]] = tail[r] THEN [wpc EXCEPT ![r] = AfterIncomplete(r)] ELSE wpc
       /\ mode' = IF next[order[m]] = tail[r] THEN [mode EXCEPT ![r] = NextMode(r)] ELSE mode
  BY <1>1, Zenon DEF ReverseList
<1>11. scan' = [scan EXCEPT ![r] = IF next[order[m]] = tail[r] THEN NoScan
                                     ELSE [scan[r] EXCEPT !.p = next[order[m]], !.rev = rev]]
  BY <1>1, Zenon DEF ReverseList
<1> HIDE DEF rev
<1>12. \A i \in 1..(n - m) + 1 : rev[i] = order[(m - 1) + i]
  <2> SUFFICES ASSUME NEW i \in 1..(n - m) + 1 PROVE rev[i] = order[(m - 1) + i]
    BY Zenon
  <2>1. CASE i = 1
    <3>1. (m - 1) + 1 = m
      BY <1>2
    <3> QED
      BY <1>7, <2>1, <3>1, Zenon
  <2>2. CASE i > 1
    <3> DEFINE j == i - 1
    <3>1. j \in 1..n - m /\ j + 1 = i /\ m + j = (m - 1) + i
      BY <1>2, <2>2
    <3> HIDE DEF j
    <3>2. rev[j + 1] = order[m + j]
      BY <1>7, <3>1, Zenon
    <3> QED
      BY <3>1, <3>2, Zenon
  <2> QED
    BY <1>2, <2>1, <2>2
<1>13. \A q \in Reqs : q # r => UNCHANGED <<mine[q], tail[q], wpc[q], mode[q], scan[q]>>
  BY <1>t, <1>8, <1>9, <1>10, <1>11, Zenon
<1>14. CASE m - 1 # k + Len(mine[r])
  <2>1. k + Len(mine[r]) < m - 1
    BY <1>i, <1>14, SMTT(30)
  <2>2. UNCHANGED <<mine, tail, wpc, mode>>
    BY <1>6, <1>8, <1>9, <1>10, <1>14, Zenon
  <2>3. scan'[r] = [scan[r] EXCEPT !.p = next[order[m]], !.rev = rev]
    BY <1>t, <1>6, <1>11, <1>14, Zenon
  <2>4. scan[r] \in [new : Reqs \union {NULL}, p : Ptr, rev : Seq(Reqs)]
    BY <1>t, Zenon
  <2>5. scan'[r].new = order[n] /\ scan'[r].p = order[m - 1] /\ scan'[r].rev = rev
    BY <1>1, <1>5, <2>3, <2>4, Zenon
  <2>6. (n - m) + 1 = n - (m - 1)
    BY <1>2
  <2>7. Len(scan'[r].rev) = n - (m - 1) /\ \A i \in 1..n - (m - 1) : scan'[r].rev[i] = order[(m - 1) + i]
    BY <1>7, <1>12, <2>5, <2>6, Zenon
  <2> QED
    BY <1>1, <1>k, <1>13, <2>1, <2>2, <2>5, <2>7, Zenon
<1>15. CASE m - 1 = k + Len(mine[r])
  <2>1. mine'[r] = mine[r] \o rev /\ tail'[r] = order[n] /\ wpc'[r] = AfterIncomplete(r) /\ mode'[r] = NextMode(r)
    BY <1>t, <1>1, <1>6, <1>8, <1>9, <1>10, <1>15, Zenon
  <2>2. /\ Len(mine[r] \o rev) = Len(mine[r]) + Len(rev)
        /\ \A i \in 1..Len(mine[r]) : (mine[r] \o rev)[i] = mine[r][i]
        /\ \A i \in 1..Len(rev) : (mine[r] \o rev)[Len(mine[r]) + i] = rev[i]
    <3> DEFINE old == mine[r]
    <3>1. old \in Seq(Reqs) /\ rev \in Seq(Reqs)
      BY <1>3, <1>7, Zenon
    <3> HIDE DEF old
    <3>2. /\ Len(old \o rev) = Len(old) + Len(rev)
          /\ \A i \in 1..Len(old) : (old \o rev)[i] = old[i]
          /\ \A i \in 1..Len(rev) : (old \o rev)[Len(old) + i] = rev[i]
      BY <3>1, ConcatParts
    <3> QED
      BY <3>2, Zenon DEF old
  <2>3. Len(mine'[r]) = n - k
    <3>1. Len(mine'[r]) = l + ((n - m) + 1)
      BY <1>l, <1>7, <2>1, <2>2, Zenon
    <3>2. m - 1 = k + l
      BY <1>l, <1>15, Zenon
    <3>3. l + ((n - m) + 1) = n - k
      BY <1>j, <3>2
    <3> QED
      BY <3>1, <3>3, Zenon
  <2>4. ASSUME NEW i \in 1..n - k PROVE mine'[r][i] = order[k + i]
    <3>1. CASE i <= Len(mine[r])
      <4>1. i \in 1..Len(mine[r])
        BY <1>2, <1>3, <3>1
      <4> QED
        BY <1>3, <2>1, <2>2, <4>1, Zenon DEF QueueInv
    <3>2. CASE i > Len(mine[r])
      <4> DEFINE j == i - Len(mine[r])
      <4>1. j \in 1..(n - m) + 1 /\ Len(mine[r]) + j = i /\ (m - 1) + j = k + i
        <5>1. m - 1 = k + l /\ j = i - l /\ i > l
          BY <1>l, <1>15, <3>2, Zenon
        <5> HIDE DEF j
        <5>2. j \in 1..(n - m) + 1 /\ l + j = i /\ (m - 1) + j = k + i
          BY <1>j, <5>1
        <5> QED
          BY <1>l, <5>2, Zenon
      <4> HIDE DEF j
      <4>2. (mine[r] \o rev)[Len(mine[r]) + j] = rev[j] /\ rev[j] = order[(m - 1) + j]
        BY <1>7, <1>12, <2>2, <4>1, Zenon
      <4> QED
        BY <2>1, <4>1, <4>2, Zenon
    <3> QED
      BY <1>2, <1>3, <3>1, <3>2
  <2> QED
    BY <1>1, <1>k, <1>13, <1>15, <2>1, <2>3, <2>4, Zenon
<1> QED
  BY <1>14, <1>15, Zenon

\* Every step keeps the cached tail right.
LEMMA TailStep == IInv /\ [Next]_vars => TailInv'
<1> SUFFICES ASSUME IInv, [Next]_vars PROVE TailInv'
  BY Zenon
<1> USE DEF writerVars, connVars, failVars, Goto, Writer
<1> DEFINE T(q) == /\ tail[q] # NULL => wpc[q] \notin {"none", "done"} /\ tail[q] = LastOf(mine[q])
                   /\ wpc[q] = "reverse" => tail[q] # NULL
<1>0. TypeOK /\ ControlInv /\ TailInv /\ OrderInv
  BY Zenon DEF IInv
<1>t. /\ wpc \in [Reqs -> WriterPCs] /\ mine \in [Reqs -> Seq(Reqs)] /\ tail \in [Reqs -> Reqs \union {NULL}]
  BY <1>0, Zenon DEF TypeOK
<1>c. \A q \in Reqs : T(q)
  BY <1>0, Zenon DEF TailInv
<1>n. NULL \notin Reqs
  BY WriteQueueAssumption, Zenon
<1>1. CASE \A r \in Reqs : ~ListStepOf(r)
  <2>1. Quiet
    BY <1>1, QuietSteps, Zenon
  <2>2. \A q \in Reqs : T(q)'
    BY <1>c, <2>1, Zenon DEF Quiet
  <2> QED
    BY <2>2, Zenon DEF TailInv
<1>2. ASSUME NEW r \in Reqs, StartWrite(r) \/ Exchange(r) \/ LinkPrev(r) \/ CutPart(r) \/ PostSend(r) PROVE TailInv'
  <2>1. UNCHANGED <<tail, mine, wpc>>
    BY <1>2, Zenon DEF StartWrite, Exchange, LinkPrev, CutPart, PostSend
  <2> QED
    BY <1>c, <2>1, Zenon DEF TailInv
<1>3. ASSUME NEW r \in Reqs, PostSendFails(r), NEW q \in Reqs PROVE T(q)'
  BY <1>t, <1>c, <1>3, Zenon DEF PostSendFails
<1>4. ASSUME NEW r \in Reqs, WonRight(r), NEW q \in Reqs PROVE T(q)'
  <2>1. tail[r] = NULL
    BY <1>0, <1>4, Zenon DEF ControlInv, Control, WonRight
  <2>2. /\ tail' = tail /\ (q # r => mine'[q] = mine[q] /\ wpc'[q] = wpc[q])
        /\ wpc'[r] # "reverse"
    BY <1>t, <1>4, Zenon DEF WonRight
  <2> QED
    BY <1>c, <2>1, <2>2, Zenon
<1>5. ASSUME NEW r \in Reqs, StartKeepWrite(r), NEW q \in Reqs PROVE T(q)'
  <2>1. /\ q # r => UNCHANGED <<wpc[q], tail[q]>>
        /\ wpc'[r] # "reverse" /\ tail'[r] = NULL /\ mine' = mine
    BY <1>t, <1>5, Zenon DEF StartKeepWrite
  <2> QED
    BY <1>c, <2>1, Zenon
<1>6. ASSUME NEW r \in Reqs, BeginWrite(r), NEW q \in Reqs PROVE T(q)'
  <2>1. Len(mine[r]) > 1 => LastOf(Tail(mine[r])) = LastOf(mine[r])
    BY <1>t, DropFirst, Zenon
  <2>2. \/ mine' = mine \/ mine' = [mine EXCEPT ![r] = mine[r]]
        \/ Len(mine[r]) > 1 /\ mine' = [mine EXCEPT ![r] = Tail(mine[r])]
    BY <1>6, Zenon DEF BeginWrite
  <2>3. mine'[q] = mine[q] \/ (q = r /\ Len(mine[r]) > 1 /\ mine'[q] = Tail(mine[r]))
    BY <1>t, <2>2, Zenon
  <2>4. LastOf(mine'[q]) = LastOf(mine[q])
    BY <2>1, <2>3, Zenon
  <2>5. /\ q # r => wpc'[q] = wpc[q]
        /\ wpc'[r] \in {"fail", "post", "cutDone"} /\ tail' = tail
    BY <1>t, <1>6, Zenon DEF BeginWrite
  <2> QED
    BY <1>c, <2>4, <2>5, Zenon
<1>7. ASSUME NEW r \in Reqs, AfterWrite(r), NEW q \in Reqs PROVE T(q)'
  <2> DEFINE rest == SubSeq(mine[r], WrittenPrefix(r) + 1, Len(mine[r]))
  <2>1. LastOf(rest) = LastOf(mine[r])
    <3>1. WrittenPrefix(r) \in 0..Len(mine[r]) - 1
      BY <1>0, <1>7, WrittenPrefixIs, Zenon DEF AfterWrite
    <3> QED
      BY <1>t, <3>1, DropNodes, Zenon
  <2>2. \/ /\ mine' = mine /\ tail' = tail
        \/ /\ mine' = mine /\ mode[r] = "first" /\ tail' = [tail EXCEPT ![r] = First(r)]
        \/ /\ mine' = [mine EXCEPT ![r] = rest] /\ tail' = tail
    BY <1>7, Zenon DEF AfterWrite
  <2> HIDE DEF rest
  <2>3. LastOf(mine'[q]) = LastOf(mine[q])
    BY <1>t, <2>1, <2>2, Zenon
  <2>4. tail'[q] = tail[q] \/ (q = r /\ mode[r] = "first" /\ tail'[q] = First(r))
    BY <1>t, <2>2, Zenon
  <2>5. mode[r] = "first" => First(r) = LastOf(mine[r])
    <3>1. mode[r] = "first" => mine[r] = <<r>>
      BY <1>0, <1>7, Zenon DEF AfterWrite, ControlInv, Control
    <3> QED
      BY <3>1, OneNode, Zenon DEF First
  <2>6. /\ q # r => wpc'[q] = wpc[q]
        /\ wpc'[r] \in {"fail", "complete", "wait"}
    BY <1>t, <1>7, Zenon DEF AfterWrite
  <2> QED
    BY <1>c, <2>3, <2>4, <2>5, <2>6, Zenon
<1>8. ASSUME NEW r \in Reqs, CasNoMore(r), NEW q \in Reqs PROVE T(q)'
  <2>1. /\ q # r => UNCHANGED <<wpc[q], tail[q], mine[q]>>
        /\ wpc'[r] = "done" /\ tail'[r] = NULL
    BY <1>t, <1>8, Zenon DEF CasNoMore
  <2> QED
    BY <1>c, <2>1, Zenon
<1>9. ASSUME NEW r \in Reqs, CasUnwritten(r) \/ CasNewRequests(r), NEW q \in Reqs PROVE T(q)'
  <2>1. OldHead(r) = LastOf(mine[r]) /\ OldHead(r) # NULL
    <3>1. wpc[r] = "complete"
      BY <1>9, Zenon DEF CasUnwritten, CasNewRequests
    <3>2. OldHead(r) \in Reqs
      BY <1>0, <3>1, ListNodes, Zenon
    <3> QED
      BY <1>c, <1>n, <3>2, Zenon DEF OldHead
  <2>2. /\ mine' = mine /\ tail' = [tail EXCEPT ![r] = OldHead(r)]
        /\ wpc' = [wpc EXCEPT ![r] = AfterIncomplete(r)] \/ wpc' = [wpc EXCEPT ![r] = "reverse"]
    BY <1>9, Zenon DEF CasUnwritten, CasNewRequests
  <2>3. AfterIncomplete(r) \in {"start", "begin", "walk"}
    BY <1>0, Continues, Zenon
  <2>4. /\ q # r => UNCHANGED <<wpc[q], tail[q]>>
        /\ tail'[r] = OldHead(r) /\ wpc'[r] \notin {"none", "done"}
    BY <1>t, <2>2, <2>3, Zenon
  <2> QED
    BY <1>c, <2>1, <2>2, <2>4, Zenon
<1>10. ASSUME NEW r \in Reqs, ReverseList(r), NEW q \in Reqs PROVE T(q)'
  <2>1. PICK k \in 0..Len(order) : QueueInv(k) /\ LinkInv(k) /\ ScanInv(k)
    BY Zenon DEF IInv, ListInv
  <2>2. PICK m, n \in 1..Len(order) :
              /\ k + Len(mine[r]) < m /\ m <= n
              /\ \A x \in Reqs : x # r => UNCHANGED <<mine[x], tail[x], wpc[x]>>
              /\ \/ UNCHANGED <<mine, tail, wpc>>
                 \/ /\ Len(mine'[r]) = n - k
                    /\ \A i \in 1..n - k : mine'[r][i] = order[k + i]
                    /\ tail'[r] = order[n] /\ wpc'[r] = AfterIncomplete(r)
    BY <1>0, <1>10, <2>1, ScanMoves
  <2>3. CASE UNCHANGED <<mine, tail, wpc>>
    BY <1>c, <2>3, Zenon
  <2>4. CASE q # r
    BY <1>c, <2>2, <2>4, Zenon
  <2>5. CASE /\ q = r /\ Len(mine'[r]) = n - k
             /\ \A i \in 1..n - k : mine'[r][i] = order[k + i]
             /\ tail'[r] = order[n] /\ wpc'[r] = AfterIncomplete(r)
    <3>1. Len(order) \in Nat /\ Len(mine[r]) \in Nat
      BY <1>0, <1>t, OrderNodes, ReqsList, Zenon
    <3>2. n - k \in 1..n - k /\ k + (n - k) = n
      <4>1. PICK l \in Nat : l = Len(mine[r])
        BY <3>1, Zenon
      <4>2. k \in Nat /\ m \in Nat /\ n \in Nat /\ k + l < m /\ m <= n
        BY <2>2, <3>1, <4>1
      <4> QED
        BY <4>2
    <3>3. mine'[r][n - k] = order[n]
      BY <2>5, <3>2, Zenon
    <3>4. LastOf(mine'[r]) = tail'[r]
      BY <2>5, <3>3, Zenon DEF LastOf
    <3>5. AfterIncomplete(r) \in {"start", "begin", "walk"}
      BY <1>0, Continues, Zenon
    <3> QED
      BY <2>5, <3>4, <3>5, Zenon
  <2> QED
    BY <2>2, <2>3, <2>4, <2>5, Zenon
<1>11. ASSUME NEW r \in Reqs, WalkFailed(r), NEW q \in Reqs PROVE T(q)'
  <2>1. LastOf(mine[r]) \in Reqs
    BY <1>0, <1>11, ListNodes, Zenon DEF WalkFailed
  <2>2. /\ q # r => UNCHANGED <<wpc[q], tail[q], mine[q]>>
        /\ wpc'[r] = "complete" /\ tail'[r] = LastOf(mine[r]) /\ mine'[r] = <<LastOf(mine[r])>>
    BY <1>t, <1>11, Zenon DEF WalkFailed
  <2>3. LastOf(mine'[r]) = tail'[r]
    BY <2>1, <2>2, OneNode, Zenon
  <2> QED
    BY <1>c, <2>2, <2>3, Zenon
<1> QED
  BY <1>1, <1>2, <1>3, <1>4, <1>5, <1>6, <1>7, <1>8, <1>9, <1>10, <1>11, Zenon DEF ListStepOf, TailInv

-----------------------------------------------------------------------------
(* The order of the exchanges *)

\* A request that is published is the last of the order.
LEMMA Published ==
    ASSUME TypeOK, ControlInv, NEW r \in Reqs, Exchange(r)
    PROVE  /\ Len(order) \in Nat /\ Len(order') = Len(order) + 1
           /\ \A i \in 1..Len(order) : order'[i] = order[i] /\ order[i] \in Reqs
           /\ order'[Len(order) + 1] = r
           /\ mem[r] = "unused" /\ wpc[r] = "none" /\ next[r] = UNCONNECTED
           /\ mem'[r] = "queued" /\ prev'[r] = head /\ pc'[r] = IF head = NULL THEN "won" ELSE "link"
           /\ \A q \in Reqs : q # r => UNCHANGED <<mem[q], prev[q], pc[q]>>
           /\ head' = r /\ UNCHANGED <<next, left, writerVars, connVars, failVars, wire>>
<1>1. order \in Seq(Reqs) /\ order' = Append(order, r)
  BY Zenon DEF TypeOK, Exchange
<1>2. Len(order) \in Nat /\ \A i \in 1..Len(order) : order[i] \in Reqs
  BY OrderNodes, Zenon
<1>3. /\ Len(order') = Len(order) + 1
      /\ \A i \in 1..Len(order) : order'[i] = order[i]
      /\ order'[Len(order) + 1] = r
  BY <1>1, SeqAppend
<1>4. mem[r] = "unused" /\ wpc[r] = "none" /\ next[r] = UNCONNECTED
  BY Zenon DEF ControlInv, Control, Exchange
<1>5. /\ mem'[r] = "queued" /\ prev'[r] = head /\ pc'[r] = IF head = NULL THEN "won" ELSE "link"
      /\ \A q \in Reqs : q # r => UNCHANGED <<mem[q], prev[q], pc[q]>>
  BY Updated, Zenon DEF Exchange, Goto
<1> QED
  BY <1>2, <1>3, <1>4, <1>5, Zenon DEF Exchange

\* Every step keeps the order.
LEMMA OrderStep == IInv /\ [Next]_vars => OrderInv'
<1> SUFFICES ASSUME IInv, [Next]_vars PROVE OrderInv'
  BY Zenon
<1>0. TypeOK /\ ControlInv /\ OrderInv
  BY Zenon DEF IInv
<1>1. ASSUME NEW r \in Reqs, Exchange(r) PROVE OrderInv'
  <2>1. /\ Len(order) \in Nat /\ Len(order') = Len(order) + 1
        /\ \A i \in 1..Len(order) : order'[i] = order[i]
        /\ order'[Len(order) + 1] = r
        /\ mem[r] = "unused" /\ mem'[r] = "queued"
        /\ \A q \in Reqs : q # r => mem'[q] = mem[q]
    BY <1>0, <1>1, Published, Zenon
  <2>2. \A i \in 1..Len(order) : order[i] # r
    BY <1>0, <2>1, Zenon DEF OrderInv
  <2>3. \A i \in 1..Len(order') : i \in 1..Len(order) \/ i = Len(order) + 1
    BY <2>1
  <2>4. \A i \in 1..Len(order) : i \in 1..Len(order')
    BY <2>1
  <2>5. Len(order) + 1 \in 1..Len(order')
    BY <2>1
  <2>6. \A i, j \in 1..Len(order') : order'[i] = order'[j] => i = j
    BY <1>0, <2>1, <2>2, <2>3, SMTT(30) DEF OrderInv
  <2>7. ASSUME NEW q \in Reqs PROVE mem'[q] # "unused" <=> \E i \in 1..Len(order') : order'[i] = q
    <3>1. CASE q = r
      BY <2>1, <2>5, <3>1, Zenon
    <3>2. CASE q # r
      <4>1. mem'[q] # "unused" <=> \E i \in 1..Len(order) : order[i] = q
        BY <1>0, <2>1, <3>2, Zenon DEF OrderInv
      <4> QED
        BY <2>1, <2>3, <2>4, <3>2, <4>1, Zenon
    <3> QED
      BY <3>1, <3>2, Zenon
  <2> QED
    BY <2>6, <2>7, Zenon DEF OrderInv
<1>2. ASSUME order' = order, \A q \in Reqs : mem'[q] = "unused" <=> mem[q] = "unused" PROVE OrderInv'
  BY <1>0, <1>2, Zenon DEF OrderInv
<1>3. CASE \A r \in Reqs : ~ListStepOf(r)
  BY <1>2, <1>3, QuietSteps, Zenon DEF Quiet
<1>4. ASSUME NEW r \in Reqs, BeginWrite(r) \/ AfterWrite(r) \/ CasNoMore(r) \/ WalkFailed(r) PROVE OrderInv'
  <2>1. order' = order
    BY <1>4, Zenon DEF BeginWrite, AfterWrite, CasNoMore, WalkFailed
  <2> QED
    BY <1>2, <1>4, <2>1, MemChanges, Zenon
<1>5. ASSUME NEW r \in Reqs, StartWrite(r) \/ LinkPrev(r) \/ WonRight(r) \/ StartKeepWrite(r) \/ CutPart(r) \/ PostSend(r)
             \/ PostSendFails(r) \/ CasUnwritten(r) \/ CasNewRequests(r) \/ ReverseList(r) PROVE OrderInv'
  <2>1. UNCHANGED <<order, mem>>
    BY <1>5, Zenon DEF StartWrite, LinkPrev, WonRight, StartKeepWrite, CutPart, PostSend, PostSendFails, CasUnwritten,
                CasNewRequests, ReverseList
  <2> QED
    BY <1>2, <2>1, Zenon
<1> QED
  BY <1>1, <1>3, <1>4, <1>5, Zenon DEF ListStepOf

-----------------------------------------------------------------------------
(* The work request being built *)

\* What is being built belongs to the owner, and to requests that are queued.
LEMMA Built ==
    ASSUME IInv, NEW r \in Reqs, NEW i \in 1..Len(wr[r])
    PROVE  /\ wpc[r] = "post" /\ Owns(r) /\ i \in 1..BlockParts
           /\ wr[r][i] \in Reqs /\ mem[wr[r][i]] = "queued"
<1>0. TypeOK /\ ControlInv /\ BuildInv
  BY Zenon DEF IInv
<1>1. Len(wr[r]) \in Nat /\ (wr[r] = <<>> <=> Len(wr[r]) = 0) /\ wr[r][i] \in Reqs
  BY <1>0, ReqsList, Zenon DEF TypeOK
<1>2. wr[r] # <<>>
  BY <1>1
<1>3. wpc[r] = "post" /\ Owns(r)
  BY <1>0, <1>2, Zenon DEF ControlInv, Control, Owns
<1>4. PICK j \in 1..Len(mine[r]) : mine[r][j] = wr[r][i]
  BY <1>0, Zenon DEF BuildInv
<1>5. mem[wr[r][i]] = "queued"
  BY <1>3, <1>4, InvSafeMemory, Zenon DEF SafeMemory
<1>6. i \in 1..BlockParts
  <2>1. Len(wr[r]) <= BlockParts /\ BlockParts \in Nat
    BY <1>0, WriteQueueAssumption, Zenon DEF BuildInv
  <2> QED
    BY <1>1, <2>1
<1> QED
  BY <1>1, <1>3, <1>5, <1>6, Zenon

\* When a writer posts, nobody else builds a work request.
LEMMA OthersBuildNothing ==
    ASSUME IInv, NEW r \in Reqs, Owns(r), NEW q \in Reqs, q # r
    PROVE  wr[q] = <<>> /\ Len(wr[q]) = 0
<1>1. ControlInv /\ SingleWriter
  BY Zenon DEF IInv
<1>2. ~Owns(q)
  BY <1>1, Zenon DEF SingleWriter
<1>3. wr[q] = <<>>
  BY <1>1, <1>2, Zenon DEF Owns, ControlInv, Control
<1> QED
  BY <1>3, SeqNone, Zenon

\* The part that is cut next.
LEMMA CutNode ==
    ASSUME IInv, NEW r \in Reqs, CutPart(r)
    PROVE  \E q \in Reqs : \E u \in 1..Len(mine[r]) :
              /\ q = mine[r][u] /\ left[q] \in 1..NParts /\ mem[q] = "queued"
              /\ \A j \in 1..Len(mine[r]) : left[mine[r][j]] > 0 => u <= j
              /\ left'[q] = left[q] - 1 /\ \A x \in Reqs : x # q => left'[x] = left[x]
              /\ wr'[r] \in Seq(Reqs) /\ Len(wr'[r]) = Len(wr[r]) + 1 /\ Len(wr[r]) \in Nat /\ Len(wr[r]) < BlockParts
              /\ \A i \in 1..Len(wr[r]) : wr'[r][i] = wr[r][i]
              /\ wr'[r][Len(wr[r]) + 1] = q
              /\ \A x \in Reqs : x # r => wr'[x] = wr[x]
<1>0. TypeOK /\ ControlInv
  BY Zenon DEF IInv
<1>t. wr \in [Reqs -> Seq(Reqs)] /\ left \in [Reqs -> 0..NParts]
  BY <1>0, Updated, Zenon
<1>1. wpc[r] = "post" /\ Uncut(r) # {} /\ Len(wr[r]) < BlockParts
  BY Zenon DEF CutPart
<1>2. PICK u \in 1..Len(mine[r]) : u = NextUncut(r)
  BY <1>0, <1>1, UncutNode, Zenon
<1>3. PICK q \in Reqs : q = mine[r][u]
  BY <1>0, <1>1, <1>2, UncutNode, Zenon
<1>4. /\ left[q] \in 1..NParts
      /\ \A j \in 1..Len(mine[r]) : left[mine[r][j]] > 0 => u <= j
  BY <1>0, <1>1, <1>2, <1>3, UncutNode, Zenon
<1>5. mem[q] = "queued"
  BY <1>1, <1>3, InvSafeMemory, Zenon DEF SafeMemory, Owns
<1>6. left' = [left EXCEPT ![q] = left[q] - 1] /\ wr' = [wr EXCEPT ![r] = Append(wr[r], q)]
  BY <1>2, <1>3, Zenon DEF CutPart
<1>7. left'[q] = left[q] - 1 /\ \A x \in Reqs : x # q => left'[x] = left[x]
  BY <1>t, <1>6, Zenon
<1>8. wr'[r] = Append(wr[r], q) /\ \A x \in Reqs : x # r => wr'[x] = wr[x]
  BY <1>t, <1>6, Zenon
<1>9. wr[r] \in Seq(Reqs) /\ Len(wr[r]) \in Nat
  BY <1>t, ReqsList, Zenon
<1>10. /\ Append(wr[r], q) \in Seq(Reqs) /\ Len(Append(wr[r], q)) = Len(wr[r]) + 1
       /\ \A i \in 1..Len(wr[r]) : Append(wr[r], q)[i] = wr[r][i]
       /\ Append(wr[r], q)[Len(wr[r]) + 1] = q
  BY <1>9, SeqAppend
<1>11. /\ wr'[r] \in Seq(Reqs) /\ Len(wr'[r]) = Len(wr[r]) + 1
       /\ \A i \in 1..Len(wr[r]) : wr'[r][i] = wr[r][i]
       /\ wr'[r][Len(wr[r]) + 1] = q
  BY <1>8, <1>10, Zenon
<1> QED
  BY <1>1, <1>3, <1>4, <1>5, <1>7, <1>8, <1>9, <1>11, Zenon

\* Every step keeps the work request within the list.
LEMMA BuildStep == IInv /\ [Next]_vars => BuildInv'
<1> SUFFICES ASSUME IInv, [Next]_vars PROVE BuildInv'
  BY Zenon
<1> USE DEF writerVars, connVars, failVars, Goto, Writer
<1> DEFINE B(q) == /\ Len(wr[q]) <= BlockParts
                   /\ \A i \in 1..Len(wr[q]) : \E j \in 1..Len(mine[q]) : wr[q][i] = mine[q][j]
<1>0. TypeOK /\ ControlInv /\ BuildInv
  BY Zenon DEF IInv
<1>t. wr \in [Reqs -> Seq(Reqs)] /\ mine \in [Reqs -> Seq(Reqs)]
  BY <1>0, Updated, Zenon
<1>b. \A q \in Reqs : B(q)
  BY <1>0, Zenon DEF BuildInv
<1>1. ASSUME NEW q \in Reqs, wr'[q] = <<>> PROVE B(q)'
  <2>1. Len(wr'[q]) = 0 /\ BlockParts \in Nat
    BY <1>1, SeqNone, WriteQueueAssumption, Zenon
  <2> QED
    BY <2>1
<1>2. ASSUME NEW q \in Reqs, wr'[q] = wr[q], mine'[q] = mine[q] PROVE B(q)'
  BY <1>b, <1>2
<1>u. (\A q \in Reqs : B(q)') => BuildInv'
  BY Zenon DEF BuildInv
<1> HIDE DEF B
<1>3. ASSUME wr' = wr, NEW r \in Reqs, wpc[r] # "post", \A q \in Reqs : q # r => mine'[q] = mine[q] PROVE BuildInv'
  <2>1. wr[r] = <<>>
    BY <1>0, <1>3, Zenon DEF ControlInv, Control
  <2>2. \A q \in Reqs : B(q)'
    BY <1>1, <1>2, <1>3, <2>1, Zenon
  <2> QED
    BY <1>u, <2>2, Zenon
<1>4. CASE UNCHANGED <<wr, mine>>
  BY <1>u, <1>2, <1>4, Zenon
<1>5. CASE \A r \in Reqs : ~ListStepOf(r)
  BY <1>4, <1>5, QuietSteps, Zenon DEF Quiet
<1>6. ASSUME NEW r \in Reqs, StartWrite(r) \/ Exchange(r) \/ LinkPrev(r) \/ StartKeepWrite(r) \/ CasUnwritten(r) \/ CasNewRequests(r)
      PROVE  BuildInv'
  BY <1>4, <1>6, Zenon DEF StartWrite, Exchange, LinkPrev, StartKeepWrite, CasUnwritten, CasNewRequests
<1>7. ASSUME NEW r \in Reqs, WonRight(r) \/ BeginWrite(r) \/ AfterWrite(r) \/ CasNoMore(r) \/ ReverseList(r) \/ WalkFailed(r)
      PROVE  BuildInv'
  <2>1. wr' = wr /\ wpc[r] # "post"
    BY <1>0, <1>7, Zenon DEF WonRight, BeginWrite, AfterWrite, CasNoMore, ReverseList, WalkFailed, ControlInv, Control
  <2>2. mine' = mine \/ \E s : mine' = [mine EXCEPT ![r] = s]
    BY <1>7, Zenon DEF WonRight, BeginWrite, AfterWrite, CasNoMore, ReverseList, WalkFailed
  <2>3. \A q \in Reqs : q # r => mine'[q] = mine[q]
    BY <1>t, <2>2, Zenon
  <2> QED
    BY <1>3, <2>1, <2>3, Zenon
<1>8. ASSUME NEW r \in Reqs, PostSend(r) \/ PostSendFails(r) PROVE BuildInv'
  <2>1. wr' = [wr EXCEPT ![r] = <<>>] /\ mine' = mine
    BY <1>8, Zenon DEF PostSend, PostSendFails
  <2>2. wr'[r] = <<>> /\ \A q \in Reqs : q # r => wr'[q] = wr[q]
    BY <1>t, <2>1, Zenon
  <2>3. \A q \in Reqs : B(q)'
    BY <1>1, <1>2, <2>1, <2>2, Zenon
  <2> QED
    BY <1>u, <2>3, Zenon
<1>9. ASSUME NEW r \in Reqs, CutPart(r) PROVE BuildInv'
  <2>1. PICK x \in Reqs : \E u \in 1..Len(mine[r]) :
              /\ x = mine[r][u]
              /\ Len(wr'[r]) = Len(wr[r]) + 1 /\ Len(wr[r]) \in Nat /\ Len(wr[r]) < BlockParts
              /\ \A i \in 1..Len(wr[r]) : wr'[r][i] = wr[r][i]
              /\ wr'[r][Len(wr[r]) + 1] = x
              /\ \A q \in Reqs : q # r => wr'[q] = wr[q]
    BY <1>9, CutNode, ZenonT(30)
  <2>2. mine' = mine
    BY <1>9, Zenon DEF CutPart
  <2>3. Len(wr'[r]) <= BlockParts
    BY <2>1, WriteQueueAssumption
  <2>4. ASSUME NEW i \in 1..Len(wr'[r]) PROVE \E j \in 1..Len(mine[r]) : wr'[r][i] = mine[r][j]
    <3>1. i \in 1..Len(wr[r]) \/ i = Len(wr[r]) + 1
      BY <2>1
    <3> QED
      BY <1>b, <2>1, <3>1, ZenonT(30) DEF B
  <2>5. B(r)'
    BY <2>2, <2>3, <2>4, Zenon DEF B
  <2>6. \A q \in Reqs : B(q)'
    BY <1>2, <2>1, <2>2, <2>5, Zenon
  <2> QED
    BY <1>u, <2>6, Zenon
<1> QED
  BY <1>5, <1>6, <1>7, <1>8, <1>9, Zenon DEF ListStepOf

\* Posting moves the parts of the work request behind what is on the wire.
LEMMA PostedWire ==
    ASSUME IInv, NEW r \in Reqs, PostSend(r) \/ PostSendFails(r)
    PROVE  /\ wpc[r] = "post" /\ Owns(r) /\ UNCHANGED <<order, mem, left, mine, mode, again, pc>>
           /\ Len(wire) \in Nat /\ Len(wr[r]) \in Nat /\ Len(wire') = Len(wire) + Len(wr[r])
           /\ \A i \in 1..Len(wire) : wire'[i] = wire[i]
           /\ \A i \in 1..Len(wr[r]) :
                 /\ wire'[Len(wire) + i].req = wr[r][i]
                 /\ wire'[Len(wire) + i].post = "failed" => PostSendFails(r) /\ ~again[r]
           /\ \A j \in 1..Len(wire') : j \in 1..Len(wire) \/ \E i \in 1..Len(wr[r]) : j = Len(wire) + i
           /\ \A x \in Reqs : wr'[x] = <<>> /\ Len(wr'[x]) = 0
           /\ \A x \in Reqs : x # r => wr[x] = <<>> /\ Len(wr[x]) = 0
<1>0. TypeOK
  BY Zenon DEF IInv
<1>1. wpc[r] = "post" /\ Owns(r) /\ UNCHANGED <<order, mem, left, mine, mode, again, pc>> /\ wr' = [wr EXCEPT ![r] = <<>>]
  BY Zenon DEF PostSend, PostSendFails, Owns
<1>2. PICK outcome \in {"sent", "failed", "failedEagain"} :
         wire' = wire \o Posted(r, outcome) /\ (outcome = "failed" => PostSendFails(r) /\ ~again[r])
  BY Zenon DEF PostSend, PostSendFails
<1>3. /\ Len(wire') = Len(wire) + Len(wr[r]) /\ Len(wire) \in Nat /\ Len(wr[r]) \in Nat
      /\ \A i \in 1..Len(wire) : wire'[i] = wire[i]
      /\ \A i \in 1..Len(wr[r]) : wire'[Len(wire) + i] = [req |-> wr[r][i], post |-> outcome]
  <2> DEFINE w == wire \o Posted(r, outcome)
  <2>1. /\ Len(w) = Len(wire) + Len(wr[r]) /\ Len(wire) \in Nat /\ Len(wr[r]) \in Nat
        /\ \A i \in 1..Len(wire) : w[i] = wire[i]
        /\ \A i \in 1..Len(wr[r]) : w[Len(wire) + i] = [req |-> wr[r][i], post |-> outcome]
    BY <1>0, PostedParts, Zenon
  <2>2. wire' = w
    BY <1>2, Zenon
  <2> HIDE DEF w
  <2> QED
    BY <2>1, <2>2, Zenon
<1>4. ASSUME NEW i \in 1..Len(wr[r])
      PROVE  /\ wire'[Len(wire) + i].req = wr[r][i]
             /\ wire'[Len(wire) + i].post = "failed" => PostSendFails(r) /\ ~again[r]
  <2>1. wire'[Len(wire) + i] = [req |-> wr[r][i], post |-> outcome]
    BY <1>3, Zenon
  <2>2. wire'[Len(wire) + i].req = wr[r][i] /\ wire'[Len(wire) + i].post = outcome
    BY <2>1
  <2> QED
    BY <1>2, <2>2, Zenon
<1>5. ASSUME NEW j \in 1..Len(wire') PROVE j \in 1..Len(wire) \/ \E i \in 1..Len(wr[r]) : j = Len(wire) + i
  <2>1. PICK a \in Nat : a = Len(wire)
    BY <1>3, Zenon
  <2>2. PICK b \in Nat : b = Len(wr[r])
    BY <1>3, Zenon
  <2>3. j \in 1..a + b
    BY <1>3, <2>1, <2>2, Zenon
  <2>4. j \in 1..a \/ (j - a \in 1..b /\ j = a + (j - a))
    BY <2>3
  <2> QED
    BY <2>1, <2>2, <2>4, Zenon
<1>6. \A x \in Reqs : x # r => wr[x] = <<>> /\ Len(wr[x]) = 0
  BY <1>1, OthersBuildNothing, Zenon
<1>7. \A x \in Reqs : wr'[x] = <<>>
  <2>1. wr \in [Reqs -> Seq(Reqs)]
    BY <1>0, Updated, Zenon
  <2> QED
    BY <1>1, <1>6, <2>1, Zenon
<1>8. \A x \in Reqs : Len(wr'[x]) = 0
  BY <1>7, SeqNone, Zenon
<1> QED
  BY <1>1, <1>3, <1>4, <1>5, <1>6, <1>7, <1>8, Zenon

\* The steps that neither publish, cut nor post leave the parts where they are,
\* and leave no request more than it had.
LEMMA PartsKept ==
    ASSUME IInv, [Next]_vars,
           \A r \in Reqs : ~Exchange(r) /\ ~CutPart(r) /\ ~PostSend(r) /\ ~PostSendFails(r)
    PROVE  /\ UNCHANGED <<order, wire, wr>>
           /\ \A q \in Reqs : /\ mem'[q] = mem[q] \/ (mem[q] = "queued" /\ mem'[q] \in {"ok", "failed"})
                              /\ left'[q] = left[q] \/ left'[q] = 0
<1> USE DEF writerVars, connVars, failVars, Goto, Writer
<1>0. TypeOK
  BY Zenon DEF IInv
<1>1. CASE \A r \in Reqs : ~ListStepOf(r)
  BY <1>1, QuietSteps, Zenon DEF Quiet
<1>2. ASSUME NEW r \in Reqs, StartWrite(r) \/ LinkPrev(r) \/ WonRight(r) \/ StartKeepWrite(r) \/ CasUnwritten(r)
                             \/ CasNewRequests(r) \/ ReverseList(r)
      PROVE  UNCHANGED <<order, wire, wr, mem, left>>
  BY <1>2, Zenon DEF StartWrite, LinkPrev, WonRight, StartKeepWrite, CasUnwritten, CasNewRequests, ReverseList
<1>3. ASSUME NEW r \in Reqs, BeginWrite(r) \/ AfterWrite(r) \/ CasNoMore(r) \/ WalkFailed(r)
      PROVE  /\ UNCHANGED <<order, wire, wr>>
             /\ \A q \in Reqs : /\ mem'[q] = mem[q] \/ (mem[q] = "queued" /\ mem'[q] \in {"ok", "failed"})
                                /\ left'[q] = left[q] \/ left'[q] = 0
  <2>1. UNCHANGED <<order, wire, wr>> /\ (left' = left \/ left' = [left EXCEPT ![LastOf(mine[r])] = 0])
    BY <1>3, Zenon DEF BeginWrite, AfterWrite, CasNoMore, WalkFailed
  <2>2. \A q \in Reqs : left'[q] = left[q] \/ left'[q] = 0
    BY <1>0, <2>1, Updated, Zenon
  <2> QED
    BY <1>3, <2>1, <2>2, MemChanges, Zenon
<1> QED
  BY <1>1, <1>2, <1>3, Zenon DEF ListStepOf

\* Every step keeps the parts on the wire those of accepted requests.
LEMMA WireStep == IInv /\ [Next]_vars => WireInv'
<1> SUFFICES ASSUME IInv, [Next]_vars PROVE WireInv'
  BY Zenon
<1>0. TypeOK /\ ControlInv /\ WireInv
  BY Zenon DEF IInv
<1>w. \A i \in 1..Len(wire) : wire[i].req \in Reqs /\ mem[wire[i].req] # "unused"
  <2>1. ASSUME NEW i \in 1..Len(wire) PROVE wire[i].req \in Reqs
    <3>1. wire[i] \in Part
      BY <1>0, SeqHas, Zenon DEF TypeOK, Part
    <3> QED
      BY <3>1, Zenon DEF Part
  <2> QED
    BY <1>0, <2>1, Zenon DEF WireInv
<1>1. CASE \A r \in Reqs : ~Exchange(r) /\ ~CutPart(r) /\ ~PostSend(r) /\ ~PostSendFails(r)
  BY <1>w, <1>1, PartsKept, Zenon DEF WireInv
<1>2. ASSUME NEW r \in Reqs, Exchange(r) PROVE WireInv'
  <2>1. mem[r] = "unused" /\ wire' = wire /\ \A q \in Reqs : q # r => mem'[q] = mem[q]
    BY <1>0, <1>2, Published, Zenon
  <2> QED
    BY <1>w, <2>1, Zenon DEF WireInv
<1>3. ASSUME NEW r \in Reqs, CutPart(r) PROVE WireInv'
  BY <1>w, <1>3, Zenon DEF CutPart, WireInv
<1>4. ASSUME NEW r \in Reqs, PostSend(r) \/ PostSendFails(r), NEW j \in 1..Len(wire') PROVE mem'[wire'[j].req] # "unused"
  <2>1. /\ mem' = mem /\ \A i \in 1..Len(wire) : wire'[i] = wire[i]
        /\ \A i \in 1..Len(wr[r]) : wire'[Len(wire) + i].req = wr[r][i]
        /\ j \in 1..Len(wire) \/ \E i \in 1..Len(wr[r]) : j = Len(wire) + i
    BY <1>4, PostedWire, Zenon
  <2>2. CASE j \in 1..Len(wire)
    BY <1>w, <2>1, <2>2, Zenon
  <2>3. ASSUME NEW i \in 1..Len(wr[r]), j = Len(wire) + i PROVE mem'[wire'[j].req] # "unused"
    <3>1. mem[wr[r][i]] = "queued"
      BY Built, Zenon
    <3> QED
      BY <2>1, <2>3, <3>1, Zenon
  <2> QED
    BY <2>1, <2>2, <2>3, Zenon
<1> QED
  BY <1>1, <1>2, <1>3, <1>4, Zenon DEF WireInv

\* Leaving the parts where they are keeps their order, when no request is queued
\* or has data left that did before.
LEMMA CutOrderKept ==
    ASSUME IInv, UNCHANGED <<order, wire, wr>>,
           \A q \in Reqs : (mem'[q] = "queued" => mem[q] = "queued") /\ (left'[q] > 0 => left[q] > 0)
    PROVE  CutOrderInv'
<1>1. CutOrderInv /\ \A b \in 1..Len(order) : order[b] \in Reqs
  BY ReqsList, Zenon DEF IInv, TypeOK
<1> SUFFICES ASSUME NEW a \in 1..Len(order'), NEW b \in 1..Len(order')
             PROVE  /\ \A i, j \in 1..Len(wire') :
                          wire'[i].req = order'[a] /\ wire'[j].req = order'[b] /\ i <= j => a <= b
                    /\ \A r \in Reqs : \A i, j \in 1..Len(wr'[r]) :
                          wr'[r][i] = order'[a] /\ wr'[r][j] = order'[b] /\ i <= j => a <= b
                    /\ \A i \in 1..Len(wire') : \A r \in Reqs : \A j \in 1..Len(wr'[r]) :
                          wire'[i].req = order'[a] /\ wr'[r][j] = order'[b] => a <= b
                    /\ mem'[order'[b]] = "queued" /\ left'[order'[b]] > 0 =>
                          /\ \A i \in 1..Len(wire') : wire'[i].req = order'[a] => a <= b
                          /\ \A r \in Reqs : \A i \in 1..Len(wr'[r]) : wr'[r][i] = order'[a] => a <= b
  BY Zenon DEF CutOrderInv, CutOrdered
<1>2. order' = order /\ wire' = wire /\ wr' = wr /\ a \in 1..Len(order) /\ b \in 1..Len(order)
  BY Zenon
<1>3. mem'[order[b]] = "queued" /\ left'[order[b]] > 0 => mem[order[b]] = "queued" /\ left[order[b]] > 0
  BY <1>1, <1>2, Zenon
<1>4. /\ \A i, j \in 1..Len(wire) :
            wire[i].req = order[a] /\ wire[j].req = order[b] /\ i <= j => a <= b
      /\ \A r \in Reqs : \A i, j \in 1..Len(wr[r]) :
            wr[r][i] = order[a] /\ wr[r][j] = order[b] /\ i <= j => a <= b
      /\ \A i \in 1..Len(wire) : \A r \in Reqs : \A j \in 1..Len(wr[r]) :
            wire[i].req = order[a] /\ wr[r][j] = order[b] => a <= b
      /\ mem[order[b]] = "queued" /\ left[order[b]] > 0 =>
            /\ \A i \in 1..Len(wire) : wire[i].req = order[a] => a <= b
            /\ \A r \in Reqs : \A i \in 1..Len(wr[r]) : wr[r][i] = order[a] => a <= b
  BY <1>1, <1>2, Zenon DEF CutOrderInv, CutOrdered
<1>5. /\ \A i, j \in 1..Len(wire') :
            wire'[i].req = order'[a] /\ wire'[j].req = order'[b] /\ i <= j => a <= b
      /\ \A r \in Reqs : \A i, j \in 1..Len(wr'[r]) :
            wr'[r][i] = order'[a] /\ wr'[r][j] = order'[b] /\ i <= j => a <= b
  BY <1>2, <1>4, Zenon
<1>6. \A i \in 1..Len(wire') : \A r \in Reqs : \A j \in 1..Len(wr'[r]) :
            wire'[i].req = order'[a] /\ wr'[r][j] = order'[b] => a <= b
  BY <1>2, <1>4
<1>7. mem'[order'[b]] = "queued" /\ left'[order'[b]] > 0 =>
            /\ \A i \in 1..Len(wire') : wire'[i].req = order'[a] => a <= b
            /\ \A r \in Reqs : \A i \in 1..Len(wr'[r]) : wr'[r][i] = order'[a] => a <= b
  BY <1>2, <1>3, <1>4, Zenon
<1> QED
  BY <1>5, <1>6, <1>7, Zenon

\* A request that is published now has no part yet.
LEMMA CutOrderPublished ==
    ASSUME IInv, NEW r \in Reqs, Exchange(r)
    PROVE  CutOrderInv'
<1>0. /\ CutOrderInv /\ WireInv /\ order \in Seq(Reqs)
      /\ \A b \in 1..Len(order) : order[b] \in Reqs
  BY ReqsList, Zenon DEF IInv, TypeOK
<1>1. PICK N \in Nat : N = Len(order)
  BY <1>0, ReqsList, Zenon
<1>2. /\ Len(order') = N + 1 /\ order'[N + 1] = r /\ \A j \in 1..N : order'[j] = order[j]
      /\ mem[r] = "unused" /\ \A q \in Reqs : q # r => mem'[q] = mem[q]
      /\ UNCHANGED <<left, wire, wr>>
  <2>1. /\ Len(order') = Len(order) + 1 /\ order'[Len(order) + 1] = r
        /\ \A j \in 1..Len(order) : order'[j] = order[j]
        /\ mem[r] = "unused" /\ \A q \in Reqs : q # r => mem'[q] = mem[q]
        /\ UNCHANGED <<left, wire, writerVars>>
    BY Published DEF IInv
  <2> QED
    BY <1>1, <2>1, Zenon DEF writerVars
<1>3. /\ \A i \in 1..Len(wire) : wire[i].req # r
      /\ \A x \in Reqs : \A i \in 1..Len(wr[x]) : wr[x][i] # r
  BY <1>0, <1>2, Built, SMTT(30) DEF WireInv
<1>4. \A b \in 1..N : order[b] \in Reqs /\ order[b] # r
  <2>1. ASSUME NEW b \in 1..N PROVE order[b] # r
    BY <1>1, <1>2, Zenon DEF IInv, OrderInv
  <2> QED
    BY <1>0, <1>1, <2>1, Zenon
<1>5. ASSUME NEW a \in 1..N + 1, NEW b \in 1..N + 1
      PROVE  /\ \A i, j \in 1..Len(wire) :
                   wire[i].req = order'[a] /\ wire[j].req = order'[b] /\ i <= j => a <= b
             /\ \A x \in Reqs : \A i, j \in 1..Len(wr[x]) :
                   wr[x][i] = order'[a] /\ wr[x][j] = order'[b] /\ i <= j => a <= b
             /\ \A i \in 1..Len(wire) : \A x \in Reqs : \A j \in 1..Len(wr[x]) :
                   wire[i].req = order'[a] /\ wr[x][j] = order'[b] => a <= b
             /\ mem'[order'[b]] = "queued" /\ left[order'[b]] > 0 =>
                   /\ \A i \in 1..Len(wire) : wire[i].req = order'[a] => a <= b
                   /\ \A x \in Reqs : \A i \in 1..Len(wr[x]) : wr[x][i] = order'[a] => a <= b
  <2>1. CASE a = N + 1
    BY <1>2, <1>3, <2>1, Zenon
  <2>2. CASE a \in 1..N /\ b = N + 1
    BY <2>2, SMTT(30)
  <2>3. CASE a \in 1..N /\ b \in 1..N
    <3>1. order'[a] = order[a] /\ order'[b] = order[b] /\ mem'[order[b]] = mem[order[b]]
      BY <1>2, <1>4, <2>3, Zenon
    <3> QED
      BY <1>0, <1>1, <2>3, <3>1, ZenonT(30) DEF CutOrderInv, CutOrdered
  <2> QED
    BY <2>1, <2>2, <2>3, SMTT(30)
<1> QED
  BY <1>2, <1>5 DEF CutOrderInv, CutOrdered

\* Posting a work request puts its parts behind all those on the wire.
LEMMA CutOrderPosted ==
    ASSUME IInv, NEW r \in Reqs, PostSend(r) \/ PostSendFails(r)
    PROVE  CutOrderInv'
<1>0. CutOrderInv
  BY Zenon DEF IInv
<1>1. PICK a \in Nat : a = Len(wire)
  BY PostedWire, Zenon
<1>2. PICK n \in Nat : n = Len(wr[r])
  BY PostedWire, Zenon
<1>3. /\ UNCHANGED <<order, mem, left>>
      /\ \A i \in 1..a : wire'[i] = wire[i]
      /\ \A i \in 1..n : wire'[a + i].req = wr[r][i]
      /\ \A j \in 1..Len(wire') : j \in 1..a \/ \E i \in 1..n : j = a + i
      /\ \A x \in Reqs : Len(wr'[x]) = 0
  BY <1>1, <1>2, PostedWire, Zenon
<1>p. \A c, b \in 1..Len(order) : \A u, v \in 1..n :
         wr[r][u] = order[c] /\ wr[r][v] = order[b] /\ u <= v => c <= b
  BY <1>0, <1>2, Zenon DEF CutOrderInv, CutOrdered
<1>q. \A c, b \in 1..Len(order) : mem[order[b]] = "queued" /\ left[order[b]] > 0 =>
         \A u \in 1..n : wr[r][u] = order[c] => c <= b
  BY <1>0, <1>2, Zenon DEF CutOrderInv, CutOrdered
<1>4. ASSUME NEW c \in 1..Len(order), NEW b \in 1..Len(order), NEW i \in 1..Len(wire'), NEW j \in 1..Len(wire'),
             wire'[i].req = order[c], wire'[j].req = order[b], i <= j
      PROVE  c <= b
  <2>1. CASE i \in 1..a /\ j \in 1..a
    BY <1>0, <1>1, <1>3, <1>4, <2>1, Zenon DEF CutOrderInv, CutOrdered
  <2>2. ASSUME NEW v \in 1..n, j = a + v, i \in 1..a PROVE c <= b
    <3>1. wire[i].req = order[c] /\ wr[r][v] = order[b]
      BY <1>3, <1>4, <2>2, Zenon
    <3> QED
      BY <1>0, <1>1, <1>2, <2>2, <3>1, Zenon DEF CutOrderInv, CutOrdered
  <2>3. ASSUME NEW u \in 1..n, NEW v \in 1..n, i = a + u, j = a + v PROVE c <= b
    <3>1. u <= v
      BY <1>4, <2>3
    <3> QED
      BY <1>3, <1>p, <1>4, <2>3, <3>1, Zenon
  <2>4. ~\E u \in 1..n : i = a + u /\ j \in 1..a
    BY <1>4
  <2> QED
    BY <1>3, <2>1, <2>2, <2>3, <2>4, Zenon
<1>5. ASSUME NEW c \in 1..Len(order), NEW b \in 1..Len(order), mem[order[b]] = "queued", left[order[b]] > 0,
             NEW i \in 1..Len(wire'), wire'[i].req = order[c]
      PROVE  c <= b
  <2>1. CASE i \in 1..a
    BY <1>0, <1>1, <1>3, <1>5, <2>1, Zenon DEF CutOrderInv, CutOrdered
  <2>2. ASSUME NEW u \in 1..n, i = a + u PROVE c <= b
    BY <1>3, <1>q, <1>5, <2>2, Zenon
  <2> QED
    BY <1>3, <2>1, <2>2, Zenon
<1>6. \A x \in Reqs : 1..Len(wr'[x]) = {}
  BY <1>3
<1> QED
  <2>1. ASSUME NEW c \in 1..Len(order), NEW b \in 1..Len(order)
        PROVE  /\ \A i, j \in 1..Len(wire') :
                     wire'[i].req = order[c] /\ wire'[j].req = order[b] /\ i <= j => c <= b
               /\ mem[order[b]] = "queued" /\ left[order[b]] > 0 =>
                     \A i \in 1..Len(wire') : wire'[i].req = order[c] => c <= b
    BY <1>4, <1>5, Zenon
  <2>2. CutOrdered(order, wire', wr', mem, left)
    BY <1>6, <2>1, ZenonT(30) DEF CutOrdered
  <2> QED
    BY <1>3, <2>2, Zenon DEF CutOrderInv

\* Places in a list that starts after the first k.
LEMMA Places ==
    /\ \A k, u, j \in Nat : u <= j => k + u <= k + j
    /\ \A k, u, L, b \in Nat : u <= L /\ ~(b <= k + L) => k + u <= b
  OBVIOUS

\* The next part is cut from the oldest request that has data left.
LEMMA CutOrderCut ==
    ASSUME IInv, NEW r \in Reqs, CutPart(r)
    PROVE  CutOrderInv'
<1>0. TypeOK /\ CutOrderInv /\ OrderInv /\ order \in Seq(Reqs) /\ left \in [Reqs -> 0..NParts]
  BY Zenon DEF IInv, TypeOK
<1>o. \A b \in 1..Len(order) : order[b] \in Reqs
  BY <1>0, ReqsList, Zenon
<1>f. Owns(r) /\ UNCHANGED <<order, wire, mem>>
  BY Zenon DEF CutPart, Owns
<1>1. PICK q \in Reqs, u \in 1..Len(mine[r]) :
              /\ q = mine[r][u] /\ left[q] \in 1..NParts /\ mem[q] = "queued"
              /\ \A j \in 1..Len(mine[r]) : left[mine[r][j]] > 0 => u <= j
              /\ left'[q] = left[q] - 1 /\ \A x \in Reqs : x # q => left'[x] = left[x]
              /\ Len(wr'[r]) = Len(wr[r]) + 1 /\ Len(wr[r]) \in Nat
              /\ \A i \in 1..Len(wr[r]) : wr'[r][i] = wr[r][i]
              /\ wr'[r][Len(wr[r]) + 1] = q
              /\ \A x \in Reqs : x # r => wr'[x] = wr[x]
  BY CutNode, Zenon
<1>2. PICK n \in Nat : n = Len(wr[r])
  BY <1>1, Zenon
<1>3. PICK k \in 0..Len(order) : QueueInv(k) /\ LinkInv(k)
  BY Zenon DEF IInv, ListInv
<1>4. PICK N \in Nat : N = Len(order)
  BY <1>0, ReqsList, Zenon
<1>5. PICK L \in Nat : L = Len(mine[r])
  BY <1>0, ReqsList, Zenon DEF TypeOK
<1>6. PICK g \in 1..N : g = k + u /\ order[g] = q
  <2>1. k + u \in 1..N /\ order[k + u] = q
    BY <1>0, <1>1, <1>3, <1>4, <1>f, MineNodes, Zenon
  <2> QED
    BY <2>1, Zenon
<1>7. \A b \in 1..N : order[b] = q => b = g
  BY <1>0, <1>4, <1>6, Zenon DEF OrderInv
<1>8. ASSUME NEW b \in 1..N, mem[order[b]] = "queued", left[order[b]] > 0 PROVE g <= b
  <2>0. k \in Nat /\ u \in Nat /\ u <= L /\ b \in Nat
    BY <1>4, <1>5
  <2>1. b > k
    BY <1>3, <1>4, <1>8, Zenon DEF QueueInv
  <2>2. CASE b <= k + L
    <3>1. PICK j \in 1..L : b = k + j
      BY <1>3, <1>4, <1>5, <2>1, <2>2
    <3>2. mine[r][j] = order[b]
      BY <1>3, <1>5, <1>f, <3>1, Zenon DEF QueueInv
    <3>3. u <= j
      BY <1>1, <1>5, <1>8, <3>2, Zenon
    <3>4. j \in Nat
      BY <3>1
    <3> QED
      BY <1>6, <2>0, <3>1, <3>3, <3>4, Places, Zenon
  <2>3. CASE ~(b <= k + L)
    BY <1>6, <2>0, <2>3, Places, Zenon
  <2> QED
    BY <2>2, <2>3, Zenon
<1>9. /\ \A a \in 1..N, i \in 1..Len(wire) : wire[i].req = order[a] => a <= g
      /\ \A a \in 1..N, x \in Reqs : \A i \in 1..Len(wr[x]) : wr[x][i] = order[a] => a <= g
  <2>1. mem[order[g]] = "queued" /\ left[order[g]] > 0
    BY <1>1, <1>6
  <2> QED
    BY <1>0, <1>4, <2>1, Zenon DEF CutOrderInv, CutOrdered
<1>10. \A b \in 1..N : left'[order[b]] > 0 => left[order[b]] > 0
  <2>1. ASSUME NEW b \in 1..N PROVE left'[order[b]] > 0 => left[order[b]] > 0
    <3>1. CASE order[b] = q
      BY <1>1, <3>1, SMTT(30)
    <3>2. CASE order[b] # q
      BY <1>1, <1>4, <1>o, <3>2, Zenon
    <3> QED
      BY <3>1, <3>2, Zenon
  <2> QED
    BY <2>1, Zenon
<1>11. ASSUME NEW x \in Reqs, NEW i \in 1..Len(wr'[x])
       PROVE  \/ i \in 1..Len(wr[x]) /\ wr'[x][i] = wr[x][i]
              \/ x = r /\ i = n + 1 /\ wr'[x][i] = q
  <2>1. CASE x # r
    BY <1>1, <2>1, Zenon
  <2>2. CASE x = r
    <3>1. i \in 1..n + 1
      BY <1>1, <1>2, <2>2, Zenon
    <3>2. i \in 1..n \/ i = n + 1
      BY <3>1
    <3> QED
      BY <1>1, <1>2, <2>2, <3>2, Zenon
  <2> QED
    BY <2>1, <2>2, Zenon
<1>12. ASSUME NEW a \in 1..N, NEW b \in 1..N, NEW x \in Reqs, NEW i \in 1..Len(wr'[x]), NEW j \in 1..Len(wr'[x]),
              wr'[x][i] = order[a], wr'[x][j] = order[b], i <= j
       PROVE  a <= b
  <2>1. CASE (i \in 1..Len(wr[x]) /\ wr'[x][i] = wr[x][i]) /\ (j \in 1..Len(wr[x]) /\ wr'[x][j] = wr[x][j])
    BY <1>0, <1>4, <1>12, <2>1, Zenon DEF CutOrderInv, CutOrdered
  <2>2. CASE (i \in 1..Len(wr[x]) /\ wr'[x][i] = wr[x][i]) /\ (x = r /\ j = n + 1 /\ wr'[x][j] = q)
    BY <1>7, <1>9, <1>12, <2>2, Zenon
  <2>3. CASE (x = r /\ i = n + 1 /\ wr'[x][i] = q) /\ (x = r /\ j = n + 1 /\ wr'[x][j] = q)
    BY <1>7, <1>12, <2>3
  <2>4. CASE (x = r /\ i = n + 1 /\ wr'[x][i] = q) /\ j \in 1..Len(wr[x])
    BY <1>2, <1>12, <2>4
  <2> QED
    BY <1>11, <2>1, <2>2, <2>3, <2>4, Zenon
<1>13. ASSUME NEW a \in 1..N, NEW b \in 1..N, NEW x \in Reqs, NEW i \in 1..Len(wire), NEW j \in 1..Len(wr'[x]),
              wire[i].req = order[a], wr'[x][j] = order[b]
       PROVE  a <= b
  <2>1. CASE j \in 1..Len(wr[x]) /\ wr'[x][j] = wr[x][j]
    BY <1>0, <1>4, <1>13, <2>1, Zenon DEF CutOrderInv, CutOrdered
  <2>2. CASE wr'[x][j] = q
    BY <1>7, <1>9, <1>13, <2>2, Zenon
  <2> QED
    BY <1>11, <2>1, <2>2, Zenon
<1>14. ASSUME NEW a \in 1..N, NEW b \in 1..N, mem[order[b]] = "queued", left'[order[b]] > 0
       PROVE  /\ \A i \in 1..Len(wire) : wire[i].req = order[a] => a <= b
              /\ \A x \in Reqs : \A i \in 1..Len(wr'[x]) : wr'[x][i] = order[a] => a <= b
  <2>1. left[order[b]] > 0 /\ g <= b
    BY <1>8, <1>10, <1>14, Zenon
  <2>2. \A i \in 1..Len(wire) : wire[i].req = order[a] => a <= b
    BY <1>0, <1>4, <1>14, <2>1, Zenon DEF CutOrderInv, CutOrdered
  <2>3. ASSUME NEW x \in Reqs, NEW i \in 1..Len(wr'[x]), wr'[x][i] = order[a] PROVE a <= b
    <3>1. CASE i \in 1..Len(wr[x]) /\ wr'[x][i] = wr[x][i]
      BY <1>0, <1>4, <1>14, <2>1, <2>3, <3>1, Zenon DEF CutOrderInv, CutOrdered
    <3>2. CASE wr'[x][i] = q
      BY <1>7, <2>1, <2>3, <3>2, Zenon
    <3> QED
      BY <1>11, <3>1, <3>2, Zenon
  <2> QED
    BY <2>2, <2>3, Zenon
<1>15. \A a, b \in 1..N : \A i, j \in 1..Len(wire) :
         wire[i].req = order[a] /\ wire[j].req = order[b] /\ i <= j => a <= b
  BY <1>0, <1>4, Zenon DEF CutOrderInv, CutOrdered
<1> QED
  <2>1. ASSUME NEW a \in 1..Len(order), NEW b \in 1..Len(order)
        PROVE  /\ \A i, j \in 1..Len(wire) :
                     wire[i].req = order[a] /\ wire[j].req = order[b] /\ i <= j => a <= b
               /\ \A x \in Reqs : \A i, j \in 1..Len(wr'[x]) :
                     wr'[x][i] = order[a] /\ wr'[x][j] = order[b] /\ i <= j => a <= b
               /\ \A i \in 1..Len(wire) : \A x \in Reqs : \A j \in 1..Len(wr'[x]) :
                     wire[i].req = order[a] /\ wr'[x][j] = order[b] => a <= b
               /\ mem[order[b]] = "queued" /\ left'[order[b]] > 0 =>
                     /\ \A i \in 1..Len(wire) : wire[i].req = order[a] => a <= b
                     /\ \A x \in Reqs : \A i \in 1..Len(wr'[x]) : wr'[x][i] = order[a] => a <= b
    BY <1>4, <1>12, <1>13, <1>14, <1>15, Zenon
  <2>2. CutOrdered(order, wire, wr', mem, left')
    BY <2>1, Zenon DEF CutOrdered
  <2> QED
    BY <1>f, <2>2, Zenon DEF CutOrderInv

\* Every step keeps the parts in the order of the exchanges.
LEMMA CutOrderStep == IInv /\ [Next]_vars => CutOrderInv'
<1> SUFFICES ASSUME IInv, [Next]_vars PROVE CutOrderInv'
  BY Zenon
<1>1. CASE \A r \in Reqs : ~Exchange(r) /\ ~CutPart(r) /\ ~PostSend(r) /\ ~PostSendFails(r)
  <2>1. /\ UNCHANGED <<order, wire, wr>>
        /\ \A q \in Reqs : /\ mem'[q] = mem[q] \/ (mem[q] = "queued" /\ mem'[q] \in {"ok", "failed"})
                           /\ left'[q] = left[q] \/ left'[q] = 0
    BY <1>1, PartsKept, Zenon
  <2>2. \A q \in Reqs : (mem'[q] = "queued" => mem[q] = "queued") /\ (left'[q] > 0 => left[q] > 0)
    BY <2>1
  <2> QED
    BY <2>1, <2>2, CutOrderKept, Zenon
<1> QED
  BY <1>1, CutOrderPublished, CutOrderCut, CutOrderPosted, Zenon
=============================================================================
