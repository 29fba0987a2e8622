-------------------------- MODULE WriteQueueLists ---------------------------
(***************************************************************************)
(* The list from _write_head to the collected nodes: every step of         *)
(* WriteQueue keeps it, and nothing is published when it is recycled.      *)
(***************************************************************************)
EXTENDS WriteQueueInv

-----------------------------------------------------------------------------
(* The list from the head to the collected nodes *)

\* What the list is, as a choice of the number of returned requests.
Listed(k) == k \in 0..Len(order) /\ QueueInv(k) /\ LinkInv(k) /\ ScanInv(k)

\* A step that leaves the list and the place of the scan alone.
LEMMA ListKept ==
    ASSUME NEW k, Listed(k), UNCHANGED <<head, next, prev, mem, mine, order, scan>>,
           \A q \in Reqs : Owns(q)' => Owns(q),
           \A i \in 1..Len(order) : pc'[order[i]] = "link" <=> pc[order[i]] = "link",
           \A q \in Reqs : pc'[q] = "won" => pc[q] = "won",
           \A q \in Reqs : wpc'[q] = "reverse" => wpc[q] = "reverse"
    PROVE  Listed(k)'
<1>1. QueueInv(k)'
  BY Zenon DEF Listed, QueueInv
<1>2. LinkInv(k)'
  BY DEF Listed, LinkInv, Above
<1>3. ScanInv(k)'
  <2> SUFFICES ASSUME NEW r \in Reqs, wpc'[r] = "reverse"
               PROVE  \E m, n \in 1..Len(order') :
                        /\ k + Len(mine'[r]) < m /\ m <= n
                        /\ scan'[r].new = order'[n] /\ scan'[r].p = order'[m]
                        /\ Len(scan'[r].rev) = n - m
                        /\ \A i \in 1..n - m : scan'[r].rev[i] = order'[m + i]
                        /\ \A j \in m + 1..n : pc'[order'[j]] # "link"
    BY Zenon DEF ScanInv
  <2>1. PICK m, n \in 1..Len(order) :
                        /\ k + Len(mine[r]) < m /\ m <= n
                        /\ scan[r].new = order[n] /\ scan[r].p = order[m]
                        /\ Len(scan[r].rev) = n - m
                        /\ \A i \in 1..n - m : scan[r].rev[i] = order[m + i]
                        /\ \A j \in m + 1..n : pc[order[j]] # "link"
    BY Zenon DEF Listed, ScanInv
  <2>2. \A j \in m + 1..n : j \in 1..Len(order)
    OBVIOUS
  <2>3. \A j \in m + 1..n : pc'[order[j]] # "link"
    BY <2>1, <2>2, Zenon
  <2> QED
    BY <2>1, <2>3
<1> QED
  BY <1>1, <1>2, <1>3, Zenon DEF Listed

\* A writer that is not scanning leaves no scan.
LEMMA NoScanning ==
    ASSUME NEW k, NEW r \in Reqs, Owns(r)', wpc'[r] # "reverse", SingleWriter'
    PROVE  ScanInv(k)'
  BY Zenon DEF SingleWriter, Owns, ScanInv

\* The owner returns the first d of its nodes, but not all.
LEMMA ListAdvances ==
    ASSUME TypeOK, ControlInv, OrderInv, SingleWriter', NEW k, Listed(k),
           NEW r \in Reqs, wpc[r] \notin {"none", "done"}, wpc'[r] \notin {"none", "done", "reverse"},
           NEW d \in Nat, d < Len(mine[r]),
           Len(mine'[r]) = Len(mine[r]) - d,
           \A i \in 1..Len(mine[r]) - d : mine'[r][i] = mine[r][d + i],
           \A i \in 1..d : mem'[mine[r][i]] # "queued",
           \A q \in Reqs : mem'[q] = mem[q] \/ \E i \in 1..d : q = mine[r][i],
           UNCHANGED <<head, next, prev, order, pc>>
    PROVE  Listed(k + d)'
<1>1. Owns(r) /\ Owns(r)' /\ pc[r] # "won"
  BY Zenon DEF Owns, ControlInv, Control
<1>2. \A q \in Reqs : Owns(q)' => q = r
  BY <1>1, Zenon DEF SingleWriter
<1>3. PICK L \in Nat : L = Len(mine[r])
  BY ListNodes, Zenon
<1>4. PICK N \in Nat : N = Len(order)
  BY OrderNodes, Zenon
<1>5. k \in Nat /\ k <= N /\ k + L <= N /\ d < L
  BY <1>1, <1>3, <1>4 DEF Listed, QueueInv
<1>o. \A i \in 1..N : order[i] \in Reqs
  BY <1>4, OrderNodes, Zenon
<1>6. \A i \in 1..L : mine[r][i] = order[k + i]
  BY <1>1, <1>3, Zenon DEF Listed, QueueInv
<1>7. \A i, j \in 1..N : order[i] = order[j] => i = j
  BY <1>4, Zenon DEF OrderInv
<1>8. QueueInv(k + d)'
  <2>1. k + d \in 0..Len(order')
    BY <1>4, <1>5
  <2>2. ASSUME NEW i \in 1..N PROVE mem'[order[i]] = "queued" <=> i > k + d
    <3>1. mem[order[i]] = "queued" <=> i > k
      BY <1>4, Zenon DEF Listed, QueueInv
    <3>2. CASE i \in k + 1..k + d
      <4> DEFINE j == i - k
      <4>1. j \in 1..d /\ j \in 1..L /\ k + j = i /\ ~(i > k + d)
        BY <1>5, <3>2
      <4> HIDE DEF j
      <4>2. mine[r][j] = order[i]
        BY <1>6, <4>1, Zenon
      <4> QED
        BY <4>1, <4>2, Zenon
    <3>3. CASE i \notin k + 1..k + d
      <4>1. \A j \in 1..d : order[i] # mine[r][j]
        <5> SUFFICES ASSUME NEW j \in 1..d, order[i] = order[k + j] PROVE FALSE
          BY <1>5, <1>6
        <5>1. k + j \in 1..N /\ k + j \in k + 1..k + d
          BY <1>5, SMTT(30)
        <5> QED
          BY <1>7, <3>3, <5>1, Zenon
      <4>2. mem'[order[i]] = mem[order[i]]
        BY <1>o, <4>1, Zenon
      <4>3. i > k <=> i > k + d
        BY <1>5, <3>3
      <4> QED
        BY <3>1, <4>2, <4>3, Zenon
    <3> QED
      BY <3>2, <3>3, Zenon
  <2>3. head' = IF k + d = Len(order') THEN NULL ELSE order'[Len(order')]
    <3>1. k # N /\ k + d # N
      BY <1>5
    <3> QED
      BY <1>4, <3>1, Zenon DEF Listed, QueueInv
  <2>4. ASSUME NEW q \in Reqs, Owns(q)'
        PROVE  /\ (k + d) + Len(mine'[q]) <= Len(order')
               /\ \A i \in 1..Len(mine'[q]) : mine'[q][i] = order'[(k + d) + i]
               /\ pc'[q] = "won" => k + d < Len(order') /\ q = order'[(k + d) + 1]
    <3>1. q = r
      BY <1>2, <2>4, Zenon
    <3>2. Len(mine'[r]) = L - d
      BY <1>3, Zenon
    <3>3. (k + d) + (L - d) <= N
      BY <1>5
    <3>4. ASSUME NEW i \in 1..L - d PROVE mine'[r][i] = order[(k + d) + i]
      <4>1. d + i \in 1..L /\ k + (d + i) = (k + d) + i
        BY <1>5
      <4>2. mine'[r][i] = mine[r][d + i]
        BY <1>3, Zenon
      <4> QED
        BY <1>6, <4>1, <4>2, Zenon
    <3> QED
      BY <1>1, <1>4, <3>1, <3>2, <3>3, <3>4, Zenon
  <2> QED
    BY <1>4, <2>1, <2>2, <2>3, <2>4, Zenon DEF QueueInv
<1>9. LinkInv(k + d)'
  <2>1. ASSUME NEW j \in 1..k + d PROVE pc'[order'[j]] # "link"
    <3>1. j \in 1..N
      BY <1>5
    <3>2. CASE j \in 1..k
      BY <3>2, Zenon DEF Listed, LinkInv
    <3>3. CASE j > k
      <4>1. ~(j > k + L)
        BY <1>5
      <4>2. ~Above(r, k, j)
        BY <1>3, <4>1, Zenon DEF Above
      <4> QED
        BY <1>1, <1>4, <3>1, <4>2, Zenon DEF Listed, LinkInv
    <3> QED
      BY <1>5, <3>2, <3>3
  <2>2. ASSUME NEW j \in 1..N PROVE Above(r, k + d, j)' <=> Above(r, k, j)
    <3>1. Above(r, k + d, j)' <=> j > (k + d) + 1 /\ j > (k + d) + (L - d)
      BY <1>3, Zenon DEF Above
    <3>2. Above(r, k, j) <=> j > k + 1 /\ j > k + L
      BY <1>3, Zenon DEF Above
    <3>3. j > (k + d) + 1 /\ j > (k + d) + (L - d) <=> j > k + L
      BY <1>5
    <3>4. j > k + 1 /\ j > k + L <=> j > k + L
      BY <1>5
    <3> QED
      BY <3>1, <3>2, <3>3, <3>4, Zenon
  <2>3. \A j \in 1..N :
          /\ Above(r, k, j) => IF pc[order[j]] = "link" THEN prev[order[j]] = order[j - 1]
                                                        ELSE next[order[j]] = order[j - 1]
          /\ ~Above(r, k, j) => pc[order[j]] # "link"
    BY <1>1, <1>4, Zenon DEF Listed, LinkInv
  <2> QED
    BY <1>2, <1>4, <2>1, <2>2, <2>3, Zenon DEF LinkInv
<1>10. ScanInv(k + d)'
  BY <1>1, NoScanning, Zenon
<1>11. k + d \in 0..Len(order')
  BY <1>4, <1>5
<1> QED
  BY <1>8, <1>9, <1>10, <1>11, Zenon DEF Listed

\* A producer publishes a node: it is the newest of the list, to be linked to the
\* one before it, or the first of a new list.
LEMMA ListPublished ==
    ASSUME IInv, NEW k, Listed(k), NEW r \in Reqs, Exchange(r)
    PROVE  Listed(k)'
<1>0. TypeOK /\ ControlInv /\ OrderInv /\ SingleWriter
  BY Zenon DEF IInv
<1>1. /\ Len(order) \in Nat /\ Len(order') = Len(order) + 1
      /\ \A i \in 1..Len(order) : order'[i] = order[i] /\ order[i] \in Reqs
      /\ order'[Len(order) + 1] = r
      /\ mem[r] = "unused" /\ wpc[r] = "none"
      /\ mem'[r] = "queued" /\ prev'[r] = head /\ pc'[r] = IF head = NULL THEN "won" ELSE "link"
      /\ \A q \in Reqs : q # r => UNCHANGED <<mem[q], prev[q], pc[q]>>
      /\ head' = r /\ UNCHANGED <<next, mine, wpc, scan>>
  BY <1>0, Published, Zenon DEF writerVars
<1>2. \A i \in 1..Len(order) : order[i] # r
  BY <1>0, <1>1, Zenon DEF OrderInv
<1>3. \A i \in 1..Len(order) : /\ order'[i] = order[i]
                               /\ UNCHANGED <<mem[order[i]], prev[order[i]], pc[order[i]]>>
  BY <1>1, <1>2, Zenon
<1>4. PICK N \in Nat : N = Len(order)
  BY <1>1, Zenon
<1>5. k \in Nat /\ k <= N /\ (head = NULL <=> k = N)
  <2>1. k \in 0..N /\ head = IF k = N THEN NULL ELSE order[N]
    BY <1>4, Zenon DEF Listed, QueueInv
  <2>2. k # N => N \in 1..N
    BY <2>1
  <2>3. k # N => order[N] # NULL
    BY <1>1, <1>4, <2>2, WriteQueueAssumption, Zenon
  <2> QED
    BY <2>1, <2>3
<1>6. \A q \in Reqs : Owns(q)' <=> IF head = NULL THEN q = r ELSE Owns(q)
  BY ExchangeOwns, Zenon
<1>7. pc[r] = "exchange" /\ mine[r] = <<>> /\ ~Owns(r)
  BY <1>0, <1>1, Zenon DEF ControlInv, Control, Exchange, Owns
<1>e. Len(mine[r]) = 0
  BY <1>7, SeqNone, Zenon
<1>m. \A q \in Reqs : Len(mine[q]) \in Nat
  BY <1>0, ReqsList, Zenon DEF TypeOK
<1>8. QueueInv(k)'
  <2>1. k \in 0..Len(order')
    BY <1>1, <1>4, <1>5
  <2>2. ASSUME NEW i \in 1..Len(order') PROVE mem'[order'[i]] = "queued" <=> i > k
    <3>1. CASE i \in 1..N
      BY <1>3, <1>4, <3>1, Zenon DEF Listed, QueueInv
    <3>2. CASE i = N + 1
      BY <1>1, <1>4, <1>5, <3>2
    <3> QED
      BY <1>1, <1>4, <3>1, <3>2
  <2>3. head' = IF k = Len(order') THEN NULL ELSE order'[Len(order')]
    <3>1. k # N + 1
      BY <1>5
    <3> QED
      BY <1>1, <1>4, <3>1, Zenon
  <2>4. ASSUME NEW q \in Reqs, Owns(q)'
        PROVE  /\ k + Len(mine'[q]) <= Len(order')
               /\ \A i \in 1..Len(mine'[q]) : mine'[q][i] = order'[k + i]
               /\ pc'[q] = "won" => k < Len(order') /\ q = order'[k + 1]
    <3>1. CASE head = NULL
      <4>1. q = r /\ k = N
        BY <1>5, <1>6, <2>4, <3>1, Zenon
      <4> QED
        BY <1>1, <1>4, <1>e, <4>1
    <3>2. CASE head # NULL
      <4>1. Owns(q) /\ q # r /\ k < N
        BY <1>5, <1>6, <1>7, <2>4, <3>2
      <4>2. PICK l \in Nat : l = Len(mine[q])
        BY <1>m, Zenon
      <4>3. /\ k + l <= N
            /\ \A i \in 1..l : mine[q][i] = order[k + i]
            /\ pc[q] = "won" => q = order[k + 1]
        BY <1>4, <4>1, <4>2, Zenon DEF Listed, QueueInv
      <4>4. k + 1 \in 1..N /\ \A i \in 1..l : k + i \in 1..N
        BY <1>5, <4>1, <4>3
      <4>5. \A i \in 1..l : mine[q][i] = order'[k + i]
        BY <1>3, <1>4, <4>3, <4>4, Zenon
      <4>6. order'[k + 1] = order[k + 1]
        BY <1>3, <1>4, <4>4, Zenon
      <4>7. k + l <= N + 1 /\ k < N + 1
        BY <1>5, <4>3
      <4> QED
        BY <1>1, <1>4, <4>1, <4>2, <4>3, <4>5, <4>6, <4>7, Zenon
    <3> QED
      BY <3>1, <3>2, Zenon
  <2> QED
    BY <2>1, <2>2, <2>3, <2>4, Zenon DEF QueueInv
<1>9. LinkInv(k)'
  <2>1. ASSUME NEW j \in 1..k PROVE pc'[order'[j]] # "link"
    <3>1. j \in 1..N
      BY <1>5
    <3> QED
      BY <1>3, <1>4, <3>1, Zenon DEF Listed, LinkInv
  <2>2. ASSUME NEW q \in Reqs, Owns(q)', NEW j \in 1..Len(order')
        PROVE  /\ Above(q, k, j)' =>
                     IF pc'[order'[j]] = "link" THEN prev'[order'[j]] = order'[j - 1]
                                                ELSE next'[order'[j]] = order'[j - 1]
               /\ ~Above(q, k, j)' => pc'[order'[j]] # "link"
    <3>0. Above(q, k, j)' <=> Above(q, k, j)
      BY <1>1, Zenon DEF Above
    <3>j. j \in 1..N \/ j = N + 1
      BY <1>1, <1>4
    <3>1. CASE head = NULL
      <4>1. q = r /\ k = N
        BY <1>5, <1>6, <2>2, <3>1, Zenon
      <4>2. ~Above(q, k, j)
        BY <3>j, <4>1 DEF Above
      <4>3. CASE j \in 1..N
        BY <2>1, <3>0, <4>1, <4>2, <4>3, Zenon
      <4>4. CASE j = N + 1
        BY <1>1, <1>4, <3>0, <3>1, <4>2, <4>4, Zenon
      <4> QED
        BY <3>j, <4>3, <4>4, Zenon
    <3>2. CASE head # NULL
      <4>1. Owns(q) /\ k < N
        BY <1>5, <1>6, <2>2, <3>2
      <4>2. CASE j \in 1..N
        <5>1. /\ Above(q, k, j) => IF pc[order[j]] = "link" THEN prev[order[j]] = order[j - 1]
                                                            ELSE next[order[j]] = order[j - 1]
              /\ ~Above(q, k, j) => pc[order[j]] # "link"
          BY <1>4, <4>1, <4>2, Zenon DEF Listed, LinkInv
        <5>2. Above(q, k, j) => j - 1 \in 1..N
          BY <1>5, <4>2 DEF Above
        <5>3. Above(q, k, j) => order'[j - 1] = order[j - 1]
          BY <1>3, <1>4, <5>2, Zenon
        <5> QED
          BY <1>1, <1>3, <1>4, <3>0, <4>2, <5>1, <5>3, Zenon
      <4>3. CASE j = N + 1
        <5>1. PICK l \in Nat : l = Len(mine[q])
          BY <1>m, Zenon
        <5>2. k + l <= N
          BY <1>4, <4>1, <5>1, Zenon DEF Listed, QueueInv
        <5>3. j > k + 1 /\ j > k + l /\ j - 1 = N /\ N \in 1..N
          BY <1>5, <4>1, <4>3, <5>2, SMTT(30)
        <5>4. Above(q, k, j)
          BY <5>1, <5>3, Zenon DEF Above
        <5>5. head = order[N] /\ order'[N] = order[N]
          BY <1>3, <1>4, <1>5, <3>2, <5>3, Zenon DEF Listed, QueueInv
        <5> QED
          BY <1>1, <1>4, <3>0, <3>2, <4>3, <5>3, <5>4, <5>5, SMTT(30)
      <4> QED
        BY <3>j, <4>2, <4>3, Zenon
    <3> QED
      BY <3>1, <3>2, Zenon
  <2> QED
    BY <2>1, <2>2, Zenon DEF LinkInv
<1>10. ScanInv(k)'
  <2> SUFFICES ASSUME NEW q \in Reqs, wpc'[q] = "reverse"
               PROVE  \E m, n \in 1..Len(order') :
                        /\ k + Len(mine'[q]) < m /\ m <= n
                        /\ scan'[q].new = order'[n] /\ scan'[q].p = order'[m]
                        /\ Len(scan'[q].rev) = n - m
                        /\ \A i \in 1..n - m : scan'[q].rev[i] = order'[m + i]
                        /\ \A j \in m + 1..n : pc'[order'[j]] # "link"
    BY Zenon DEF ScanInv
  <2>1. PICK m, n \in 1..Len(order) :
                        /\ k + Len(mine[q]) < m /\ m <= n
                        /\ scan[q].new = order[n] /\ scan[q].p = order[m]
                        /\ Len(scan[q].rev) = n - m
                        /\ \A i \in 1..n - m : scan[q].rev[i] = order[m + i]
                        /\ \A j \in m + 1..n : pc[order[j]] # "link"
    BY <1>1, Zenon DEF Listed, ScanInv
  <2>2. m \in 1..Len(order') /\ n \in 1..Len(order')
    BY <1>1
  <2>3. \A i \in 1..n - m : m + i \in 1..Len(order)
    BY <1>1
  <2>4. \A j \in m + 1..n : j \in 1..Len(order)
    BY <1>1
  <2>5. \A i \in 1..n - m : scan[q].rev[i] = order'[m + i]
    BY <1>3, <2>1, <2>3, Zenon
  <2>6. \A j \in m + 1..n : pc'[order'[j]] # "link"
    BY <1>3, <2>1, <2>4, Zenon
  <2> QED
    BY <1>1, <2>1, <2>2, <2>5, <2>6, SMTT(30)
<1>11. k \in 0..Len(order')
  BY <1>1, <1>4, <1>5
<1> QED
  BY <1>8, <1>9, <1>10, <1>11, Zenon DEF Listed

\* A producer links its node, or prepares one that is not published.
LEMMA ListLinked ==
    ASSUME IInv, NEW k, Listed(k), NEW r \in Reqs, LinkPrev(r) \/ StartWrite(r)
    PROVE  Listed(k)'
<1>0. TypeOK /\ ControlInv /\ OrderInv
  BY Zenon DEF IInv
<1>1. /\ UNCHANGED <<head, mem, prev, mine, order, scan, wpc>>
      /\ \A q \in Reqs : q # r => UNCHANGED <<next[q], pc[q]>>
      /\ \/ pc[r] = "link" /\ pc'[r] = "done" /\ next'[r] = prev[r]
         \/ pc[r] = "idle" /\ pc'[r] = "exchange"
  BY <1>0, Updated, Zenon DEF LinkPrev, StartWrite, Goto, writerVars
<1>2. Len(order) \in Nat /\ \A i \in 1..Len(order) : order[i] \in Reqs
  BY <1>0, OrderNodes, Zenon
<1>3. \A q \in Reqs : Owns(q)' <=> Owns(q)
  BY <1>1, Zenon DEF Owns
<1>4. pc[r] = "idle" => \A i \in 1..Len(order) : order[i] # r
  BY <1>0 DEF ControlInv, Control, OrderInv
<1>5. \A i \in 1..Len(order) : pc'[order[i]] = "link" => pc[order[i]] = "link"
  BY <1>1, <1>2, <1>4, Zenon
<1>6. QueueInv(k)'
  <2>1. \A q \in Reqs : pc'[q] = "won" <=> pc[q] = "won"
    BY <1>1, Zenon
  <2> QED
    BY <1>1, <1>3, <2>1, Zenon DEF Listed, QueueInv
<1>7. LinkInv(k)'
  <2>1. ASSUME NEW j \in 1..k PROVE pc'[order'[j]] # "link"
    <3>1. j \in 1..Len(order)
      BY <1>2 DEF Listed
    <3> QED
      BY <1>1, <1>5, <3>1, Zenon DEF Listed, LinkInv
  <2>2. ASSUME NEW q \in Reqs, Owns(q)', NEW j \in 1..Len(order')
        PROVE  /\ Above(q, k, j)' =>
                     IF pc'[order'[j]] = "link" THEN prev'[order'[j]] = order'[j - 1]
                                                ELSE next'[order'[j]] = order'[j - 1]
               /\ ~Above(q, k, j)' => pc'[order'[j]] # "link"
    <3>0. Above(q, k, j)' <=> Above(q, k, j)
      BY <1>1, Zenon DEF Above
    <3>1. /\ Above(q, k, j) => IF pc[order[j]] = "link" THEN prev[order[j]] = order[j - 1]
                                                        ELSE next[order[j]] = order[j - 1]
          /\ ~Above(q, k, j) => pc[order[j]] # "link"
      BY <1>1, <1>3, <2>2, Zenon DEF Listed, LinkInv
    <3>2. CASE order[j] # r
      BY <1>1, <1>2, <3>0, <3>1, <3>2, Zenon
    <3>3. CASE order[j] = r
      BY <1>1, <1>4, <3>0, <3>1, <3>3, Zenon
    <3> QED
      BY <3>2, <3>3, Zenon
  <2> QED
    BY <2>1, <2>2, Zenon DEF LinkInv
<1>8. ScanInv(k)'
  <2> SUFFICES ASSUME NEW q \in Reqs, wpc'[q] = "reverse"
               PROVE  \E m, n \in 1..Len(order') :
                        /\ k + Len(mine'[q]) < m /\ m <= n
                        /\ scan'[q].new = order'[n] /\ scan'[q].p = order'[m]
                        /\ Len(scan'[q].rev) = n - m
                        /\ \A i \in 1..n - m : scan'[q].rev[i] = order'[m + i]
                        /\ \A j \in m + 1..n : pc'[order'[j]] # "link"
    BY Zenon DEF ScanInv
  <2>1. PICK m, n \in 1..Len(order) :
                        /\ k + Len(mine[q]) < m /\ m <= n
                        /\ scan[q].new = order[n] /\ scan[q].p = order[m]
                        /\ Len(scan[q].rev) = n - m
                        /\ \A i \in 1..n - m : scan[q].rev[i] = order[m + i]
                        /\ \A j \in m + 1..n : pc[order[j]] # "link"
    BY <1>1, Zenon DEF Listed, ScanInv
  <2>2. \A j \in m + 1..n : j \in 1..Len(order)
    BY <1>2
  <2>3. \A j \in m + 1..n : pc'[order[j]] # "link"
    BY <1>5, <2>1, <2>2, Zenon
  <2> QED
    BY <1>1, <2>1, <2>3, Zenon
<1> QED
  BY <1>1, <1>6, <1>7, <1>8, Zenon DEF Listed

\* The winner's list is its own request.
LEMMA ListWon ==
    ASSUME IInv, NEW k, Listed(k), NEW r \in Reqs, WonRight(r), SingleWriter'
    PROVE  Listed(k)'
<1>0. TypeOK /\ ControlInv /\ OrderInv
  BY Zenon DEF IInv
<1>1. /\ UNCHANGED <<head, mem, prev, order, scan>>
      /\ \A q \in Reqs : q # r => UNCHANGED <<next[q], pc[q], mine[q], wpc[q]>>
      /\ pc[r] = "won" /\ pc'[r] \in {"done", "handshake"} /\ wpc'[r] \in {"fail", "won"}
      /\ mine'[r] = <<r>>
  BY <1>0, Updated DEF WonRight, Goto, Writer
<1>2. Len(order) \in Nat /\ \A i \in 1..Len(order) : order[i] \in Reqs
  BY <1>0, OrderNodes, Zenon
<1>3. Owns(r) /\ Owns(r)'
  BY <1>1, Zenon DEF Owns
<1>4. \A q \in Reqs : Owns(q)' => q = r
  BY <1>3, Zenon DEF SingleWriter
<1>5. k \in 0..Len(order) /\ k < Len(order) /\ r = order[k + 1] /\ k + 1 \in 1..Len(order)
  <2>1. k \in 0..Len(order) /\ k < Len(order) /\ r = order[k + 1]
    BY <1>1, <1>3, Zenon DEF Listed, QueueInv
  <2> QED
    BY <1>2, <2>1
<1>6. Len(mine[r]) = 0 /\ Len(mine'[r]) = 1 /\ mine'[r][1] = r
  <2>1. mine[r] = <<>>
    BY <1>0, <1>1, Zenon DEF ControlInv, Control
  <2> QED
    BY <1>1, <2>1, SeqNone, OneNode, Zenon
<1>7. \A j \in 1..Len(order) : order[j] = r => j = k + 1
  BY <1>0, <1>5, Zenon DEF OrderInv
<1>8. QueueInv(k)'
  <2>1. k + 1 <= Len(order)
    BY <1>2, <1>5
  <2>2. \A i \in 1..1 : mine'[r][i] = order'[k + i]
    BY <1>1, <1>5, <1>6
  <2>3. ASSUME NEW q \in Reqs, Owns(q)'
        PROVE  /\ k + Len(mine'[q]) <= Len(order')
               /\ \A i \in 1..Len(mine'[q]) : mine'[q][i] = order'[k + i]
               /\ pc'[q] = "won" => k < Len(order') /\ q = order'[k + 1]
    BY <1>1, <1>4, <1>6, <2>1, <2>2, <2>3, Zenon
  <2>4. /\ k \in 0..Len(order')
        /\ \A i \in 1..Len(order') : mem'[order'[i]] = "queued" <=> i > k
        /\ head' = IF k = Len(order') THEN NULL ELSE order'[Len(order')]
    BY <1>1, Zenon DEF Listed, QueueInv
  <2> QED
    BY <2>3, <2>4, Zenon DEF QueueInv
<1>9. LinkInv(k)'
  <2>0. \A j \in 1..Len(order) :
          /\ Above(r, k, j) => IF pc[order[j]] = "link" THEN prev[order[j]] = order[j - 1]
                                                        ELSE next[order[j]] = order[j - 1]
          /\ ~Above(r, k, j) => pc[order[j]] # "link"
    BY <1>3, Zenon DEF Listed, LinkInv
  <2>1. ASSUME NEW j \in 1..k PROVE pc'[order'[j]] # "link"
    <3>1. j \in 1..Len(order) /\ j # k + 1
      BY <1>2, <1>5
    <3>2. order[j] # r /\ pc[order[j]] # "link"
      BY <1>7, <3>1, Zenon DEF Listed, LinkInv
    <3> QED
      BY <1>1, <1>2, <3>1, <3>2, Zenon
  <2>2. ASSUME NEW j \in 1..Len(order)
        PROVE  (Above(r, k, j)' <=> j > k + 1) /\ (Above(r, k, j) <=> j > k + 1)
    <3>1. (Above(r, k, j)' <=> j > k + 1 /\ j > k + 1) /\ (Above(r, k, j) <=> j > k + 1 /\ j > k + 0)
      BY <1>6, Zenon DEF Above
    <3>2. j > k + 1 /\ j > k + 0 <=> j > k + 1
      BY <1>2, <1>5
    <3> QED
      BY <3>1, <3>2, Zenon
  <2>3. ASSUME NEW j \in 1..Len(order)
        PROVE  /\ Above(r, k, j)' =>
                     IF pc'[order[j]] = "link" THEN prev[order[j]] = order[j - 1]
                                               ELSE next'[order[j]] = order[j - 1]
               /\ ~Above(r, k, j)' => pc'[order[j]] # "link"
    <3>1. CASE j = k + 1
      <4>1. ~(k + 1 > k + 1)
        BY <1>5
      <4> QED
        BY <1>1, <1>5, <2>2, <3>1, <4>1, Zenon
    <3>2. CASE j # k + 1
      <4>1. order[j] # r /\ order[j] \in Reqs
        BY <1>2, <1>7, <3>2, Zenon
      <4> QED
        BY <1>1, <2>0, <2>2, <4>1, Zenon
    <3> QED
      BY <3>1, <3>2, Zenon
  <2> QED
    BY <1>1, <1>4, <2>1, <2>3, Zenon DEF LinkInv
<1>10. ScanInv(k)'
  BY <1>1, <1>3, NoScanning, Zenon
<1> QED
  BY <1>1, <1>5, <1>8, <1>9, <1>10, Zenon DEF Listed

\* The writer that puts the head back to null has one node, the newest.
LEMMA LastNode ==
    ASSUME IInv, NEW k, Listed(k), NEW r \in Reqs, CasNoMore(r)
    PROVE  /\ Owns(r) /\ Len(order) \in Nat /\ k \in Nat /\ k + 1 = Len(order)
           /\ Len(mine[r]) = 1 /\ First(r) = order[k + 1] /\ First(r) \in Reqs
           /\ pc[order[k + 1]] # "link"
<1>0. TypeOK /\ ControlInv /\ TailInv /\ OrderInv
  BY Zenon DEF IInv
<1>1. wpc[r] = "complete" /\ head = OldHead(r) /\ Singular(r) /\ Owns(r)
  BY Zenon DEF CasNoMore, Owns
<1>2. /\ Len(mine[r]) \in Nat /\ Len(mine[r]) > 0 /\ First(r) \in Reqs /\ First(r) = mine[r][1]
      /\ OldHead(r) \in Reqs
  BY <1>0, <1>1, ListNodes, Zenon
<1>3. OldHead(r) = mine[r][Len(mine[r])]
  BY <1>0, Zenon DEF TailInv, OldHead, LastOf
<1>4. PICK L \in Nat : L = Len(mine[r])
  BY <1>2, Zenon
<1>5. PICK N \in Nat : N = Len(order)
  BY <1>0, OrderNodes, Zenon
<1>6. /\ k \in 0..N /\ k + L <= N /\ L > 0
      /\ \A i \in 1..L : mine[r][i] = order[k + i]
      /\ head = IF k = N THEN NULL ELSE order[N]
  BY <1>1, <1>2, <1>4, <1>5, Zenon DEF Listed, QueueInv
<1>7. 1 \in 1..L /\ L \in 1..L /\ k # N /\ k + 1 \in 1..N /\ k + L \in 1..N /\ N \in 1..N
  BY <1>6
<1>8. First(r) = order[k + 1] /\ OldHead(r) = order[k + L] /\ head = order[N]
  BY <1>2, <1>3, <1>4, <1>6, <1>7, Zenon
<1>9. \A i, j \in 1..N : order[i] = order[j] => i = j
  BY <1>0, <1>5, Zenon DEF OrderInv
<1>10. k + L = N
  BY <1>1, <1>7, <1>8, <1>9, Zenon
<1>11. L = 1
  <2>1. CASE mode[r] = "first"
    <3>1. mine[r] = <<r>>
      BY <1>0, <1>1, <2>1, Zenon DEF ControlInv, Control
    <3> QED
      BY <1>4, <3>1, OneNode, Zenon
  <2>2. CASE mode[r] = "drain"
    BY <1>0, <1>1, <1>4, <2>2, Zenon DEF ControlInv, Control
  <2>3. CASE mode[r] = "keep"
    <3>1. First(r) = OldHead(r)
      BY <1>1, <2>3, Zenon DEF Singular
    <3>2. k + 1 = k + L
      BY <1>7, <1>8, <1>9, <3>1, Zenon
    <3> QED
      BY <1>6, <3>2
  <2> QED
    BY <1>0, <2>1, <2>2, <2>3, Zenon DEF TypeOK
<1>12. pc[order[k + 1]] # "link"
  <2>1. ~Above(r, k, k + 1)
    BY <1>6 DEF Above
  <2> QED
    BY <1>1, <1>5, <1>7, <2>1, Zenon DEF Listed, LinkInv
<1> QED
  BY <1>1, <1>2, <1>4, <1>5, <1>6, <1>8, <1>10, <1>11, <1>12, SMTT(30)

\* With it the whole order is returned.
LEMMA ListEmptied ==
    ASSUME IInv, NEW k, Listed(k), NEW r \in Reqs, CasNoMore(r)
    PROVE  Listed(Len(order))'
<1>0. TypeOK /\ OrderInv
  BY Zenon DEF IInv
<1>1. /\ Owns(r) /\ Len(order) \in Nat /\ k \in Nat /\ k + 1 = Len(order)
      /\ First(r) = order[k + 1] /\ First(r) \in Reqs /\ pc[order[k + 1]] # "link"
  BY LastNode, Zenon
<1>2. UNCHANGED <<order, pc>> /\ head' = NULL
  BY Zenon DEF CasNoMore
<1>3. \A q \in Reqs : mem'[q] = IF q = First(r) THEN IF mode[r] = "drain" THEN "failed" ELSE "ok" ELSE mem[q]
  BY <1>0, <1>1, Updated, Zenon DEF CasNoMore
<1>4. \A q \in Reqs : ~Owns(q)'
  BY CasOwns, Zenon
<1>5. \A i \in 1..Len(order) : i \in 1..k \/ i = k + 1
  BY <1>1
<1>6. ASSUME NEW i \in 1..Len(order) PROVE mem'[order[i]] # "queued" /\ pc'[order[i]] # "link"
  <2>1. CASE i = k + 1
    BY <1>1, <1>2, <1>3, <2>1, Zenon
  <2>2. CASE i \in 1..k
    <3>1. ~(i > k) /\ order[i] \in Reqs
      BY <1>0, <1>1, <2>2, OrderNodes
    <3>2. mem[order[i]] # "queued"
      BY <3>1, Zenon DEF Listed, QueueInv
    <3>3. pc[order[i]] # "link"
      BY <2>2, Zenon DEF Listed, LinkInv
    <3> QED
      BY <1>2, <1>3, <3>1, <3>2, <3>3, Zenon
  <2> QED
    BY <1>5, <2>1, <2>2, Zenon
<1>7. \A i \in 1..Len(order) : ~(i > Len(order))
  BY <1>1
<1>8. QueueInv(Len(order))'
  BY <1>1, <1>2, <1>4, <1>6, <1>7, SMTT(30) DEF QueueInv
<1>9. LinkInv(Len(order))'
  BY <1>2, <1>4, <1>6, Zenon DEF LinkInv
<1>10. ScanInv(Len(order))'
  BY <1>4, Zenon DEF ScanInv, Owns
<1>11. Len(order) \in 0..Len(order')
  BY <1>1, <1>2
<1> QED
  BY <1>2, <1>8, <1>9, <1>10, <1>11, Zenon DEF Listed

\* New requests have arrived: the scan starts at the newest.
LEMMA ListScanned ==
    ASSUME IInv, NEW k, Listed(k), NEW r \in Reqs, CasNewRequests(r), SingleWriter'
    PROVE  Listed(k)'
<1>0. TypeOK /\ ControlInv /\ TailInv
  BY Zenon DEF IInv
<1>1. /\ wpc[r] = "complete" /\ head # OldHead(r) /\ Owns(r)
      /\ UNCHANGED <<head, next, prev, mem, mine, order, pc>>
  BY Zenon DEF CasNewRequests, Owns
<1>2. /\ wpc'[r] = "reverse" /\ \A q \in Reqs : q # r => wpc'[q] = wpc[q]
      /\ scan'[r] = [new |-> head, p |-> head, rev |-> <<>>]
  BY <1>0, Updated, Zenon DEF CasNewRequests, Writer
<1>3. \A q \in Reqs : Owns(q)' => q = r
  BY <1>2, Zenon DEF SingleWriter, Owns
<1>4. QueueInv(k)'
  BY <1>1, <1>3, Zenon DEF Listed, QueueInv
<1>5. LinkInv(k)'
  BY <1>1, <1>3, Zenon DEF Listed, LinkInv, Above
<1>6. ScanInv(k)'
  <2> SUFFICES ASSUME NEW q \in Reqs, wpc'[q] = "reverse"
               PROVE  \E m, n \in 1..Len(order') :
                        /\ k + Len(mine'[q]) < m /\ m <= n
                        /\ scan'[q].new = order'[n] /\ scan'[q].p = order'[m]
                        /\ Len(scan'[q].rev) = n - m
                        /\ \A i \in 1..n - m : scan'[q].rev[i] = order'[m + i]
                        /\ \A j \in m + 1..n : pc'[order'[j]] # "link"
    BY Zenon DEF ScanInv
  <2>1. PICK L \in Nat : L = Len(mine[r]) /\ L > 0
    BY <1>0, <1>1, ListNodes, Zenon
  <2>2. PICK N \in Nat : N = Len(order)
    BY <1>0, OrderNodes, Zenon
  <2>3. /\ k \in 0..N /\ k + L <= N
        /\ \A i \in 1..L : mine[r][i] = order[k + i]
        /\ head = IF k = N THEN NULL ELSE order[N]
    BY <1>1, <2>1, <2>2, Zenon DEF Listed, QueueInv
  <2>4. OldHead(r) = mine[r][L]
    BY <1>0, <2>1, Zenon DEF TailInv, OldHead, LastOf
  <2>5. k # N /\ L \in 1..L /\ N \in 1..N
    BY <2>1, <2>3, SMTT(30)
  <2>6. head = order[N] /\ OldHead(r) = order[k + L]
    BY <2>3, <2>4, <2>5, Zenon
  <2>7. k + L < N
    BY <1>1, <2>3, <2>6, SMTT(30)
  <2>8. Len(scan'[r].rev) = N - N /\ 1..N - N = {} /\ N + 1..N = {}
    BY <1>2, SeqNone
  <2>9. \E m, n \in 1..Len(order') :
            /\ k + Len(mine'[r]) < m /\ m <= n
            /\ scan'[r].new = order'[n] /\ scan'[r].p = order'[m]
            /\ Len(scan'[r].rev) = n - m
            /\ \A i \in 1..n - m : scan'[r].rev[i] = order'[m + i]
            /\ \A j \in m + 1..n : pc'[order'[j]] # "link"
    <3>1. k + Len(mine'[r]) < N /\ N <= N
      BY <1>1, <2>1, <2>7, SMTT(30)
    <3>2. scan'[r].new = order'[N] /\ scan'[r].p = order'[N]
      BY <1>1, <1>2, <2>6, SMTT(30)
    <3>3. N \in 1..Len(order')
      BY <1>1, <2>2, <2>5, Zenon
    <3>4. \A i \in 1..N - N : scan'[r].rev[i] = order'[N + i]
      BY <2>8, Zenon
    <3>5. \A j \in N + 1..N : pc'[order'[j]] # "link"
      BY <2>8, Zenon
    <3> QED
      BY <2>8, <3>1, <3>2, <3>3, <3>4, <3>5, Zenon
  <2>10. q = r
    BY <1>3, Zenon DEF Owns
  <2> QED
    BY <2>9, <2>10, Zenon
<1> QED
  BY <1>1, <1>4, <1>5, <1>6, Zenon DEF Listed

\* The scan takes a step.
LEMMA ListReversed ==
    ASSUME IInv, NEW k, Listed(k), NEW r \in Reqs, ReverseList(r), SingleWriter'
    PROVE  Listed(k)'
<1>0. TypeOK /\ ControlInv /\ TailInv /\ OrderInv
  BY Zenon DEF IInv
<1>k. k \in 0..Len(order) /\ QueueInv(k) /\ LinkInv(k) /\ ScanInv(k)
  BY Zenon DEF Listed
<1>1. wpc[r] = "reverse" /\ Owns(r) /\ UNCHANGED <<head, next, prev, mem, order, pc>>
  BY Zenon DEF ReverseList, Owns
<1>2. PICK m, n \in 1..Len(order) :
              /\ k + Len(mine[r]) < m /\ m <= n
              /\ \A q \in Reqs : q # r => UNCHANGED <<mine[q], tail[q], wpc[q], mode[q], scan[q]>>
              /\ \A j \in m..n : pc[order[j]] # "link"
              /\ \/ /\ k + Len(mine[r]) < m - 1
                    /\ UNCHANGED <<mine, tail, wpc, mode>>
                    /\ scan'[r].new = order[n] /\ scan'[r].p = order[m - 1]
                    /\ Len(scan'[r].rev) = n - (m - 1)
                    /\ \A i \in 1..n - (m - 1) : scan'[r].rev[i] = order[(m - 1) + i]
                 \/ /\ k + Len(mine[r]) = m - 1
                    /\ Len(mine'[r]) = n - k
                    /\ \A i \in 1..n - k : mine'[r][i] = order[k + i]
                    /\ tail'[r] = order[n] /\ wpc'[r] = AfterIncomplete(r) /\ mode'[r] = NextMode(r)
  BY <1>0, <1>k, ScanMoves, Zenon
<1>3. PICK L \in Nat : L = Len(mine[r]) /\ L > 0
  BY <1>0, <1>1, ListNodes, Zenon
<1>4. PICK N \in Nat : N = Len(order)
  BY <1>0, OrderNodes, Zenon
<1>5. k \in 0..N /\ m \in 1..N /\ n \in 1..N /\ k + L < m /\ m <= n
  BY <1>k, <1>2, <1>3, <1>4, Zenon
<1>6. AfterIncomplete(r) \in {"start", "begin", "walk"}
  BY <1>0, Continues, Zenon
<1>7. wpc'[r] \notin {"none", "done"}
  BY <1>1, <1>2, <1>6, Zenon
<1>8. Owns(r)' /\ \A q \in Reqs : Owns(q)' => q = r
  BY <1>7, Zenon DEF SingleWriter, Owns
<1>9. pc[r] # "won"
  BY <1>0, <1>1, Zenon DEF ControlInv, Control
<1>10. CASE /\ k + Len(mine[r]) < m - 1
            /\ UNCHANGED <<mine, tail, wpc, mode>>
            /\ scan'[r].new = order[n] /\ scan'[r].p = order[m - 1]
            /\ Len(scan'[r].rev) = n - (m - 1)
            /\ \A i \in 1..n - (m - 1) : scan'[r].rev[i] = order[(m - 1) + i]
  <2>1. QueueInv(k)'
    BY <1>k, <1>1, <1>8, <1>10, Zenon DEF QueueInv
  <2>2. LinkInv(k)'
    BY <1>k, <1>1, <1>8, <1>10, Zenon DEF LinkInv, Above
  <2>3. ScanInv(k)'
    <3> SUFFICES ASSUME NEW q \in Reqs, wpc'[q] = "reverse"
               PROVE  \E x, y \in 1..Len(order') :
                        /\ k + Len(mine'[q]) < x /\ x <= y
                        /\ scan'[q].new = order'[y] /\ scan'[q].p = order'[x]
                        /\ Len(scan'[q].rev) = y - x
                        /\ \A i \in 1..y - x : scan'[q].rev[i] = order'[x + i]
                        /\ \A j \in x + 1..y : pc'[order'[j]] # "link"
      BY Zenon DEF ScanInv
    <3> DEFINE m1 == m - 1
    <3>1. m1 \in 1..N /\ m1 <= n /\ m1 + 1 = m
      BY <1>3, <1>5, SMTT(30)
    <3>2. /\ k + Len(mine[r]) < m1
          /\ scan'[r].new = order[n] /\ scan'[r].p = order[m1] /\ Len(scan'[r].rev) = n - m1
          /\ \A i \in 1..n - m1 : scan'[r].rev[i] = order[m1 + i]
      BY <1>10, Zenon
    <3> HIDE DEF m1
    <3>3. \A j \in m1 + 1..n : pc'[order'[j]] # "link"
      BY <1>1, <1>2, <3>1, Zenon
    <3>4. \E x, y \in 1..Len(order') :
              /\ k + Len(mine'[r]) < x /\ x <= y
              /\ scan'[r].new = order'[y] /\ scan'[r].p = order'[x]
              /\ Len(scan'[r].rev) = y - x
              /\ \A i \in 1..y - x : scan'[r].rev[i] = order'[x + i]
              /\ \A j \in x + 1..y : pc'[order'[j]] # "link"
      BY <1>1, <1>4, <1>5, <1>10, <3>1, <3>2, <3>3, Zenon
    <3>5. q = r
      BY <1>8, Zenon DEF Owns
    <3> QED
      BY <3>4, <3>5, Zenon
  <2> QED
    BY <1>k, <1>1, <2>1, <2>2, <2>3, Zenon DEF Listed
<1>11. CASE /\ k + Len(mine[r]) = m - 1
            /\ Len(mine'[r]) = n - k
            /\ \A i \in 1..n - k : mine'[r][i] = order[k + i]
            /\ wpc'[r] = AfterIncomplete(r)
  <2>0. k + L = m - 1
    BY <1>3, <1>11, Zenon
  <2>1. QueueInv(k)'
    <3>1. k + (n - k) <= N
      BY <1>5
    <3>2. k + Len(mine'[r]) <= Len(order')
      BY <1>1, <1>4, <1>11, <3>1, Zenon
    <3>3. \A i \in 1..Len(mine'[r]) : mine'[r][i] = order'[k + i]
      BY <1>1, <1>11, Zenon
    <3> QED
      BY <1>k, <1>1, <1>8, <1>9, <3>2, <3>3, Zenon DEF QueueInv
  <2>2. LinkInv(k)'
    <3>1. ASSUME NEW j \in 1..N
          PROVE  (Above(r, k, j)' <=> j > n) /\ (Above(r, k, j) <=> j >= m)
      <4>1. (Above(r, k, j)' <=> j > k + 1 /\ j > k + (n - k)) /\ (Above(r, k, j) <=> j > k + 1 /\ j > k + L)
        BY <1>3, <1>11, Zenon DEF Above
      <4>2. (j > k + 1 /\ j > k + (n - k)) <=> j > n
        BY <1>5, <1>3
      <4>3. (j > k + 1 /\ j > k + L) <=> j >= m
        BY <1>5, <1>3, <2>0, SMTT(30)
      <4> QED
        BY <4>1, <4>2, <4>3, Zenon
    <3>2. \A j \in 1..N :
            /\ Above(r, k, j) => IF pc[order[j]] = "link" THEN prev[order[j]] = order[j - 1]
                                                          ELSE next[order[j]] = order[j - 1]
            /\ ~Above(r, k, j) => pc[order[j]] # "link"
      BY <1>k, <1>1, <1>4, Zenon DEF LinkInv
    <3>3. ASSUME NEW j \in 1..N
          PROVE  /\ Above(r, k, j)' => IF pc[order[j]] = "link" THEN prev[order[j]] = order[j - 1]
                                                                ELSE next[order[j]] = order[j - 1]
                 /\ ~Above(r, k, j)' => pc[order[j]] # "link"
      <4>1. j > n \/ j \in m..n \/ ~(j >= m)
        BY <1>5
      <4>2. j > n => j >= m
        BY <1>5
      <4> QED
        BY <1>2, <3>1, <3>2, <4>1, <4>2, Zenon
    <3> QED
      BY <1>k, <1>1, <1>4, <1>8, <3>3, Zenon DEF LinkInv
  <2>3. ScanInv(k)'
    BY <1>6, <1>8, <1>11, NoScanning, Zenon
  <2> QED
    BY <1>k, <1>1, <2>1, <2>2, <2>3, Zenon DEF Listed
<1> QED
  BY <1>2, <1>10, <1>11, Zenon

\* The first node is returned when it is written already.
LEMMA ListBegun ==
    ASSUME IInv, NEW k, Listed(k), NEW r \in Reqs, BeginWrite(r), SingleWriter'
    PROVE  \E d \in Nat : Listed(k + d)'
<1>0. TypeOK /\ ControlInv /\ OrderInv
  BY Zenon DEF IInv
<1>t. /\ wpc \in [Reqs -> WriterPCs] /\ mine \in [Reqs -> Seq(Reqs)]
      /\ mem \in [Reqs -> {"unused", "queued", "ok", "failed"}]
  BY <1>0, Updated, Zenon
<1>1. /\ UNCHANGED <<head, next, prev, order, pc>>
      /\ wpc[r] = "begin" /\ wpc'[r] \in {"fail", "post", "cutDone"}
  BY <1>t, Zenon DEF BeginWrite, Writer
<1>2. \/ mem' = mem /\ (mine' = mine \/ mine' = [mine EXCEPT ![r] = mine[r]])
      \/ /\ Len(mine[r]) > 1
         /\ mine' = [mine EXCEPT ![r] = Tail(mine[r])]
         /\ mem' = [mem EXCEPT ![First(r)] = "ok"]
  BY Zenon DEF BeginWrite
<1>3. PICK L \in Nat : L = Len(mine[r]) /\ L > 0 /\ mine[r] \in Seq(Reqs) /\ First(r) = mine[r][1] /\ First(r) \in Reqs
  BY <1>0, <1>1, ListNodes, Zenon
<1>4. CASE mem' = mem /\ (mine' = mine \/ mine' = [mine EXCEPT ![r] = mine[r]])
  <2>1. mine'[r] = mine[r] /\ mem' = mem
    BY <1>t, <1>4, Zenon
  <2> DEFINE d == 0
  <2>2. /\ d \in Nat /\ d < Len(mine[r]) /\ Len(mine'[r]) = Len(mine[r]) - d
        /\ \A i \in 1..Len(mine[r]) - d : mine'[r][i] = mine[r][d + i]
        /\ \A i \in 1..d : mem'[mine[r][i]] # "queued"
    BY <1>3, <2>1
  <2> HIDE DEF d
  <2>3. Listed(k + d)'
    BY <1>0, <1>1, <2>1, <2>2, ListAdvances, Zenon
  <2> QED
    BY <2>2, <2>3, Zenon
<1>5. CASE /\ Len(mine[r]) > 1
           /\ mine' = [mine EXCEPT ![r] = Tail(mine[r])]
           /\ mem' = [mem EXCEPT ![First(r)] = "ok"]
  <2>1. mine'[r] = Tail(mine[r]) /\ L > 1
    BY <1>t, <1>3, <1>5, Zenon
  <2>2. mem'[First(r)] = "ok" /\ \A q \in Reqs : q # First(r) => mem'[q] = mem[q]
    BY <1>t, <1>3, <1>5, Zenon
  <2>3. Len(Tail(mine[r])) = Len(mine[r]) - 1 /\ \A i \in 1..Len(mine[r]) - 1 : Tail(mine[r])[i] = mine[r][i + 1]
    BY <1>3, <1>5, DropFirst, Zenon
  <2> DEFINE d == 1
  <2>4. d \in Nat /\ d < Len(mine[r]) /\ Len(mine'[r]) = Len(mine[r]) - d
    BY <1>3, <2>1, <2>3, Zenon
  <2>5. \A i \in 1..Len(mine[r]) - d : mine'[r][i] = mine[r][d + i]
    <3>1. \A i \in 1..L - 1 : i + 1 = 1 + i
      OBVIOUS
    <3> QED
      BY <1>3, <2>1, <2>3, <3>1, Zenon
  <2>6. \A i \in 1..d : mem'[mine[r][i]] # "queued"
    BY <1>3, <2>2
  <2>7. \A q \in Reqs : mem'[q] = mem[q] \/ \E i \in 1..d : q = mine[r][i]
    BY <1>3, <2>2
  <2> HIDE DEF d
  <2>8. Listed(k + d)'
    BY <1>0, <1>1, <2>4, <2>5, <2>6, <2>7, ListAdvances, Zenon
  <2> QED
    BY <2>4, <2>8, Zenon
<1> QED
  BY <1>2, <1>4, <1>5, Zenon

\* The first nodes are returned, written or failed, and the last one never is.
LEMMA ListReturned ==
    ASSUME IInv, NEW k, Listed(k), NEW r \in Reqs, SingleWriter', NEW d \in Nat, d < Len(mine[r]),
           wpc[r] \notin {"none", "done"}, wpc'[r] \notin {"none", "done", "reverse"},
           Len(mine'[r]) = Len(mine[r]) - d,
           \A i \in 1..Len(mine[r]) - d : mine'[r][i] = mine[r][d + i],
           \A q \in Reqs : q \in Prefix(mine[r], d) => mem'[q] # "queued",
           \A q \in Reqs : q \in Prefix(mine[r], d) \/ mem'[q] = mem[q],
           UNCHANGED <<head, next, prev, order, pc>>
    PROVE  Listed(k + d)'
<1>0. TypeOK /\ ControlInv /\ OrderInv
  BY Zenon DEF IInv
<1>1. Len(mine[r]) \in Nat /\ \A i \in 1..Len(mine[r]) : mine[r][i] \in Reqs
  BY <1>0, ListNodes, Zenon
<1>2. ASSUME NEW i \in 1..d PROVE mem'[mine[r][i]] # "queued"
  <2>1. mine[r][i] \in Reqs /\ mine[r][i] \in Prefix(mine[r], d)
    BY <1>1 DEF Prefix
  <2> QED
    BY <2>1, Zenon
<1>3. \A q \in Reqs : mem'[q] = mem[q] \/ \E i \in 1..d : q = mine[r][i]
  <2>1. \A q \in Reqs : mem'[q] = mem[q] \/ q \in Prefix(mine[r], d)
    BY Zenon
  <2> QED
    BY <2>1, Zenon DEF Prefix
<1> QED
  BY <1>0, <1>2, <1>3, ListAdvances, Zenon

\* Every step keeps the list.
LEMMA ListStep == IInv /\ [Next]_vars => ListInv'
<1> SUFFICES ASSUME IInv, [Next]_vars PROVE ListInv'
  BY Zenon
<1> USE DEF writerVars, connVars, failVars, Goto, Writer
<1>0. TypeOK /\ ControlInv /\ OrderInv
  BY Zenon DEF IInv
<1>t. /\ wpc \in [Reqs -> WriterPCs] /\ mine \in [Reqs -> Seq(Reqs)]
  BY <1>0, Updated, Zenon
<1>s. SingleWriter'
  BY SingleWriterStep, Zenon
<1>1. PICK k \in 0..Len(order) : Listed(k)
  BY Zenon DEF IInv, ListInv, Listed
<1>2. SUFFICES \E x : Listed(x)'
  BY Zenon DEF Listed, ListInv
<1>4. CASE \A r \in Reqs : ~ListStepOf(r)
  <2>1. Quiet
    BY <1>4, QuietSteps, Zenon
  <2>2. \A q \in Reqs : Owns(q)' => Owns(q)
    BY <2>1, Zenon DEF Quiet, Owns
  <2>3. \A i \in 1..Len(order) : order[i] \in Reqs
    BY <1>0, OrderNodes, Zenon
  <2> QED
    BY <1>1, <2>1, <2>2, <2>3, ListKept, Zenon DEF Quiet
<1>5. ASSUME NEW r \in Reqs, Exchange(r) PROVE Listed(k)'
  BY <1>1, <1>5, ListPublished, Zenon
<1>6. ASSUME NEW r \in Reqs, LinkPrev(r) \/ StartWrite(r) PROVE Listed(k)'
  BY <1>1, <1>6, ListLinked, Zenon
<1>7. ASSUME NEW r \in Reqs, WonRight(r) PROVE Listed(k)'
  BY <1>1, <1>7, <1>s, ListWon, Zenon
<1>8. ASSUME NEW r \in Reqs, StartKeepWrite(r) \/ CutPart(r) \/ PostSend(r) \/ PostSendFails(r) \/ CasUnwritten(r)
      PROVE  Listed(k)'
  <2>1. UNCHANGED <<head, next, prev, mem, mine, order, scan, pc>>
    BY <1>8, Zenon DEF StartKeepWrite, CutPart, PostSend, PostSendFails, CasUnwritten
  <2>2. AfterIncomplete(r) \in {"start", "begin", "walk"}
    BY <1>0, Continues, Zenon
  <2>3. /\ wpc[r] \notin {"none", "done"}
        /\ \/ wpc' = wpc \/ wpc' = [wpc EXCEPT ![r] = "begin"] \/ wpc' = [wpc EXCEPT ![r] = "fail"]
           \/ wpc' = [wpc EXCEPT ![r] = "cutDone"] \/ wpc' = [wpc EXCEPT ![r] = AfterIncomplete(r)]
    BY <1>8, Zenon DEF StartKeepWrite, CutPart, PostSend, PostSendFails, CasUnwritten
  <2>4. \A q \in Reqs : /\ wpc'[q] = "reverse" => wpc[q] = "reverse"
                        /\ wpc'[q] \in {"none", "done"} <=> wpc[q] \in {"none", "done"}
    BY <1>t, <2>2, <2>3, Zenon
  <2>5. \A q \in Reqs : Owns(q)' => Owns(q)
    BY <2>1, <2>4, Zenon DEF Owns
  <2> QED
    BY <1>1, <2>1, <2>4, <2>5, ListKept, Zenon
<1>9. ASSUME NEW r \in Reqs, BeginWrite(r) PROVE \E x : Listed(x)'
  BY <1>1, <1>9, <1>s, ListBegun, Zenon
<1>10. ASSUME NEW r \in Reqs, AfterWrite(r) PROVE \E x : Listed(x)'
  <2>1. /\ UNCHANGED <<head, next, prev, order, scan, pc>>
        /\ wpc[r] = "cutDone" /\ wpc'[r] \in {"fail", "complete", "wait"} /\ \A q \in Reqs : q # r => wpc'[q] = wpc[q]
    BY <1>t, <1>10, Zenon DEF AfterWrite
  <2>2. \/ UNCHANGED <<mem, mine>>
        \/ /\ mem' = [q \in Reqs |-> IF q \in Prefix(mine[r], WrittenPrefix(r)) THEN "ok" ELSE mem[q]]
           /\ mine' = [mine EXCEPT ![r] = SubSeq(mine[r], WrittenPrefix(r) + 1, Len(mine[r]))]
    BY <1>10, Zenon DEF AfterWrite
  <2>3. CASE UNCHANGED <<mem, mine>>
    <3>1. \A q \in Reqs : Owns(q)' => Owns(q)
      BY <2>1, Zenon DEF Owns
    <3> QED
      BY <1>1, <2>1, <2>3, <3>1, ListKept, Zenon
  <2>4. CASE /\ mem' = [q \in Reqs |-> IF q \in Prefix(mine[r], WrittenPrefix(r)) THEN "ok" ELSE mem[q]]
             /\ mine' = [mine EXCEPT ![r] = SubSeq(mine[r], WrittenPrefix(r) + 1, Len(mine[r]))]
    <3>1. WrittenPrefix(r) \in 0..Len(mine[r]) - 1 /\ mine[r] \in Seq(Reqs) /\ Len(mine[r]) \in Nat
      BY <1>0, <2>1, WrittenPrefixIs, ListNodes, Zenon
    <3>2. PICK d \in 0..Len(mine[r]) - 1 : d = WrittenPrefix(r)
      BY <3>1, Zenon
    <3> DEFINE rest == SubSeq(mine[r], d + 1, Len(mine[r]))
    <3>3. /\ \A q \in Reqs : q \in Prefix(mine[r], d) => mem'[q] # "queued"
          /\ \A q \in Reqs : q \in Prefix(mine[r], d) \/ mem'[q] = mem[q]
      BY <2>4, <3>2, Zenon
    <3>r. mine'[r] = rest
      BY <1>t, <2>4, <3>2, Zenon
    <3>4. Len(rest) = Len(mine[r]) - d /\ \A i \in 1..Len(mine[r]) - d : rest[i] = mine[r][d + i]
      BY <3>1, DropNodes, Zenon
    <3> HIDE DEF rest
    <3>5. Listed(k + d)'
      <4>1. Len(mine'[r]) = Len(mine[r]) - d /\ \A i \in 1..Len(mine[r]) - d : mine'[r][i] = mine[r][d + i]
        BY <3>r, <3>4, Zenon
      <4>2. wpc[r] \notin {"none", "done"} /\ wpc'[r] \notin {"none", "done", "reverse"}
        BY <2>1, Zenon
      <4>3. UNCHANGED <<head, next, prev, order, pc>>
        BY <2>1, Zenon
      <4>4. d \in Nat /\ d < Len(mine[r])
        BY <3>1, <3>2
      <4> QED
        BY <1>1, <1>s, <3>3, <4>1, <4>2, <4>3, <4>4, ListReturned, Zenon
    <3> QED
      BY <3>5, Zenon
  <2> QED
    BY <2>2, <2>3, <2>4, Zenon
<1>11. ASSUME NEW r \in Reqs, CasNoMore(r) PROVE \E x : Listed(x)'
  BY <1>1, <1>11, ListEmptied, Zenon
<1>12. ASSUME NEW r \in Reqs, CasNewRequests(r) PROVE Listed(k)'
  BY <1>1, <1>12, <1>s, ListScanned, Zenon
<1>13. ASSUME NEW r \in Reqs, ReverseList(r) PROVE Listed(k)'
  BY <1>1, <1>13, <1>s, ListReversed, Zenon
<1>14. ASSUME NEW r \in Reqs, WalkFailed(r) PROVE \E x : Listed(x)'
  <2>1. PICK L \in Nat : L = Len(mine[r]) /\ L > 0 /\ mine[r] \in Seq(Reqs) /\ LastOf(mine[r]) \in Reqs
    BY <1>0, <1>14, ListNodes, Zenon DEF WalkFailed
  <2>d. PICK d \in Nat : d = Len(mine[r]) - 1
    BY <2>1
  <2>2. /\ UNCHANGED <<head, next, prev, order, pc>>
        /\ wpc[r] = "walk" /\ wpc'[r] = "complete" /\ mine'[r] = <<LastOf(mine[r])>>
    BY <1>t, <1>14, Zenon DEF WalkFailed
  <2>m. /\ \A q \in Reqs : q \in Prefix(mine[r], d) => mem'[q] # "queued"
        /\ \A q \in Reqs : q \in Prefix(mine[r], d) \/ mem'[q] = mem[q]
    BY <1>14, <2>d, Zenon DEF WalkFailed
  <2>3. d \in Nat /\ d < Len(mine[r]) /\ Len(mine[r]) - d = 1 /\ d + 1 = Len(mine[r])
    BY <2>1, <2>d
  <2>4. Len(mine'[r]) = 1 /\ mine'[r][1] = mine[r][d + 1]
    BY <2>1, <2>2, <2>3, OneNode, Zenon DEF LastOf
  <2>5. Len(mine'[r]) = Len(mine[r]) - d /\ \A i \in 1..Len(mine[r]) - d : mine'[r][i] = mine[r][d + i]
    BY <2>3, <2>4
  <2>6. Listed(k + d)'
    <3>1. wpc[r] \notin {"none", "done"} /\ wpc'[r] \notin {"none", "done", "reverse"}
      BY <2>2, Zenon
    <3>2. UNCHANGED <<head, next, prev, order, pc>>
      BY <2>2, Zenon
    <3>3. d \in Nat /\ d < Len(mine[r])
      BY <2>3, Zenon
    <3> QED
      BY <1>1, <1>s, <2>m, <2>5, <3>1, <3>2, <3>3, ListReturned, Zenon
  <2> QED
    BY <2>6, Zenon
<1> QED
  BY <1>4, <1>5, <1>6, <1>7, <1>8, <1>9, <1>10, <1>11, <1>12, <1>13, <1>14, Zenon DEF ListStepOf

-----------------------------------------------------------------------------
(* Recycling *)

\* Every step keeps what the last reference leaves behind.
LEMMA RecycleStep == IInv /\ [Next]_vars => RecycleInv'
<1> SUFFICES ASSUME IInv, [Next]_vars, recycled' # "no"
             PROVE  /\ fail' = 4 /\ pending' = NULL
                    /\ \A q \in Reqs : pc'[q] \in {"idle", "done", "refused"}
                    /\ hs' \notin {"running", "take", "failPending"}
                    /\ recycled' # "check_failed"
  BY Zenon DEF RecycleInv
<1> USE DEF writerVars, connVars, failVars, Goto, Writer
<1>0. TypeOK /\ ControlInv /\ SingleWriter /\ RecycleInv
  BY Zenon DEF IInv
<1>1. CASE recycled = "no"
  <2>1. ASSUME NEW r \in Reqs, Producer(r) PROVE recycled' = recycled
    BY <2>1, Zenon DEF Producer, StartWriteRefused, StartWrite, Exchange, LinkPrev, WonRight, CheckHandshake, ConnectFails,
                ConnectStarted, ConnectRollback
  <2>2. ASSUME NEW r \in Reqs, WriterStep(r) PROVE recycled' = recycled
    <3>1. CASE StartKeepWrite(r) \/ BeginWrite(r) \/ CutPart(r) \/ PostSend(r) \/ PostSendFails(r) \/ EndCut(r)
               \/ AfterWrite(r) \/ Waited(r)
      BY <3>1, Zenon DEF StartKeepWrite, BeginWrite, CutPart, PostSend, PostSendFails, EndCut, AfterWrite, Waited
    <3>2. CASE CasNoMore(r) \/ CasUnwritten(r) \/ CasNewRequests(r) \/ ReverseList(r) \/ OnFailedReturns(r)
               \/ WalkFailed(r) \/ FailWrite(r)
      BY <3>2, Zenon DEF CasNoMore, CasUnwritten, CasNewRequests, ReverseList, OnFailedReturns, WalkFailed, FailWrite
    <3> QED
      BY <2>2, <3>1, <3>2, Zenon DEF WriterStep
  <2>3. ASSUME Connection \/ FailedByOthers \/ OnFailed \/ UNCHANGED vars PROVE recycled' = recycled
    BY <2>3, Zenon DEF Connection, OnClientHandshake, HandshakeDone, HandshakeTake, HandshakeFailPending, FailedByOthers,
                OnFailed, vars
  <2>4. ~Recycle
    BY <1>1, Zenon DEF Recycle
  <2>5. BeforeRecycled
    BY <1>1, <2>1, <2>2, <2>3, <2>4, Zenon DEF Next
  <2> QED
    BY <2>5, Zenon DEF BeforeRecycled, Unreferenced
<1>2. CASE recycled # "no"
  <2>0. /\ fail = 4 /\ pending = NULL
        /\ \A q \in Reqs : pc[q] \in {"idle", "done", "refused"}
        /\ hs \notin {"running", "take", "failPending"}
        /\ recycled # "check_failed"
    BY <1>0, <1>2, Zenon DEF RecycleInv
  <2>1. \A r \in Reqs : ~Producer(r)
    BY <1>2, <2>0, Zenon DEF Producer, StartWriteRefused, StartWrite, Exchange, LinkPrev, WonRight, CheckHandshake,
                      ConnectFails, ConnectStarted, ConnectRollback
  <2>2. ~Connection /\ ~FailedByOthers /\ ~OnFailed /\ ~BeforeRecycled
    BY <1>2, <2>0 DEF Connection, OnClientHandshake, HandshakeDone, HandshakeTake, HandshakeFailPending,
                      FailedByOthers, OnFailed, BeforeRecycled
  <2>3. CASE \E r \in Reqs : WriterStep(r)
    <3>1. PICK r \in Reqs : WriterStep(r)
      BY <2>3, Zenon
    <3>2. CASE FailWrite(r)
      BY <2>0, <3>2 DEF FailWrite
    <3>3. CASE StartKeepWrite(r) \/ BeginWrite(r) \/ CutPart(r) \/ PostSend(r) \/ PostSendFails(r) \/ EndCut(r)
               \/ AfterWrite(r) \/ Waited(r)
      <4>1. UNCHANGED <<fail, pending, pc, hs, recycled>>
        BY <3>3, Zenon DEF StartKeepWrite, BeginWrite, CutPart, PostSend, PostSendFails, EndCut, AfterWrite, Waited
      <4> QED
        BY <2>0, <4>1, Zenon
    <3>4. CASE CasNoMore(r) \/ CasUnwritten(r) \/ CasNewRequests(r) \/ ReverseList(r) \/ OnFailedReturns(r) \/ WalkFailed(r)
      <4>1. UNCHANGED <<fail, pending, pc, hs, recycled>>
        BY <3>4, Zenon DEF CasNoMore, CasUnwritten, CasNewRequests, ReverseList, OnFailedReturns, WalkFailed
      <4> QED
        BY <2>0, <4>1, Zenon
    <3> QED
      BY <3>1, <3>2, <3>3, <3>4, Zenon DEF WriterStep
  <2>4. CASE Recycle
    <3>1. \A r \in Reqs : ~Owns(r)
      BY <1>0, <2>0, <2>4, WriteQueueAssumption, Zenon DEF Recycle, Active, Owns, SingleWriter
    <3>2. head = NULL
      BY <1>0, <3>1, Zenon DEF SingleWriter
    <3> QED
      BY <2>0, <2>4, <3>2, Zenon DEF Recycle
  <2>5. CASE UNCHANGED vars
    BY <2>0, <2>5, Zenon DEF vars
  <2> QED
    BY <2>1, <2>2, <2>3, <2>4, <2>5, Zenon DEF Next
<1> QED
  BY <1>1, <1>2, Zenon
=============================================================================
