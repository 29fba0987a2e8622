----------------------------- MODULE WriteQueue -----------------------------
(***************************************************************************)
(* The send queue of FastRdmaEndpoint (src-endpoint/fast_rdma_endpoint.cc, *)
(* StartWrite .. KeepWrite, and the connection steps that hand the right   *)
(* to write over).                                                         *)
(*                                                                         *)
(* Producers publish a WriteRequest by exchanging _write_head and link it  *)
(* to its predecessor afterwards.  Whoever exchanges a null head owns the  *)
(* right to write; it keeps it through the first attempt, the wait for the *)
(* handshake (_pending_keepwrite_req), the KeepWrite thread and the drain  *)
(* after a failure, until its CAS puts the head back to null.              *)
(*                                                                         *)
(* A writer is named by the request with which it won the right: the       *)
(* threads that hold the right one after the other are one writer here.    *)
(* The part of the list a writer has collected is private to it and is the *)
(* sequence mine[r]; only the published, not yet collected nodes keep      *)
(* their next pointer.                                                     *)
(***************************************************************************)
EXTENDS Integers, Sequences, FiniteSets

CONSTANTS
    Reqs,          \* the StartWrite calls, one WriteRequest each
    NParts,        \* the parts of the data of one WriteRequest
    BlockParts,    \* the parts one work request can carry
    NULL, UNCONNECTED,
    PostMayFail    \* TRUE: a work request may fail to be built or posted

ASSUME WriteQueueAssumption ==
    /\ NParts \in Nat \ {0} /\ BlockParts \in Nat \ {0}
    /\ NULL \notin Reqs /\ UNCONNECTED \notin Reqs /\ NULL # UNCONNECTED
    /\ PostMayFail \in BOOLEAN

VARIABLES
    head,      \* _write_head
    next,      \* WriteRequest::next of the nodes that are not collected yet
    left,      \* parts of WriteRequest::data that are not cut yet
    mem,       \* where the request is: unused, queued, returned ok / failed
    pc,        \* the StartWrite call
    prev,      \* its local variable prev
    wpc,       \* the writer: where its thread is
    mode,      \* the writer: "first", "keep" (KeepWrite) or "drain"
    mine,      \* the writer: the collected list, oldest first
    tail,      \* the writer: old_head / cur_tail, NULL if not computed
    wr,        \* the writer: the parts cut into the work request being built
    nw,        \* the writer: sign of what CutFromIOBufList returns, so far
    again,     \* the writer: errno of its thread is EAGAIN
    scan,      \* the writer: [new, p, rev] while it reverses the new nodes
    pending,   \* _pending_keepwrite_req
    hsOk,      \* _handshake_ok
    hs,        \* the connection: none, registered, running, take, failPending, done
    fail,      \* 0 healthy, 1 version failed, 2 _write_error set, 3 _stop set, 4 events unregistered
    errAgain,  \* the error the endpoint failed with is EAGAIN
    recycled,  \* BeforeRecycled: no, draining, done, check_failed
    order,     \* history: the requests in the order of their exchange
    wire       \* history: the parts cut, by request, and what became of their post

writerVars == <<wpc, mode, mine, tail, wr, nw, again, scan>>
connVars == <<pending, hsOk, hs>>
failVars == <<fail, errAgain, recycled>>
vars == <<head, next, left, mem, pc, prev, writerVars, connVars, failVars, order, wire>>

Ptr == Reqs \union {NULL, UNCONNECTED}
NoScan == [new |-> NULL, p |-> NULL, rev |-> <<>>]

StartPCs == {"idle", "exchange", "link", "won", "handshake", "connect", "connectFailed", "done", "refused"}
WriterPCs == {"none", "won", "begin", "post", "cutDone", "wait", "complete", "reverse", "start",
              "pending", "fail", "onFailed", "walk", "done"}

TypeOK ==
    /\ head \in Reqs \union {NULL}
    /\ next \in [Reqs -> Ptr]
    /\ left \in [Reqs -> 0..NParts]
    /\ mem \in [Reqs -> {"unused", "queued", "ok", "failed"}]
    /\ pc \in [Reqs -> StartPCs]
    /\ prev \in [Reqs -> Reqs \union {NULL}]
    /\ wpc \in [Reqs -> WriterPCs]
    /\ mode \in [Reqs -> {"first", "keep", "drain"}]
    /\ mine \in [Reqs -> Seq(Reqs)]
    /\ tail \in [Reqs -> Reqs \union {NULL}]
    /\ wr \in [Reqs -> Seq(Reqs)]
    /\ nw \in [Reqs -> {"negative", "zero", "positive"}]
    /\ again \in [Reqs -> BOOLEAN]
    /\ scan \in [Reqs -> [new : Reqs \union {NULL}, p : Ptr, rev : Seq(Reqs)]]
    /\ pending \in Reqs \union {NULL}
    /\ hsOk \in BOOLEAN
    /\ hs \in {"none", "registered", "running", "take", "failPending", "done"}
    /\ fail \in 0..4
    /\ errAgain \in BOOLEAN
    /\ recycled \in {"no", "draining", "done", "check_failed"}
    /\ order \in Seq(Reqs)
    /\ wire \in Seq([req : Reqs, post : {"sent", "failed", "failedEagain"}])

\* A client whose first write connects it, or an endpoint (of either side)
\* whose handshake is done.
Init ==
    /\ head = NULL
    /\ next = [r \in Reqs |-> NULL]
    /\ left = [r \in Reqs |-> NParts]
    /\ mem = [r \in Reqs |-> "unused"]
    /\ pc = [r \in Reqs |-> "idle"]
    /\ prev = [r \in Reqs |-> NULL]
    /\ wpc = [r \in Reqs |-> "none"]
    /\ mode = [r \in Reqs |-> "first"]
    /\ mine = [r \in Reqs |-> <<>>]
    /\ tail = [r \in Reqs |-> NULL]
    /\ wr = [r \in Reqs |-> <<>>]
    /\ nw = [r \in Reqs |-> "zero"]
    /\ again = [r \in Reqs |-> FALSE]
    /\ scan = [r \in Reqs |-> NoScan]
    /\ pending = NULL
    /\ hsOk \in BOOLEAN
    /\ hs = IF hsOk THEN "done" ELSE "none"
    /\ fail = 0 /\ errAgain = FALSE /\ recycled = "no"
    /\ order = <<>> /\ wire = <<>>

Goto(r, l) == pc' = [pc EXCEPT ![r] = l]
Writer(r, l) == wpc' = [wpc EXCEPT ![r] = l]
First(r) == Head(mine[r])
LastOf(s) == s[Len(s)]

\* Nobody is inside StartWrite, and no thread of the endpoint holds a reference.
Active(r) == wpc[r] \notin {"none", "pending", "done"}
Unreferenced ==
    /\ \A r \in Reqs : pc[r] \in {"idle", "done", "refused"} /\ ~Active(r)
    /\ hs \notin {"running", "take", "failPending"}

-----------------------------------------------------------------------------
(* StartWrite *)

\* Failed() or error() is set, or the object pool is exhausted.
StartWriteRefused(r) ==
    /\ pc[r] = "idle" /\ recycled = "no"
    /\ Goto(r, "refused")
    /\ UNCHANGED <<head, next, left, mem, prev, writerVars, connVars, failVars, order, wire>>

StartWrite(r) ==
    /\ pc[r] = "idle" /\ recycled = "no"
    /\ fail = 0
    /\ next' = [next EXCEPT ![r] = UNCONNECTED]
    /\ Goto(r, "exchange")
    /\ UNCHANGED <<head, left, mem, prev, writerVars, connVars, failVars, order, wire>>

Exchange(r) ==
    /\ pc[r] = "exchange"
    /\ head' = r
    /\ prev' = [prev EXCEPT ![r] = head]
    /\ mem' = [mem EXCEPT ![r] = "queued"]
    /\ order' = Append(order, r)
    /\ Goto(r, IF head = NULL THEN "won" ELSE "link")
    /\ UNCHANGED <<next, left, writerVars, connVars, failVars, wire>>

\* The last access of a losing producer: the consumer may free the node next.
LinkPrev(r) ==
    /\ pc[r] = "link"
    /\ next' = [next EXCEPT ![r] = prev[r]]
    /\ Goto(r, "done")
    /\ UNCHANGED <<head, left, mem, prev, writerVars, connVars, failVars, order, wire>>

\* The winner owns the right to write; a failure may have raced with it.
WonRight(r) ==
    /\ pc[r] = "won"
    /\ next' = [next EXCEPT ![r] = NULL]
    /\ mine' = [mine EXCEPT ![r] = <<r>>]
    /\ IF fail > 0 THEN Goto(r, "done") /\ Writer(r, "fail")
                   ELSE Goto(r, "handshake") /\ Writer(r, "won")
    /\ UNCHANGED <<head, left, mem, prev, mode, tail, wr, nw, again, scan,
                   connVars, failVars, order, wire>>

\* Connected: the caller makes the first attempt itself, with whatever errno
\* its thread has.  Otherwise the request waits for the handshake.
CheckHandshake(r) ==
    /\ pc[r] = "handshake"
    /\ \/ /\ hsOk
          /\ Goto(r, "done") /\ Writer(r, "begin")
          /\ \E e \in BOOLEAN : again' = [again EXCEPT ![r] = e]
          /\ UNCHANGED pending
       \/ /\ ~hsOk
          /\ pending' = r
          /\ Goto(r, "connect") /\ Writer(r, "pending")
          /\ UNCHANGED again
    /\ UNCHANGED <<head, next, left, mem, prev, mode, mine, tail, wr, nw, scan,
                   hsOk, hs, failVars, order, wire>>

-----------------------------------------------------------------------------
(* Connecting: StartAsyncConnect and the handshake thread *)

\* A bad address, a socket error, or RegisterTcpEvent on a failed endpoint.
ConnectFails(r) ==
    /\ pc[r] = "connect"
    /\ Goto(r, "connectFailed")
    /\ UNCHANGED <<head, next, left, mem, prev, writerVars, connVars, failVars, order, wire>>

\* RegisterTcpEvent tests Failed() under connection_mutex_.
ConnectStarted(r) ==
    /\ pc[r] = "connect"
    /\ fail = 0
    /\ hs' = "registered"
    /\ Goto(r, "done")
    /\ UNCHANGED <<head, next, left, mem, prev, writerVars, pending, hsOk, failVars, order, wire>>

\* FailPendingWrite takes the waiting request, if it is still there, and fails it.
TakeAndFail ==
    /\ pending' = NULL
    /\ wpc' = [r \in Reqs |-> IF r = pending THEN "fail" ELSE wpc[r]]

ConnectRollback(r) ==
    /\ pc[r] = "connectFailed"
    /\ TakeAndFail
    /\ Goto(r, "done")
    /\ UNCHANGED <<head, next, left, mem, prev, mode, mine, tail, wr, nw, again, scan,
                   hsOk, hs, failVars, order, wire>>

\* OnClientHandshake addresses the endpoint, so it must not have failed; the
\* connect may have failed, or the handshake thread may not start.
OnClientHandshake ==
    /\ hs = "registered" /\ fail = 0
    /\ hs' \in {"running", "failPending"}
    /\ UNCHANGED <<head, next, left, mem, pc, prev, writerVars, pending, hsOk, failVars, order, wire>>

\* The handshake thread of a client ends.
HandshakeDone ==
    /\ hs = "running"
    /\ \/ fail = 0 /\ hsOk' = TRUE /\ hs' = "take"
       \/ hs' = "failPending" /\ UNCHANGED hsOk
    /\ UNCHANGED <<head, next, left, mem, pc, prev, writerVars, pending, failVars, order, wire>>

\* Mutant: _pending_keepwrite_req is loaded, not exchanged.
HandshakeTakeMutantLoad ==
    /\ hs = "take"
    /\ hs' = "done"
    /\ wpc' = [r \in Reqs |-> IF r = pending THEN "start" ELSE wpc[r]]
    /\ mode' = [r \in Reqs |-> IF r = pending THEN "keep" ELSE mode[r]]
    /\ UNCHANGED <<head, next, left, mem, pc, prev, mine, tail, wr, nw, again, scan,
                   pending, hsOk, failVars, order, wire>>

\* It hands the waiting request to a new KeepWrite thread.
HandshakeTake ==
    /\ hs = "take"
    /\ hs' = "done"
    /\ pending' = NULL
    /\ wpc' = [r \in Reqs |-> IF r = pending THEN "start" ELSE wpc[r]]
    /\ mode' = [r \in Reqs |-> IF r = pending THEN "keep" ELSE mode[r]]
    /\ UNCHANGED <<head, next, left, mem, pc, prev, mine, tail, wr, nw, again, scan,
                   hsOk, failVars, order, wire>>

HandshakeFailPending ==
    /\ hs = "failPending"
    /\ hs' = "done"
    /\ TakeAndFail
    /\ UNCHANGED <<head, next, left, mem, pc, prev, mode, mine, tail, wr, nw, again, scan,
                   hsOk, failVars, order, wire>>

-----------------------------------------------------------------------------
(* KeepWrite and the attempts to write *)

\* StartKeepWrite: the new thread starts with a clean errno and no cur_tail.
StartKeepWrite(r) ==
    /\ wpc[r] = "start" /\ mode[r] = "keep"
    /\ \/ Writer(r, "begin")
       \/ Writer(r, "fail")       \* the thread cannot be created
    /\ again' = [again EXCEPT ![r] = FALSE]
    /\ tail' = [tail EXCEPT ![r] = NULL]
    /\ UNCHANGED <<head, next, left, mem, pc, prev, mode, mine, wr, nw, scan,
                   connVars, failVars, order, wire>>

\* The top of the loop: on a stopped endpoint the writer fails its list;
\* otherwise a first request that is written already is returned, and
\* CutFromIOBufList starts over the list, or fails with the endpoint's error.
BeginWrite(r) ==
    LET skip == mode[r] = "keep" /\ Len(mine[r]) > 1 /\ left[First(r)] = 0
    IN  /\ wpc[r] = "begin"
        /\ \/ /\ mode[r] = "keep" /\ fail >= 3
              /\ Writer(r, "fail")
              /\ UNCHANGED <<mine, mem, nw, again>>
           \/ /\ ~(mode[r] = "keep" /\ fail >= 3)
              /\ mine' = [mine EXCEPT ![r] = IF skip THEN Tail(@) ELSE @]
              /\ mem' = IF skip THEN [mem EXCEPT ![First(r)] = "ok"] ELSE mem
              /\ nw' = [nw EXCEPT ![r] = IF fail = 0 THEN "zero" ELSE "negative"]
              /\ again' = [again EXCEPT ![r] = IF fail = 0 THEN @ ELSE fail >= 2 /\ errAgain]
              /\ Writer(r, IF fail = 0 THEN "post" ELSE "cutDone")
        /\ UNCHANGED <<head, next, left, pc, prev, mode, tail, wr, scan,
                       connVars, failVars, order, wire>>

\* The position of the first request of the list that still has data.
Uncut(r) == {i \in 1..Len(mine[r]) : left[mine[r][i]] > 0}
NextUncut(r) == CHOOSE i \in Uncut(r) : \A j \in Uncut(r) : i <= j

\* The data is moved, part by part, into the work request being built.
CutPart(r) ==
    /\ wpc[r] = "post" /\ Uncut(r) # {} /\ Len(wr[r]) < BlockParts
    /\ LET q == mine[r][NextUncut(r)]
       IN  /\ left' = [left EXCEPT ![q] = @ - 1]
           /\ wr' = [wr EXCEPT ![r] = Append(@, q)]
    /\ UNCHANGED <<head, next, mem, pc, prev, wpc, mode, mine, tail, nw, again, scan,
                   connVars, failVars, order, wire>>

\* The parts of the work request, with what became of them.
Posted(r, outcome) == [i \in 1..Len(wr[r]) |-> [req |-> wr[r][i], post |-> outcome]]

\* It is posted when it is full, has no free sge, or the list is at its end.
PostSend(r) ==
    /\ wpc[r] = "post" /\ wr[r] # <<>>
    /\ wire' = wire \o Posted(r, "sent")
    /\ wr' = [wr EXCEPT ![r] = <<>>]
    /\ nw' = [nw EXCEPT ![r] = "positive"]
    /\ UNCHANGED <<head, next, left, mem, pc, prev, wpc, mode, mine, tail, again, scan,
                   connVars, failVars, order>>

\* Building or posting it fails: -1, and errno is what it was before.
PostSendFails(r) ==
    /\ PostMayFail
    /\ wpc[r] = "post" /\ (wr[r] # <<>> \/ Uncut(r) # {})
    /\ wr' = [wr EXCEPT ![r] = <<>>]
    /\ wire' = wire \o Posted(r, IF again[r] THEN "failedEagain" ELSE "failed")
    /\ nw' = [nw EXCEPT ![r] = "negative"]
    /\ Writer(r, "cutDone")
    /\ UNCHANGED <<head, next, left, mem, pc, prev, mode, mine, tail, again, scan,
                   connVars, failVars, order>>

\* CutFromIOBufList returns what it posted: everything is cut, or a window is
\* exhausted, which is EAGAIN when nothing was posted.
EndCut(r) ==
    /\ wpc[r] = "post" /\ wr[r] = <<>>
    /\ \/ /\ Uncut(r) = {} \/ nw[r] = "positive"
          /\ UNCHANGED <<nw, again>>
       \/ /\ nw[r] = "zero"
          /\ nw' = [nw EXCEPT ![r] = "negative"]
          /\ again' = [again EXCEPT ![r] = TRUE]
    /\ Writer(r, "cutDone")
    /\ UNCHANGED <<head, next, left, mem, pc, prev, mode, mine, tail, wr, scan,
                   connVars, failVars, order, wire>>

\* The requests KeepWrite returns after an attempt: written, and not the last.
WrittenPrefix(r) ==
    CHOOSE k \in 0..Len(mine[r]) - 1 :
        /\ \A i \in 1..k : left[mine[r][i]] = 0
        /\ k = Len(mine[r]) - 1 \/ left[mine[r][k + 1]] > 0

Prefix(s, k) == {s[i] : i \in 1..k}

FatalWrite(r) == nw[r] = "negative" /\ ~again[r]

\* After CutFromIOBufList: a fatal error ends the writer; KeepWrite returns
\* the written requests and waits for the window if nothing was posted.
AfterWrite(r) ==
    /\ wpc[r] = "cutDone"
    /\ \/ /\ FatalWrite(r)
          /\ Writer(r, "fail")
          /\ UNCHANGED <<mem, mine, tail>>
       \/ /\ ~FatalWrite(r) /\ mode[r] = "first"
          /\ tail' = [tail EXCEPT ![r] = First(r)]
          /\ Writer(r, "complete")
          /\ UNCHANGED <<mem, mine>>
       \/ /\ ~FatalWrite(r) /\ mode[r] = "keep"
          /\ LET k == WrittenPrefix(r)
             IN  /\ mem' = [q \in Reqs |-> IF q \in Prefix(mine[r], k) THEN "ok" ELSE mem[q]]
                 /\ mine' = [mine EXCEPT ![r] = SubSeq(@, k + 1, Len(@))]
          /\ Writer(r, IF nw[r] = "positive" THEN "complete" ELSE "wait")
          /\ UNCHANGED tail
    /\ UNCHANGED <<head, next, left, pc, prev, mode, wr, nw, again, scan,
                   connVars, failVars, order, wire>>

\* WaitForWritable returns: woken, timed out, or stopped; errno may be anything.
Waited(r) ==
    /\ wpc[r] = "wait"
    /\ Writer(r, IF fail >= 3 THEN "fail" ELSE "complete")
    /\ \E e \in BOOLEAN : again' = [again EXCEPT ![r] = e]
    /\ UNCHANGED <<head, next, left, mem, pc, prev, mode, mine, tail, wr, nw, scan,
                   connVars, failVars, order, wire>>

-----------------------------------------------------------------------------
(* IsWriteComplete *)

\* The old_head argument: KeepWrite computes cur_tail when it has none.
OldHead(r) == IF tail[r] = NULL THEN LastOf(mine[r]) ELSE tail[r]
Singular(r) == mode[r] = "keep" => First(r) = OldHead(r)

\* Where the caller of IsWriteComplete continues when it returned false.
AfterIncomplete(r) ==
    CASE mode[r] = "first" -> "start" [] mode[r] = "keep" -> "begin" [] mode[r] = "drain" -> "walk"

NextMode(r) == IF mode[r] = "first" THEN "keep" ELSE mode[r]

\* Mutant: the head is stored, not compared and exchanged.
CasNoMoreMutantStore(r) ==
    /\ wpc[r] = "complete"
    /\ left[OldHead(r)] = 0 /\ Singular(r)
    /\ head' = NULL
    /\ mem' = [mem EXCEPT ![First(r)] = IF mode[r] = "drain" THEN "failed" ELSE "ok"]
    /\ mine' = [mine EXCEPT ![r] = <<>>]
    /\ tail' = [tail EXCEPT ![r] = NULL]
    /\ Writer(r, "done")
    /\ UNCHANGED <<next, left, pc, prev, mode, wr, nw, again, scan,
                   connVars, failVars, order, wire>>

\* Mutant: the data that is left does not count.
CasNoMoreMutantUnwritten(r) ==
    /\ wpc[r] = "complete" /\ head = OldHead(r)
    /\ Singular(r)
    /\ head' = NULL
    /\ mem' = [mem EXCEPT ![First(r)] = IF mode[r] = "drain" THEN "failed" ELSE "ok"]
    /\ mine' = [mine EXCEPT ![r] = <<>>]
    /\ tail' = [tail EXCEPT ![r] = NULL]
    /\ Writer(r, "done")
    /\ UNCHANGED <<next, left, pc, prev, mode, wr, nw, again, scan,
                   connVars, failVars, order, wire>>

\* Mutant: the head is reset to the sentinel.
CasNoMoreMutantSentinel(r) ==
    /\ wpc[r] = "complete" /\ head = OldHead(r)
    /\ left[OldHead(r)] = 0 /\ Singular(r)
    /\ head' = UNCONNECTED
    /\ mem' = [mem EXCEPT ![First(r)] = "ok"]
    /\ mine' = [mine EXCEPT ![r] = <<>>]
    /\ tail' = [tail EXCEPT ![r] = NULL]
    /\ Writer(r, "done")
    /\ UNCHANGED <<next, left, pc, prev, mode, wr, nw, again, scan,
                   connVars, failVars, order, wire>>

\* No new request: the head goes back to null when the list is written, which
\* gives the right to write away, and the last request is returned.
CasNoMore(r) ==
    /\ wpc[r] = "complete" /\ head = OldHead(r)
    /\ left[OldHead(r)] = 0 /\ Singular(r)
    /\ head' = NULL
    /\ mem' = [mem EXCEPT ![First(r)] = IF mode[r] = "drain" THEN "failed" ELSE "ok"]
    /\ mine' = [mine EXCEPT ![r] = <<>>]
    /\ tail' = [tail EXCEPT ![r] = NULL]
    /\ Writer(r, "done")
    /\ UNCHANGED <<next, left, pc, prev, mode, wr, nw, again, scan,
                   connVars, failVars, order, wire>>

\* No new request, but data is left: the head stays.
CasUnwritten(r) ==
    /\ wpc[r] = "complete" /\ head = OldHead(r)
    /\ ~(left[OldHead(r)] = 0 /\ Singular(r))
    /\ tail' = [tail EXCEPT ![r] = OldHead(r)]
    /\ Writer(r, AfterIncomplete(r))
    /\ mode' = [mode EXCEPT ![r] = NextMode(r)]
    /\ UNCHANGED <<head, next, left, mem, pc, prev, mine, wr, nw, again, scan,
                   connVars, failVars, order, wire>>

\* New requests have arrived: the CAS fails and the writer scans from the head.
CasNewRequests(r) ==
    /\ wpc[r] = "complete" /\ head # OldHead(r)
    /\ tail' = [tail EXCEPT ![r] = OldHead(r)]
    /\ scan' = [scan EXCEPT ![r] = [new |-> head, p |-> head, rev |-> <<>>]]
    /\ Writer(r, "reverse")
    /\ UNCHANGED <<head, next, left, mem, pc, prev, mode, mine, wr, nw, again,
                   connVars, failVars, order, wire>>

\* Mutant: the nodes are appended as they are met, newest first.
ReverseListMutantNewestFirst(r) ==
    LET p == scan[r].p
        rev == Append(scan[r].rev, p)
        last == next[p] = tail[r]
    IN  /\ wpc[r] = "reverse" /\ next[p] # UNCONNECTED
        /\ mine' = IF last THEN [mine EXCEPT ![r] = @ \o rev] ELSE mine
        /\ tail' = IF last THEN [tail EXCEPT ![r] = LastOf(rev)] ELSE tail
        /\ scan' = [scan EXCEPT ![r] =
                      IF last THEN NoScan ELSE [@ EXCEPT !.p = next[p], !.rev = rev]]
        /\ wpc' = IF last THEN [wpc EXCEPT ![r] = AfterIncomplete(r)] ELSE wpc
        /\ mode' = IF last THEN [mode EXCEPT ![r] = NextMode(r)] ELSE mode
        /\ UNCHANGED <<head, next, left, mem, pc, prev, wr, nw, again,
                       connVars, failVars, order, wire>>

\* Mutant: cur_tail keeps the old tail.
ReverseListMutantStaleTail(r) ==
    LET p == scan[r].p
        rev == <<p>> \o scan[r].rev
        last == next[p] = tail[r]
    IN  /\ wpc[r] = "reverse" /\ next[p] # UNCONNECTED
        /\ mine' = IF last THEN [mine EXCEPT ![r] = @ \o rev] ELSE mine
        /\ scan' = [scan EXCEPT ![r] =
                      IF last THEN NoScan ELSE [@ EXCEPT !.p = next[p], !.rev = rev]]
        /\ wpc' = IF last THEN [wpc EXCEPT ![r] = AfterIncomplete(r)] ELSE wpc
        /\ mode' = IF last THEN [mode EXCEPT ![r] = NextMode(r)] ELSE mode
        /\ UNCHANGED <<head, next, left, mem, pc, prev, tail, wr, nw, again,
                       connVars, failVars, order, wire>>

\* One node is reversed; the writer spins while its producer has not linked it.
\* When the scan reaches old_head the new nodes are appended to the old ones.
ReverseList(r) ==
    LET p == scan[r].p
        rev == <<p>> \o scan[r].rev
        last == next[p] = tail[r]
    IN  /\ wpc[r] = "reverse" /\ next[p] # UNCONNECTED
        /\ mine' = IF last THEN [mine EXCEPT ![r] = @ \o rev] ELSE mine
        /\ tail' = IF last THEN [tail EXCEPT ![r] = scan[r].new] ELSE tail
        /\ scan' = [scan EXCEPT ![r] =
                      IF last THEN NoScan ELSE [@ EXCEPT !.p = next[p], !.rev = rev]]
        /\ wpc' = IF last THEN [wpc EXCEPT ![r] = AfterIncomplete(r)] ELSE wpc
        /\ mode' = IF last THEN [mode EXCEPT ![r] = NextMode(r)] ELSE mode
        /\ UNCHANGED <<head, next, left, mem, pc, prev, wr, nw, again,
                       connVars, failVars, order, wire>>

-----------------------------------------------------------------------------
(* Failure: FailWrite, SetFailed / OnFailed, BeforeRecycled *)

\* FailWrite calls SetFailed; only the first SetFailed runs OnFailed.
FailWrite(r) ==
    /\ wpc[r] = "fail"
    /\ fail' = IF fail = 0 THEN 1 ELSE fail
    /\ IF fail = 0 THEN errAgain' \in BOOLEAN ELSE UNCHANGED errAgain
    /\ Writer(r, IF fail = 0 THEN "onFailed" ELSE "walk")
    /\ mode' = [mode EXCEPT ![r] = "drain"]
    /\ UNCHANGED <<head, next, left, mem, pc, prev, mine, tail, wr, nw, again, scan,
                   connVars, recycled, order, wire>>

\* Another thread fails the endpoint: Close, the CQ poller, the handshake.
FailedByOthers ==
    /\ fail = 0
    /\ fail' = 1
    /\ errAgain' \in BOOLEAN
    /\ UNCHANGED <<head, next, left, mem, pc, prev, writerVars, connVars, recycled, order, wire>>

\* OnFailed: _write_error, _stop, then the registrations under connection_mutex_.
OnFailed ==
    /\ fail \in 1..3
    /\ fail' = fail + 1
    /\ hs' = IF fail = 3 /\ hs = "registered" THEN "done" ELSE hs
    /\ UNCHANGED <<head, next, left, mem, pc, prev, writerVars, pending, hsOk, errAgain, recycled, order, wire>>

OnFailedReturns(r) ==
    /\ wpc[r] = "onFailed" /\ fail = 4
    /\ Writer(r, "walk")
    /\ UNCHANGED <<head, next, left, mem, pc, prev, mode, mine, tail, wr, nw, again, scan,
                   connVars, failVars, order, wire>>

\* Mutant: the last node is returned before the right to write is given up.
WalkFailedMutantAll(r) ==
    LET last == LastOf(mine[r])
    IN  /\ wpc[r] = "walk"
        /\ mem' = [q \in Reqs |-> IF q \in Prefix(mine[r], Len(mine[r])) THEN "failed" ELSE mem[q]]
        /\ mine' = [mine EXCEPT ![r] = <<last>>]
        /\ left' = [left EXCEPT ![last] = 0]
        /\ tail' = [tail EXCEPT ![r] = last]
        /\ Writer(r, "complete")
        /\ UNCHANGED <<head, next, pc, prev, mode, wr, nw, again, scan,
                       connVars, failVars, order, wire>>

\* ReleaseAllFailedWriteRequests: all but the last are returned, its data cleared.
WalkFailed(r) ==
    LET k == Len(mine[r]) - 1
        last == LastOf(mine[r])
    IN  /\ wpc[r] = "walk"
        /\ mem' = [q \in Reqs |-> IF q \in Prefix(mine[r], k) THEN "failed" ELSE mem[q]]
        /\ mine' = [mine EXCEPT ![r] = <<last>>]
        /\ left' = [left EXCEPT ![last] = 0]
        /\ tail' = [tail EXCEPT ![r] = last]
        /\ Writer(r, "complete")
        /\ UNCHANGED <<head, next, pc, prev, mode, wr, nw, again, scan,
                       connVars, failVars, order, wire>>

\* Mutant: a request that waits for the handshake is not drained.
BeforeRecycledMutantNoDrain ==
    /\ recycled = "no" /\ fail = 4 /\ Unreferenced
    /\ recycled' = "draining"
    /\ UNCHANGED <<head, next, left, mem, pc, prev, writerVars, connVars,
                   fail, errAgain, order, wire>>

\* The last reference is gone: a request that still waits for the handshake
\* is drained here, and the queue must be empty afterwards.
BeforeRecycled ==
    /\ recycled = "no" /\ fail = 4 /\ Unreferenced
    /\ recycled' = "draining"
    /\ pending' = NULL
    /\ wpc' = [r \in Reqs |-> IF r = pending THEN "walk" ELSE wpc[r]]
    /\ mode' = [r \in Reqs |-> IF r = pending THEN "drain" ELSE mode[r]]
    /\ UNCHANGED <<head, next, left, mem, pc, prev, mine, tail, wr, nw, again, scan,
                   hsOk, hs, fail, errAgain, order, wire>>

Recycle ==
    /\ recycled = "draining" /\ \A r \in Reqs : ~Active(r)
    /\ recycled' = IF head = NULL THEN "done" ELSE "check_failed"
    /\ UNCHANGED <<head, next, left, mem, pc, prev, writerVars, connVars, fail, errAgain, order, wire>>

-----------------------------------------------------------------------------

Producer(r) ==
    \/ StartWriteRefused(r) \/ StartWrite(r) \/ Exchange(r) \/ LinkPrev(r)
    \/ WonRight(r) \/ CheckHandshake(r)
    \/ ConnectFails(r) \/ ConnectStarted(r) \/ ConnectRollback(r)

WriterStep(r) ==
    \/ StartKeepWrite(r) \/ BeginWrite(r)
    \/ CutPart(r) \/ PostSend(r) \/ PostSendFails(r) \/ EndCut(r) \/ AfterWrite(r) \/ Waited(r)
    \/ CasNoMore(r) \/ CasUnwritten(r) \/ CasNewRequests(r) \/ ReverseList(r)
    \/ FailWrite(r) \/ OnFailedReturns(r) \/ WalkFailed(r)

Connection ==
    \/ OnClientHandshake \/ HandshakeDone \/ HandshakeTake \/ HandshakeFailPending

Next ==
    \/ \E r \in Reqs : Producer(r) \/ WriterStep(r)
    \/ Connection
    \/ FailedByOthers \/ OnFailed \/ BeforeRecycled \/ Recycle

Spec == Init /\ [][Next]_vars

\* Threads that are inside an operation of the endpoint keep running; nobody
\* has to call StartWrite, to fail the endpoint, or to report a connection.
Fairness ==
    /\ \A r \in Reqs :
        /\ WF_vars(pc[r] # "idle" /\ Producer(r))
        /\ WF_vars(WriterStep(r))
    /\ WF_vars(HandshakeDone \/ HandshakeTake \/ HandshakeFailPending)
    /\ WF_vars(OnFailed \/ BeforeRecycled \/ Recycle)

FairSpec == Spec /\ Fairness

-----------------------------------------------------------------------------
(* Properties *)

\* Who holds the right to write.
Owns(r) == pc[r] = "won" \/ wpc[r] \notin {"none", "done"}

\* The right to write has one holder, from the exchange of a null _write_head
\* to the CAS back to null, through the handshake's hand-over and every failure
\* path; a request waits in _pending_keepwrite_req only while nobody else runs it.
SingleWriter ==
    /\ \A r, q \in Reqs : Owns(r) /\ Owns(q) => r = q
    /\ (head # NULL) <=> \E r \in Reqs : Owns(r)
    /\ pending # NULL => wpc[pending] = "pending"
    /\ \A r \in Reqs : wpc[r] = "pending" => pending = r

\* Accepted requests leave the queue in the order of their exchange, none is
\* skipped, and the list a writer has collected is exactly the oldest part of
\* what is still queued: no request is lost when failures race with publication.
NoneLost ==
    LET k == Cardinality({q \in Reqs : mem[q] \in {"ok", "failed"}})
    IN  /\ \A i \in 1..Len(order) : mem[order[i]] = "queued" <=> i > k
        /\ head = IF k = Len(order) THEN NULL ELSE LastOf(order)
        /\ \A r \in Reqs : Owns(r) =>
              /\ k + Len(mine[r]) <= Len(order)
              /\ mine[r] = SubSeq(order, k + 1, k + Len(mine[r]))

\* No thread touches a request that went back to the object pool: not the
\* producer that still links its own node, not the writer in its list, in the
\* nodes it reverses, or in _pending_keepwrite_req.
SafeMemory ==
    /\ \A r \in Reqs : pc[r] \in {"link", "won", "handshake"} => mem[r] = "queued"
    /\ \A r \in Reqs : Owns(r) =>
          /\ \A i \in 1..Len(mine[r]) : mem[mine[r][i]] = "queued"
          /\ wpc[r] = "reverse" => mem[scan[r].p] = "queued"

\* IsWriteComplete's CHECKs: old_head is the last node of the collected list
\* (the cached cur_tail never goes stale), the nodes above it end at it, and
\* BeforeRecycled finds the queue empty.
ChecksHold ==
    /\ \A r \in Reqs : wpc[r] = "complete" => OldHead(r) = LastOf(mine[r])
    /\ \A r \in Reqs : wpc[r] = "reverse" => next[scan[r].p] # NULL
    /\ recycled # "check_failed"

\* The parts go out in the order in which their requests were exchanged.
Position(q) == CHOOSE i \in 1..Len(order) : order[i] = q
InOrder == \A i, j \in 1..Len(wire) : i < j => Position(wire[i].req) <= Position(wire[j].req)

\* The places of the parts of a request on the wire.
PartsOf(q) == {i \in 1..Len(wire) : wire[i].req = q}

\* A request is returned as successful only when every part of it was posted.
OkMeansSent ==
    \A q \in Reqs : mem[q] = "ok" =>
        /\ Cardinality(PartsOf(q)) = NParts
        /\ \A i \in PartsOf(q) : wire[i].post = "sent"

\* A request is returned as successful only when every part of it was cut and
\* posted, once, also over several rounds and writers; and a post that fails, unless
\* EAGAIN was in errno before, fails every request of which it carried a part.
FailedPostsShow ==
    \A q \in Reqs : mem[q] = "ok" =>
        /\ Cardinality(PartsOf(q)) = NParts
        /\ \A i \in PartsOf(q) : wire[i].post # "failed"

\* Once the endpoint has failed, every writer ends, every accepted request is
\* returned, and the endpoint is recycled.
FailureDrains == fail > 0 ~> recycled = "done"
=============================================================================
