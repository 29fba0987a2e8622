----------------------------- MODULE FlowControl -----------------------------
(***************************************************************************)
(* The windows, credits and buffer rings of two connected endpoints        *)
(* (src-endpoint/fast_rdma_endpoint.cc: CutFromIOBufList, WaitForWritable, *)
(* HandleCompletion, PostRecv, SendAck, SendImm).                          *)
(*                                                                         *)
(* Each end has one writer, which posts data, and one poller, which        *)
(* handles completions and posts pure acknowledgements.  The queue pairs   *)
(* deliver in order, and a message needs a posted receive at the peer:     *)
(* rnr_retry is 0, so a message that finds none breaks the connection.     *)
(***************************************************************************)
EXTENDS Integers, Sequences, FiniteSets

CONSTANTS
    QpSize,      \* sq_size_ and rq_size_ of both ends
    FlowLoads,   \* bound: how many data messages each end may have to send
    ListEnds,    \* which of them are the last of a list given to CutFromIOBufList
    FaultLoads,  \* bound: the loads under which calls fail,
    MaxFaults    \* and how many do

Ends == {"client", "server"}

ASSUME FlowControlAssumption ==
    /\ QpSize \in Nat /\ QpSize > 3            \* kMinQpSize is 16
    /\ FlowLoads \subseteq [Ends -> Nat] /\ ListEnds \subseteq Nat
    /\ FaultLoads \subseteq FlowLoads /\ MaxFaults \in Nat

Peer(e) == IF e = "client" THEN "server" ELSE "client"

VARIABLES
    sq_window_size, remote_rq_window_size,   \* the two windows of a writer
    sq_imm_window_size,                      \* slots left for pure acknowledgements
    new_rq_wrs,                              \* credits not yet sent to the peer
    unsignaled, unsolicited, accumulated_ack,
    sbuf, sq_current, sq_sent,               \* the ring of send buffers: slots in use
    rq_received,                             \* the ring of receive buffers
    sq,          \* the send queue: work requests whose completion was not polled
    executed,    \* how many of them the hardware has executed
    postedRecv,  \* the posted receive buffers, oldest first
    recvCq,      \* receive completions not yet polled
    cutting,     \* the writer is inside the loop of CutFromIOBufList
    waiting,     \* the writer is blocked in WaitForWritable
    load, sent,  \* the data messages to post, and those posted so far
    dropped,     \* data messages cut from the list whose post failed
    unposted,    \* history: receives that failed to be posted, which was not noticed
    faults,      \* the calls that failed so far
    lastSolicited, \* history: the last message posted was solicited
    credited,    \* history: the acks in the immediates polled so far
    flowFailed,  \* the endpoint has failed
    rnr          \* a message found no posted receive

windowVars == <<sq_window_size, remote_rq_window_size, sq_imm_window_size, new_rq_wrs>>
ringVars == <<unsignaled, unsolicited, accumulated_ack, sbuf, sq_current, sq_sent>>
sendVars == <<ringVars, cutting, waiting, sent, dropped>>
hwVars == <<sq, executed, postedRecv, recvCq, rnr>>
flowVars == <<windowVars, sendVars, rq_received, hwVars, lastSolicited, credited,
                   flowFailed, load, unposted, faults>>

RESERVED_WR_NUM == 3

\* The handshake: min(sq_size_, remote.rq_size) - RESERVED_WR_NUM, and its mirror.
Capacity == QpSize - RESERVED_WR_NUM

\* What the hardware carries for an immediate: its four bytes, most significant
\* first, read as an integer by a little-endian host.
htonl(n) == (n % 256) * 2^24 + ((n \div 2^8) % 256) * 2^16
            + ((n \div 2^16) % 256) * 2^8 + ((n \div 2^24) % 256)

\* ntohs takes a uint16_t: the low half of its argument, bytes swapped.
ntohs(x) == (x % 256) * 256 + ((x \div 256) % 256)

\* A posted send; credits repeats, for the history, what its immediate encodes.
WorkRequest == [data : BOOLEAN, imm : Nat, credits : Nat, wr_id : Nat, signaled : BOOLEAN,
                slot : 0..Capacity - 1]

FlowTypeOK ==
    /\ sq_window_size \in [Ends -> Nat] /\ remote_rq_window_size \in [Ends -> Nat]
    /\ sq_imm_window_size \in [Ends -> 0..RESERVED_WR_NUM]
    /\ new_rq_wrs \in [Ends -> Nat]
    /\ unsignaled \in [Ends -> Nat] /\ unsolicited \in [Ends -> Nat]
    /\ accumulated_ack \in [Ends -> Nat]
    /\ sbuf \in [Ends -> SUBSET (0..Capacity - 1)]
    /\ sq_current \in [Ends -> 0..Capacity - 1] /\ sq_sent \in [Ends -> 0..Capacity - 1]
    /\ rq_received \in [Ends -> 0..QpSize - 1]
    /\ \A e \in Ends : /\ \A i \in DOMAIN sq[e] : sq[e][i] \in WorkRequest
                       /\ executed[e] \in 0..Len(sq[e])
                       /\ \A i \in DOMAIN postedRecv[e] : postedRecv[e][i] \in 0..QpSize - 1
    /\ cutting \in [Ends -> BOOLEAN] /\ waiting \in [Ends -> BOOLEAN]
    /\ load \in FlowLoads /\ sent \in [Ends -> Nat] /\ credited \in [Ends -> Nat]
    /\ dropped \in [Ends -> Nat] /\ unposted \in [Ends -> Nat] /\ faults \in 0..MaxFaults
    /\ lastSolicited \in [Ends -> BOOLEAN]
    /\ flowFailed \in [Ends -> BOOLEAN] /\ rnr \in BOOLEAN

\* After the handshake: BringUpQp has posted rq_size_ receives, none of which failed, and
\* PostRecv has counted them as credits.
FlowInit ==
    /\ sq_window_size = [e \in Ends |-> Capacity]
    /\ remote_rq_window_size = [e \in Ends |-> Capacity]
    /\ sq_imm_window_size = [e \in Ends |-> RESERVED_WR_NUM]
    /\ new_rq_wrs = [e \in Ends |-> QpSize]
    /\ unsignaled = [e \in Ends |-> 0] /\ unsolicited = [e \in Ends |-> 0]
    /\ accumulated_ack = [e \in Ends |-> 0]
    /\ sbuf = [e \in Ends |-> {}]
    /\ sq_current = [e \in Ends |-> 0] /\ sq_sent = [e \in Ends |-> 0]
    /\ rq_received = [e \in Ends |-> 0]
    /\ sq = [e \in Ends |-> <<>>] /\ executed = [e \in Ends |-> 0]
    /\ postedRecv = [e \in Ends |-> [i \in 1..QpSize |-> i - 1]]
    /\ recvCq = [e \in Ends |-> <<>>]
    /\ cutting = [e \in Ends |-> FALSE] /\ waiting = [e \in Ends |-> FALSE]
    /\ load \in FlowLoads /\ sent = [e \in Ends |-> 0] /\ credited = [e \in Ends |-> 0]
    /\ dropped = [e \in Ends |-> 0] /\ unposted = [e \in Ends |-> 0] /\ faults = 0
    /\ lastSolicited = [e \in Ends |-> TRUE]
    /\ flowFailed = [e \in Ends |-> FALSE] /\ rnr = FALSE

-----------------------------------------------------------------------------
(* The hardware *)

\* The oldest work request reaches the peer and consumes a receive.
Deliver(e) ==
    LET m == sq[e][executed[e] + 1]
        p == Peer(e)
    IN  /\ executed[e] < Len(sq[e]) /\ ~rnr
        /\ IF postedRecv[p] = <<>>
           THEN rnr' = TRUE /\ UNCHANGED <<executed, postedRecv, recvCq>>
           ELSE /\ executed' = [executed EXCEPT ![e] = @ + 1]
                /\ recvCq' = [recvCq EXCEPT ![p] =
                       Append(@, [data |-> m.data, imm |-> m.imm, credits |-> m.credits,
                                  buf |-> Head(postedRecv[p])])]
                /\ postedRecv' = [postedRecv EXCEPT ![p] = Tail(@)]
                /\ UNCHANGED rnr
        /\ UNCHANGED <<windowVars, sendVars, rq_received, sq, lastSolicited, credited, flowFailed, load,
                       unposted, faults>>

-----------------------------------------------------------------------------
(* The writer *)

IsWritable(e) == sq_window_size[e] > 0 /\ remote_rq_window_size[e] > 0

\* Mutant: the window of the peer's receive queue is not charged.
ChargeRemoteMutant(w) == w

\* remote_rq_window_size_.fetch_sub(1)
ChargeRemote(w) == w - 1

\* Mutant: the last message of a list is not solicited.
SolicitedMutant(e, last) ==
    \/ remote_rq_window_size[e] = 1 \/ sq_window_size[e] = 1
    \/ unsolicited[e] > Capacity \div 4 \/ accumulated_ack[e] > Capacity \div 4

\* The peer gets an event for the last message a list or a window allows, and
\* now and then in between.
Solicited(e, last) ==
    \/ remote_rq_window_size[e] = 1 \/ sq_window_size[e] = 1 \/ last
    \/ unsolicited[e] > Capacity \div 4 \/ accumulated_ack[e] > Capacity \div 4

\* Mutant: the index of the ring of send buffers does not wrap.
NextSlotMutant(i) == i + 1

\* The ring of send buffers wraps.
NextSlot(i) == (i + 1) % Capacity

\* A call that the code expects to succeed fails.
CanFail == load \in FaultLoads /\ faults < MaxFaults
Fault == CanFail /\ faults' = faults + 1

ToCut(e) == sent[e] + dropped[e] < load[e]
LastCut(e) == sent[e] + dropped[e] + 1 \in ListEnds \cup {load[e]}
SignaledCut(e) == unsignaled[e] + 1 >= Capacity \div 4

\* One round of the loop of CutFromIOBufList, up to ibv_post_send: a work request is
\* filled, with the credits, and its data moves to the current send buffer.  What a
\* round reads of the windows can only have grown in the meantime.
FillRequest(e) ==
    LET sol == Solicited(e, LastCut(e)) IN
    /\ ~flowFailed[e] /\ ~waiting[e] /\ IsWritable(e) /\ ToCut(e)
    /\ new_rq_wrs' = [new_rq_wrs EXCEPT ![e] = 0]
    /\ unsolicited' = [unsolicited EXCEPT ![e] = IF sol THEN 0 ELSE @ + 1]
    /\ accumulated_ack' = [accumulated_ack EXCEPT ![e] = IF sol THEN 0 ELSE @ + new_rq_wrs[e]]
    /\ unsignaled' = [unsignaled EXCEPT ![e] = IF SignaledCut(e) THEN 0 ELSE @ + 1]
    /\ sbuf' = [sbuf EXCEPT ![e] = @ \cup {sq_current[e]}]

\* The request is posted and charged to both windows.
CutFromIOBufList(e) ==
    LET imm == new_rq_wrs[e]
        sig == SignaledCut(e)
    IN  /\ FillRequest(e)
        /\ sq' = [sq EXCEPT ![e] = Append(@,
               [data |-> TRUE, imm |-> htonl(imm), credits |-> imm, signaled |-> sig,
                wr_id |-> IF sig THEN unsignaled[e] + 1 ELSE 0, slot |-> sq_current[e]])]
        /\ sq_current' = [sq_current EXCEPT ![e] = NextSlot(@)]
        /\ remote_rq_window_size' = [remote_rq_window_size EXCEPT ![e] = ChargeRemote(@)]
        /\ sq_window_size' = [sq_window_size EXCEPT ![e] = @ - 1]
        /\ sent' = [sent EXCEPT ![e] = @ + 1]
        /\ lastSolicited' = [lastSolicited EXCEPT ![e] = Solicited(e, LastCut(e))]
        /\ cutting' = [cutting EXCEPT ![e] = ~LastCut(e)]
        /\ UNCHANGED <<sq_imm_window_size, sq_sent, waiting, rq_received, executed, postedRecv,
                       recvCq, rnr, credited, flowFailed, load, dropped, unposted, faults>>

\* CutFromIOBufList returns -1.  The writer fails the endpoint for it, unless the
\* thread's errno, which the failed post leaves alone, happens to be EAGAIN.
CutReturnsError(e) ==
    /\ Fault
    /\ dropped' = [dropped EXCEPT ![e] = @ + 1]
    /\ cutting' = [cutting EXCEPT ![e] = FALSE]
    /\ \E eagain \in BOOLEAN : flowFailed' = [flowFailed EXCEPT ![e] = ~eagain]
    /\ UNCHANGED <<sq_window_size, remote_rq_window_size, sq_imm_window_size, sq_current, sq_sent,
                   waiting, sent, rq_received, hwVars, lastSolicited, credited, load, unposted>>

\* ibv_post_send fails: the credits are gone and the counters have moved, but neither
\* the ring nor the windows have.
PostSendFails(e) == FillRequest(e) /\ CutReturnsError(e)

\* A block of the list is not in registered memory: cut_into_sglist_and_iobuf fails, after
\* the blocks before it have moved to the send buffer.
CutFails(e) ==
    /\ ~flowFailed[e] /\ ~waiting[e] /\ IsWritable(e) /\ ToCut(e)
    /\ \E moved \in SUBSET {sq_current[e]} : sbuf' = [sbuf EXCEPT ![e] = @ \cup moved]
    /\ CutReturnsError(e)
    /\ UNCHANGED <<new_rq_wrs, unsignaled, unsolicited, accumulated_ack>>

\* A window is exhausted: the loop ends, and the writer, with data left, blocks.
WaitForWritable(e) ==
    /\ ~flowFailed[e] /\ ~waiting[e] /\ ToCut(e) /\ ~IsWritable(e)
    /\ cutting' = [cutting EXCEPT ![e] = FALSE]
    /\ waiting' = [waiting EXCEPT ![e] = TRUE]
    /\ UNCHANGED <<windowVars, ringVars, sent, dropped, rq_received, hwVars, lastSolicited, credited,
                   flowFailed, load, unposted, faults>>

\* The 50 ms of the wait are over.
WaitTimeout(e) ==
    /\ waiting[e]
    /\ waiting' = [waiting EXCEPT ![e] = FALSE]
    /\ UNCHANGED <<windowVars, ringVars, cutting, sent, dropped, rq_received, hwVars, lastSolicited,
                   credited, flowFailed, load, unposted, faults>>

-----------------------------------------------------------------------------
(* The poller *)

\* SendAck with SendImm: the credits, enough of them and with a slot for a pure
\* acknowledgement, leave in one.  posted is the send queue the caller has left.  When
\* the post fails the credits are gone, and no caller looks at the result.
SendAck(e, credits, slots, posted, fails) ==
    LET now == credits > Capacity \div 2 /\ slots > 0
        leaves == now /\ ~fails
        ack == [data |-> FALSE, imm |-> htonl(credits), credits |-> credits, signaled |-> TRUE,
                wr_id |-> 0, slot |-> 0]
    IN  /\ fails => now
        /\ new_rq_wrs' = [new_rq_wrs EXCEPT ![e] = IF now THEN 0 ELSE credits]
        /\ sq_imm_window_size' = [sq_imm_window_size EXCEPT ![e] =
               IF leaves THEN slots - 1 ELSE slots]
        /\ sq' = [sq EXCEPT ![e] = IF leaves THEN Append(posted, ack) ELSE posted]
        /\ lastSolicited' = [lastSolicited EXCEPT ![e] = leaves \/ @]

\* The executed work requests that asked for a completion.
Completed(e) == {i \in 1..executed[e] : sq[e][i].signaled}

\* Mutant: one slot more than was sent is released.
ReleasedMutant(e, n) == {(sq_sent[e] + i) % Capacity : i \in 0..n}

\* The ring slots a completed batch of n sends releases.
Released(e, n) == {(sq_sent[e] + i) % Capacity : i \in 0..n - 1}

\* HandleCompletion, IBV_WC_SEND: the poller takes the oldest send completion;
\* the hardware retires its work request and the unsignaled ones before it.
HandleSend(e, fails) ==
    /\ (fails /\ Fault) \/ (~fails /\ UNCHANGED faults)
    /\ ~flowFailed[e] /\ Completed(e) # {}
    /\ LET k  == CHOOSE i \in Completed(e) : \A j \in Completed(e) : i <= j
           wr == sq[e][k]
           rest == SubSeq(sq[e], k + 1, Len(sq[e]))
       IN  /\ executed' = [executed EXCEPT ![e] = @ - k]
           /\ IF wr.wr_id = 0
              THEN /\ SendAck(e, new_rq_wrs[e], sq_imm_window_size[e] + 1, rest, fails)
                   /\ UNCHANGED <<sbuf, sq_sent, sq_window_size, waiting>>
              ELSE /\ ~fails
                   /\ sbuf' = [sbuf EXCEPT ![e] = @ \ Released(e, wr.wr_id)]
                   /\ sq_sent' = [sq_sent EXCEPT ![e] = (@ + wr.wr_id) % Capacity]
                   /\ sq_window_size' = [sq_window_size EXCEPT ![e] = @ + wr.wr_id]
                   /\ waiting' = [waiting EXCEPT ![e] =
                          @ /\ remote_rq_window_size[e] < Capacity \div 8]
                   /\ sq' = [sq EXCEPT ![e] = rest]
                   /\ UNCHANGED <<new_rq_wrs, sq_imm_window_size, lastSolicited>>
    /\ UNCHANGED <<remote_rq_window_size, unsignaled, unsolicited, accumulated_ack, sq_current,
                   cutting, sent, dropped, rq_received, postedRecv, recvCq, rnr, credited, flowFailed,
                   load, unposted>>

\* Mutant: the ring of receive buffers does not advance past a message that was copied.
NextReceiveMutant(i, data) == IF data THEN (i + 1) % QpSize ELSE i

\* PostRecv: the ring of receive buffers wraps.
NextReceive(i, data) == (i + 1) % QpSize

\* HandleCompletion, IBV_WC_RECV, up to PostRecv: the credits of the immediate open the
\* window.
TakeReceive(e) ==
    LET m == Head(recvCq[e])
        acks == IF m.imm > 0 THEN ntohs(m.imm) ELSE 0
        wakes == /\ m.imm > 0 /\ sq_window_size[e] > 0
                 /\ \/ remote_rq_window_size[e] >= Capacity \div 8
                    \/ acks >= Capacity \div 8
    IN  /\ ~flowFailed[e] /\ recvCq[e] # <<>>
        /\ remote_rq_window_size' = [remote_rq_window_size EXCEPT ![e] = @ + acks]
        /\ credited' = [credited EXCEPT ![e] = @ + m.credits]
        /\ waiting' = [waiting EXCEPT ![e] = @ /\ ~wakes]
        /\ recvCq' = [recvCq EXCEPT ![e] = Tail(@)]
        /\ UNCHANGED <<sq_window_size, ringVars, cutting, sent, dropped, executed, rnr, load>>

\* PostRecv has posted the buffer again, or has not noticed that it did not: it tests for
\* a negative result, and ibv_post_recv returns a positive one.  The credit is counted,
\* and a data message earns one more.
CountReceive(e, fails) ==
    LET m == Head(recvCq[e]) IN
    /\ rq_received' = [rq_received EXCEPT ![e] = NextReceive(@, m.data)]
    /\ UNCHANGED flowFailed
    /\ IF m.data
       THEN SendAck(e, new_rq_wrs[e] + 2, sq_imm_window_size[e], sq[e], fails)
       ELSE /\ ~fails
            /\ new_rq_wrs' = [new_rq_wrs EXCEPT ![e] = @ + 1]
            /\ UNCHANGED <<sq_imm_window_size, sq, lastSolicited>>

HandleRecv(e, fails) ==
    /\ (fails /\ Fault) \/ (~fails /\ UNCHANGED faults)
    /\ TakeReceive(e) /\ CountReceive(e, fails)
    /\ postedRecv' = [postedRecv EXCEPT ![e] = Append(@, rq_received[e])]
    /\ UNCHANGED unposted

HandleRecvUnposted(e) ==
    /\ Fault /\ TakeReceive(e) /\ CountReceive(e, FALSE)
    /\ unposted' = [unposted EXCEPT ![e] = @ + 1]
    /\ UNCHANGED postedRecv

\* There is no memory for a new receive buffer: PostRecv returns -1, and the poller fails
\* the endpoint.
HandleRecvNoBlock(e) ==
    /\ TakeReceive(e) /\ Fault
    /\ flowFailed' = [flowFailed EXCEPT ![e] = TRUE]
    /\ UNCHANGED <<postedRecv, rq_received, new_rq_wrs, sq_imm_window_size, sq, lastSolicited, unposted>>

-----------------------------------------------------------------------------
FlowNext ==
    \E e \in Ends :
        \/ Deliver(e)
        \/ CutFromIOBufList(e) \/ PostSendFails(e) \/ CutFails(e)
        \/ WaitForWritable(e) \/ WaitTimeout(e)
        \/ \E fails \in BOOLEAN : HandleSend(e, fails) \/ HandleRecv(e, fails)
        \/ HandleRecvUnposted(e) \/ HandleRecvNoBlock(e)

FlowSpec == FlowInit /\ [][FlowNext]_flowVars

-----------------------------------------------------------------------------
(* Properties *)

\* No call of e failed that the code goes on after: a post of data that passed for an
\* exhausted window, or of a receive that passed for a success (PostRecv looks for a negative
\* code where ibv_post_recv returns a positive one; "post_recv 返回非零即失败，不能只检查负数",
\* docs/works/bthread/large-rpc-multi-write-analysis.md:75, asks for the change).
NoneMissed(e) == dropped[e] = 0 /\ unposted[e] = 0

\* The work requests whose completion was not polled fit in the send queue, data
\* and pure acknowledgements together, so ibv_post_send never finds it full.
SendQueueFits == \A e \in Ends : Len(sq[e]) <= QpSize

\* A send buffer is released (HandleCompletion) only when the hardware is done
\* with it, and the ring never gives one buffer to two messages in flight, unless a failed
\* post passed for an exhausted window: its request was counted in sq_unsignaled_, and a
\* later completion releases one buffer more than was sent.
SendBuffersHeld ==
    \A e \in Ends :
        LET inFlight == {i \in executed[e] + 1..Len(sq[e]) : sq[e][i].data}
        IN  NoneMissed(e) =>
            /\ \A i \in inFlight : sq[e][i].slot \in sbuf[e]
            /\ \A i, j \in inFlight : i # j => sq[e][i].slot # sq[e][j].slot
            /\ sq_window_size[e] > 0 => sq_current[e] \notin sbuf[e]

\* HandleCompletion reads the buffer at rq_received_: it is the one the hardware
\* wrote the polled message to, however receives of data and of pure
\* acknowledgements follow each other, unless a receive was not posted unnoticed.
ReceiveBufferMatches ==
    \A e \in Ends : ~flowFailed[e] /\ NoneMissed(e) /\ recvCq[e] # <<>> =>
        Head(recvCq[e]).buf = rq_received[e]

\* When CutFromIOBufList has returned, its list sent or a window exhausted, the
\* last message posted was solicited: the peer's poller is told of everything.  When a
\* later message of the list could not be posted, it may not be.
NoSilentTail ==
    \A e \in Ends : NoneMissed(e) /\ (~cutting[e] \/ ~IsWritable(e)) => lastSolicited[e]

\* "remote_rq_window_size_ : post_send -1, recv WC imm_data +acks"
\* (docs/works/spec/phase1-rdmaendpoint.md:532): the window is its capacity less
\* the data sent plus the credits the peer put in the immediates polled so far.
WindowTracks ==
    \A e \in Ends : remote_rq_window_size[e] = Capacity - sent[e] + credited[e]
=============================================================================
