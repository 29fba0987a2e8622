--------------------------------- MODULE Rpc ---------------------------------
(***************************************************************************)
(* Calls over one connection: FastChannel (src-endpoint/fast_channel.cc),  *)
(* FastServer's request side (fast_server.cc), MessageDispatcher           *)
(* (message_dispatcher.cc) and the large transfers of FastRdmaEndpoint.    *)
(*                                                                         *)
(* The processes are one thread per call, the handler threads the          *)
(* dispatcher detaches, one per frame and in no order, the threads that    *)
(* return responses, the two pollers and the threads that fail an          *)
(* endpoint.  A large frame travels as NOTIFY, AUTHORITY and an RDMA write *)
(* into a block the receiver has allocated.                                *)
(***************************************************************************)
EXTENDS Integers, FiniteSets

CONSTANTS
    Calls,               \* rpc ids
    RpcShapes,           \* the pairs <<calls with a large request, with a large response>>
    kMaxLargeTransfers   \* bound of active_large_transfers_

Sides == {"channel", "server"}
Other(s) == IF s = "channel" THEN "server" ELSE "channel"
Nobody == "nobody"

ASSUME RpcAssumption == Nobody \notin Calls /\ kMaxLargeTransfers \in Nat \ {0}
                        /\ RpcShapes \subseteq (SUBSET Calls) \X (SUBSET Calls)

VARIABLES
    reqLarge, respLarge,   \* the calls whose request, response is at least msg_threshold
    up,                    \* per side: the endpoint has not failed
    failing,               \* per side: where its failure handler is
    connection_error, closed,          \* FastChannel: a failure was recorded; closed_
    pending_map, done, outcome,        \* the pending requests
    call,                  \* where the thread of a call is, in CallMethod
    reply,                 \* where the thread of its response is, in ReturnRPCResponse
    largeLock,             \* per side: who holds large_mutex_ between a test and its wait
    slots,                 \* per side: active_large_transfers_
    frames,                \* per side: pending_large_frames_
    blocks,                \* per side: pending_large_map_
    net,                   \* per side: the frames sent to it and not handled
    writes,                \* per side: its RDMA writes in flight
    sent                   \* per side: its RDMA writes whose completion is not polled

Frame == [type : {"NORMAL", "NOTIFY", "AUTHORITY", "RESPONSE", "INSERT"}, rpc : Calls, ok : BOOLEAN]

callVars == <<pending_map, done, outcome, call>>
failureVars == <<up, failing, connection_error, closed>>
largeVars == <<largeLock, slots, frames, blocks, writes, sent>>
rpcVars == <<reqLarge, respLarge, callVars, failureVars, largeVars, reply, net>>

RpcTypeOK ==
    /\ up \in [Sides -> BOOLEAN] /\ failing \in [Sides -> {"no", "lock", "scan", "over"}]
    /\ connection_error \in BOOLEAN /\ closed \in BOOLEAN
    /\ pending_map \subseteq Calls /\ done \in [Calls -> BOOLEAN]
    /\ outcome \in [Calls -> {"none", "ok", "error", "timeout", "transport"}]
    /\ call \in [Calls -> {"start", "register", "send", "test", "decided", "blocked", "abort",
                           "notify", "wait", "cleanup", "returned"}]
    /\ reply \in [Calls -> {"none", "test", "decided", "blocked", "notify", "over"}]
    /\ largeLock \in [Sides -> Calls \cup {Nobody}] /\ slots \in [Sides -> Nat]
    /\ frames \in [Sides -> SUBSET Calls] /\ blocks \in [Sides -> SUBSET Calls]
    /\ writes \in [Sides -> SUBSET Calls] /\ sent \in [Sides -> SUBSET Calls]
    /\ net \in [Sides -> SUBSET Frame]

RpcInit ==
    /\ \E shape \in RpcShapes : reqLarge = shape[1] /\ respLarge = shape[2]
    /\ up = [s \in Sides |-> TRUE] /\ failing = [s \in Sides |-> "no"]
    /\ connection_error = FALSE /\ closed = FALSE
    /\ pending_map = {} /\ done = [r \in Calls |-> FALSE] /\ outcome = [r \in Calls |-> "none"]
    /\ call = [r \in Calls |-> "start"] /\ reply = [r \in Calls |-> "none"]
    /\ largeLock = [s \in Sides |-> Nobody] /\ slots = [s \in Sides |-> 0]
    /\ frames = [s \in Sides |-> {}] /\ blocks = [s \in Sides |-> {}]
    /\ writes = [s \in Sides |-> {}] /\ sent = [s \in Sides |-> {}]
    /\ net = [s \in Sides |-> {}]

-----------------------------------------------------------------------------
(* Sending *)

Msg(type, r, ok) == [type |-> type, rpc |-> r, ok |-> ok]

\* StartWrite from one side: queued for the peer unless the endpoint has failed.
StartWriteFrame(s, m) ==
    net' = [net EXCEPT ![Other(s)] = IF up[s] THEN @ \cup {m} ELSE @]

-----------------------------------------------------------------------------
(* FastChannel::CallMethod *)

CallGoto(r, to) == call' = [call EXCEPT ![r] = to]

\* Address of the endpoint.
CallBegin(r) ==
    /\ call[r] = "start"
    /\ IF up["channel"]
       THEN CallGoto(r, "register") /\ UNCHANGED outcome
       ELSE CallGoto(r, "returned") /\ outcome' = [outcome EXCEPT ![r] = "transport"]
    /\ UNCHANGED <<reqLarge, respLarge, pending_map, done, failureVars, largeVars, reply, net>>

\* RegisterPending, under pending_mutex_.
RegisterPending(r) ==
    /\ call[r] = "register"
    /\ IF ~connection_error
       THEN /\ pending_map' = pending_map \cup {r}
            /\ CallGoto(r, IF r \in reqLarge THEN "test" ELSE "send")
            /\ UNCHANGED outcome
       ELSE /\ outcome' = [outcome EXCEPT ![r] = "transport"]
            /\ CallGoto(r, "returned") /\ UNCHANGED pending_map
    /\ UNCHANGED <<reqLarge, respLarge, done, failureVars, largeVars, reply, net>>

\* The request fits in the control channel; a refused write ends the call.
CallSend(r) ==
    /\ call[r] = "send"
    /\ StartWriteFrame("channel", Msg("NORMAL", r, TRUE))
    /\ IF up["channel"]
       THEN CallGoto(r, "wait") /\ UNCHANGED <<pending_map, outcome>>
       ELSE /\ pending_map' = pending_map \ {r} /\ CallGoto(r, "returned")
            /\ outcome' = [outcome EXCEPT ![r] = "transport"]
    /\ UNCHANGED <<reqLarge, respLarge, done, failureVars, largeVars, reply>>

CanStartLargeTransfer(s) == slots[s] < kMaxLargeTransfers

\* Mutant: a transfer starts without being counted.
StartLargeTransferMutant(s) == UNCHANGED slots

StartLargeTransfer(s) == slots' = [slots EXCEPT ![s] = @ + 1]

\* WaitForLargeWritable, the test under large_mutex_: closed, a slot, or a wait
\* (which keeps the mutex until the thread sleeps).
CallTest(r) ==
    /\ call[r] = "test" /\ largeLock["channel"] = Nobody
    /\ IF closed
       THEN CallGoto(r, "abort") /\ UNCHANGED <<slots, largeLock>>
       ELSE IF CanStartLargeTransfer("channel")
            THEN /\ StartLargeTransfer("channel")
                 /\ CallGoto(r, "notify") /\ UNCHANGED largeLock
            ELSE /\ largeLock' = [largeLock EXCEPT !["channel"] = r]
                 /\ CallGoto(r, "decided") /\ UNCHANGED slots
    /\ UNCHANGED <<reqLarge, respLarge, pending_map, done, outcome, failureVars, frames, blocks,
                   writes, sent, reply, net>>

CallSleep(r) ==
    /\ call[r] = "decided"
    /\ CallGoto(r, "blocked") /\ largeLock' = [largeLock EXCEPT !["channel"] = Nobody]
    /\ UNCHANGED <<reqLarge, respLarge, pending_map, done, outcome, failureVars, slots, frames, blocks,
                   writes, sent, reply, net>>

\* Mutant: a call that finds the connection closed leaves its pending request behind.
AbortMutant(r) == UNCHANGED pending_map

\* pending_map_.erase(rpc_id)
Abort(r) == pending_map' = pending_map \ {r}

CallAbort(r) ==
    /\ call[r] = "abort"
    /\ Abort(r) /\ CallGoto(r, "returned")
    /\ outcome' = [outcome EXCEPT ![r] = "transport"]
    /\ UNCHANGED <<reqLarge, respLarge, done, failureVars, largeVars, reply, net>>

\* StoreLargeFrame, and the notification; a refused write only fails the endpoint,
\* which has failed already.
CallNotify(r) ==
    /\ call[r] = "notify"
    /\ frames' = [frames EXCEPT !["channel"] = @ \cup {r}]
    /\ StartWriteFrame("channel", Msg("NOTIFY", r, TRUE))
    /\ CallGoto(r, "wait")
    /\ UNCHANGED <<reqLarge, respLarge, pending_map, done, outcome, failureVars, largeLock, slots,
                   blocks, writes, sent, reply>>

\* pending.cv.wait_for ends: done, or one minute is over.
CallDone(r) ==
    /\ call[r] = "wait" /\ done[r] /\ CallGoto(r, "cleanup")
    /\ UNCHANGED <<reqLarge, respLarge, pending_map, done, outcome, failureVars, largeVars, reply, net>>

CallTimeout(r) ==
    /\ call[r] = "wait" /\ ~done[r]
    /\ done' = [done EXCEPT ![r] = TRUE] /\ outcome' = [outcome EXCEPT ![r] = "timeout"]
    /\ CallGoto(r, "cleanup")
    /\ UNCHANGED <<reqLarge, respLarge, pending_map, failureVars, largeVars, reply, net>>

\* Mutant: a call that ends takes its large frame with it.
CleanupFramesMutant(r) == frames' = [frames EXCEPT !["channel"] = @ \ {r}]

\* The frame stays until the completion of its write.
CleanupFrames(r) == UNCHANGED frames

CallCleanup(r) ==
    /\ call[r] = "cleanup"
    /\ pending_map' = pending_map \ {r} /\ CallGoto(r, "returned")
    /\ CleanupFrames(r)
    /\ UNCHANGED <<reqLarge, respLarge, done, outcome, failureVars, largeLock, slots, blocks,
                   writes, sent, reply, net>>

-----------------------------------------------------------------------------
(* Handler threads *)

\* A frame leaves the network and its handler runs: OnProcessRequest at the
\* server, OnProcessResponse at the channel.
Take(s, m) == net' = [net EXCEPT ![s] = @ \ {m}]

\* NOTIFY: a block is allocated and its receive posted, the authority is sent,
\* and only then is the block entered in pending_large_map_.
HandleNotify(s, m) ==
    /\ m \in net[s] /\ m.type = "NOTIFY" /\ up[s]
    /\ net' = [net EXCEPT ![s] = (@ \ {m}) \cup {Msg("INSERT", m.rpc, TRUE)},
                          ![Other(s)] = @ \cup {Msg("AUTHORITY", m.rpc, TRUE)}]
    /\ UNCHANGED <<reqLarge, respLarge, callVars, failureVars, largeVars, reply>>

HandleNotifyNoBlock(s, m) ==
    /\ m \in net[s] /\ m.type = "NOTIFY"
    /\ Take(s, m)
    /\ UNCHANGED <<reqLarge, respLarge, callVars, failureVars, largeVars, reply>>

HandleNotifyInsert(s, m) ==
    /\ m \in net[s] /\ m.type = "INSERT"
    /\ blocks' = [blocks EXCEPT ![s] = @ \cup {m.rpc}]
    /\ Take(s, m)
    /\ UNCHANGED <<reqLarge, respLarge, callVars, failureVars, largeLock, slots, frames, writes, sent,
                   reply>>

\* OnLargeTransferComplete: the count drops and, without the mutex, all threads
\* asleep on large_cv_ are woken.
LargeTransferComplete(s) ==
    /\ slots' = [slots EXCEPT ![s] = @ - 1]
    /\ IF s = "channel"
       THEN /\ call' = [r \in Calls |-> IF call[r] = "blocked" THEN "test" ELSE call[r]]
            /\ UNCHANGED reply
       ELSE /\ reply' = [r \in Calls |-> IF reply[r] = "blocked" THEN "test" ELSE reply[r]]
            /\ UNCHANGED call

\* AUTHORITY: the stored frame, if there is one, is written (CutSegFromIOBuf); when
\* that fails the frame and its slot are given up.
HandleAuthority(s, m, posts) ==
    /\ m \in net[s] /\ m.type = "AUTHORITY"
    /\ Take(s, m)
    /\ IF m.rpc \notin frames[s] \/ (posts /\ up[s])
       THEN /\ writes' = [writes EXCEPT ![s] = @ \cup (frames[s] \cap {m.rpc})]
            /\ UNCHANGED <<frames, slots, call, reply>>
       ELSE /\ frames' = [frames EXCEPT ![s] = @ \ {m.rpc}]
            /\ LargeTransferComplete(s) /\ UNCHANGED writes
    /\ UNCHANGED <<reqLarge, respLarge, pending_map, done, outcome, failureVars, largeLock, blocks,
                   sent>>

\* NORMAL at the server: refused on a failed endpoint; an error is answered at
\* once (SendErrorResponse); else the service runs and ReturnRPCResponse begins.
HandleRequest(m, ok) ==
    /\ m \in net["server"] /\ m.type = "NORMAL"
    /\ net' = [net EXCEPT !["server"] = @ \ {m},
                          !["channel"] = IF up["server"] /\ (~ok \/ m.rpc \notin respLarge)
                                         THEN @ \cup {Msg("RESPONSE", m.rpc, ok)} ELSE @]
    /\ IF up["server"] /\ ok /\ m.rpc \in respLarge
       THEN /\ frames' = [frames EXCEPT !["server"] = @ \cup {m.rpc}]
            /\ reply' = [reply EXCEPT ![m.rpc] = "test"]
       ELSE UNCHANGED <<frames, reply>>
    /\ UNCHANGED <<reqLarge, respLarge, callVars, failureVars, largeLock, slots, blocks, writes, sent>>

\* Mutant: a response overwrites the outcome of a call that is done.
StillPendingMutant(r) == r \in pending_map

\* Found in pending_map_, and neither failed, timed out nor answered.
StillPending(r) == r \in pending_map /\ ~done[r]

\* RESPONSE at the channel, under pending_mutex_ and the request's mutex: the
\* first outcome wins.
HandleResponse(m) ==
    /\ m \in net["channel"] /\ m.type = "RESPONSE"
    /\ Take("channel", m)
    /\ IF StillPending(m.rpc)
       THEN /\ done' = [done EXCEPT ![m.rpc] = TRUE]
            /\ outcome' = [outcome EXCEPT ![m.rpc] = IF m.ok THEN "ok" ELSE "error"]
       ELSE UNCHANGED <<done, outcome>>
    /\ UNCHANGED <<reqLarge, respLarge, pending_map, call, failureVars, largeVars, reply>>

-----------------------------------------------------------------------------
(* ReturnRPCResponse of a large response: WaitForLargeWritable of the server *)

ReplyTest(r) ==
    /\ reply[r] = "test" /\ largeLock["server"] = Nobody
    /\ IF ~up["server"]
       THEN reply' = [reply EXCEPT ![r] = "over"] /\ UNCHANGED <<slots, largeLock>>
       ELSE IF CanStartLargeTransfer("server")
            THEN /\ StartLargeTransfer("server")
                 /\ reply' = [reply EXCEPT ![r] = "notify"] /\ UNCHANGED largeLock
            ELSE /\ largeLock' = [largeLock EXCEPT !["server"] = r]
                 /\ reply' = [reply EXCEPT ![r] = "decided"] /\ UNCHANGED slots
    /\ UNCHANGED <<reqLarge, respLarge, callVars, failureVars, frames, blocks, writes, sent, net>>

ReplySleep(r) ==
    /\ reply[r] = "decided"
    /\ reply' = [reply EXCEPT ![r] = "blocked"]
    /\ largeLock' = [largeLock EXCEPT !["server"] = Nobody]
    /\ UNCHANGED <<reqLarge, respLarge, callVars, failureVars, slots, frames, blocks, writes, sent, net>>

ReplyNotify(r) ==
    /\ reply[r] = "notify"
    /\ StartWriteFrame("server", Msg("NOTIFY", r, TRUE))
    /\ reply' = [reply EXCEPT ![r] = "over"]
    /\ UNCHANGED <<reqLarge, respLarge, callVars, failureVars, largeVars>>

-----------------------------------------------------------------------------
(* The pollers: the data completion queues in PollCq *)

\* An RDMA write of s arrives: the block is found in pending_large_map_ and its
\* contents dispatched as a frame, or it is not there and the frame is lost.
WriteArrives(s, r) ==
    LET p == Other(s)
        m == Msg(IF s = "channel" THEN "NORMAL" ELSE "RESPONSE", r, TRUE)
    IN  /\ r \in writes[s]
        /\ writes' = [writes EXCEPT ![s] = @ \ {r}]
        /\ sent' = [sent EXCEPT ![s] = @ \cup {r}]
        /\ IF up[p] /\ r \in blocks[p]
           THEN /\ blocks' = [blocks EXCEPT ![p] = @ \ {r}]
                /\ net' = [net EXCEPT ![p] = @ \cup {m}]
           ELSE UNCHANGED <<blocks, net>>
        /\ UNCHANGED <<reqLarge, respLarge, callVars, failureVars, largeLock, slots, frames, reply>>

\* data_send_cq_: ReleaseLargeFrame and OnLargeTransferComplete.
WriteCompletes(s, r) ==
    /\ r \in sent[s] /\ up[s]
    /\ sent' = [sent EXCEPT ![s] = @ \ {r}]
    /\ frames' = [frames EXCEPT ![s] = @ \ {r}]
    /\ LargeTransferComplete(s)
    /\ UNCHANGED <<reqLarge, respLarge, pending_map, done, outcome, failureVars, largeLock, blocks,
                   writes, net>>

-----------------------------------------------------------------------------
(* Failure *)

\* SetFailed: Address and StartWrite refuse from now on.
Fail(s) ==
    /\ up[s]
    /\ up' = [up EXCEPT ![s] = FALSE] /\ failing' = [failing EXCEPT ![s] = "lock"]
    /\ UNCHANGED <<reqLarge, respLarge, connection_error, closed, callVars, largeVars, reply, net>>

\* A frame sent to an endpoint that has failed is never handled.
Lose(s, m) ==
    /\ ~up[s] /\ m \in net[s] /\ Take(s, m)
    /\ UNCHANGED <<reqLarge, respLarge, callVars, failureVars, largeVars, reply>>

\* Mutant: OnEndpointFailed does not wake the calls that wait for a slot.
ChannelFailedMutant ==
    /\ failing["channel"] = "lock" /\ largeLock["channel"] = Nobody
    /\ closed' = TRUE /\ failing' = [failing EXCEPT !["channel"] = "scan"]
    /\ UNCHANGED <<reqLarge, respLarge, up, connection_error, callVars, largeVars, reply, net>>

\* OnEndpointFailed, first part: closed_ under large_mutex_, and notify_all.
ChannelFailed ==
    /\ failing["channel"] = "lock" /\ largeLock["channel"] = Nobody
    /\ closed' = TRUE /\ failing' = [failing EXCEPT !["channel"] = "scan"]
    /\ call' = [r \in Calls |-> IF call[r] = "blocked" THEN "test" ELSE call[r]]
    /\ UNCHANGED <<reqLarge, respLarge, up, connection_error, pending_map, done, outcome, largeVars,
                   reply, net>>

\* Second part, under pending_mutex_: every pending request fails.
ChannelFailPending ==
    /\ failing["channel"] = "scan"
    /\ connection_error' = TRUE /\ failing' = [failing EXCEPT !["channel"] = "over"]
    /\ outcome' = [r \in Calls |-> IF r \in pending_map /\ ~done[r] THEN "transport" ELSE outcome[r]]
    /\ done' = [r \in Calls |-> done[r] \/ r \in pending_map]
    /\ UNCHANGED <<reqLarge, respLarge, up, closed, pending_map, call, largeVars, reply, net>>

\* NotifyEndpointFailed of the server.
ServerFailed ==
    /\ failing["server"] = "lock" /\ largeLock["server"] = Nobody
    /\ failing' = [failing EXCEPT !["server"] = "over"]
    /\ reply' = [r \in Calls |-> IF reply[r] = "blocked" THEN "test" ELSE reply[r]]
    /\ UNCHANGED <<reqLarge, respLarge, up, connection_error, closed, callVars, largeVars, net>>

-----------------------------------------------------------------------------
CallStep(r) ==
    \/ RegisterPending(r) \/ CallSend(r) \/ CallTest(r) \/ CallSleep(r) \/ CallAbort(r)
    \/ CallNotify(r) \/ CallDone(r) \/ CallCleanup(r)

ReplyStep(r) == ReplyTest(r) \/ ReplySleep(r) \/ ReplyNotify(r)

HandlerStep(s, m) ==
    \/ HandleNotify(s, m) \/ HandleNotifyNoBlock(s, m) \/ HandleNotifyInsert(s, m)
    \/ \E b \in BOOLEAN : HandleAuthority(s, m, b) \/ HandleRequest(m, b)
    \/ HandleResponse(m)

FailStep == ChannelFailed \/ ChannelFailPending \/ ServerFailed

RpcNext ==
    \/ \E r \in Calls : CallBegin(r) \/ CallTimeout(r) \/ CallStep(r) \/ ReplyStep(r)
    \/ \E s \in Sides : \/ Fail(s)
                        \/ \E m \in net[s] : HandlerStep(s, m) \/ Lose(s, m)
                        \/ \E r \in Calls : WriteArrives(s, r) \/ WriteCompletes(s, r)
    \/ FailStep

\* Every thread that can run does; nothing is said of timeouts, of the network or
\* of the peer.
RpcFairness ==
    /\ WF_rpcVars(FailStep)
    /\ \A r \in Calls : WF_rpcVars(CallStep(r)) /\ WF_rpcVars(ReplyStep(r))

RpcSpec == RpcInit /\ [][RpcNext]_rpcVars /\ RpcFairness

-----------------------------------------------------------------------------
(* Properties *)

\* pending_map_ holds addresses of requests on the callers' stacks: an entry, which
\* a handler or OnEndpointFailed may follow at any time, belongs to a call that
\* has not returned.
PendingAlive == \A r \in pending_map : call[r] \notin {"start", "returned"}

\* A large frame is kept as long as the hardware may read it: from the RDMA write
\* to its completion, even when its call has timed out; and an end has at most
\* kMaxLargeTransfers transfers, no fewer than its writes.
LargeTransfersSafe ==
    \A s \in Sides : /\ writes[s] \cup sent[s] \subseteq frames[s]
                     /\ slots[s] <= kMaxLargeTransfers
                     /\ Cardinality(writes[s] \cup sent[s]) <= slots[s]

\* A call has one outcome: of a response, a timeout and a failure that race for
\* it the first wins, and what it was given when it was done does not change.
OutcomeFinal ==
    [][\A r \in Calls : done[r] => done'[r] /\ outcome'[r] = outcome[r]]_rpcVars

\* The failure of the channel's endpoint ends every call that has begun, without
\* the help of its timeout: one that registers, waits for a slot or for a response
\* while OnEndpointFailed runs included.
FailureEndsCalls ==
    ~up["channel"] ~> \A r \in Calls : call[r] \in {"start", "returned"}
=============================================================================
