------------------------------- MODULE Connect -------------------------------
(***************************************************************************)
(* Accepting, shaking hands and closing: FastServer (src-endpoint/         *)
(* fast_server.cc), the EventDispatcher thread (event_dispatcher.cc) and   *)
(* the handshakes of FastRdmaEndpoint (fast_rdma_endpoint.cc).             *)
(*                                                                         *)
(* The processes are the dispatcher thread, which runs every callback, one *)
(* detached handshake thread per connection, the peer of each connection,  *)
(* and the thread that closes the server.  An endpoint lives until its     *)
(* last reference is dropped (module VersionedRef); here its references    *)
(* are the set of their holders.                                           *)
(***************************************************************************)
EXTENDS Integers, Sequences, FiniteSets

CONSTANT Conns    \* the connections; each gets an endpoint of its own

VARIABLES
    tcp,         \* per connection: "none", "backlog", "open" or "reset"
    toServer, toClient,                    \* the bytes in flight, as messages
    client,       \* the peer: "idle", "read", "ok" or "gone"
    clientUp,     \* the peer's queue pairs are ready
    edge,         \* epoll has an unreported edge: "listener" or a connection
    batch,        \* the events epoll_wait returned and the loop has not dispatched
    dispatcher,   \* where the dispatcher thread is: [pc, conn, hup, saw]
    listenReg,    \* the listener's IOEventData: "live" or "failed"
    listener_recycled,
    life,         \* per endpoint: "none", "alive", "failed" or "recycled"
    refs,         \* who holds a reference to it
    tcpReg,       \* its tcp_registration_: "none", "live" or "gone"
    fd,           \* its tcp_fd_: "none", "open" or "closed"
    qpUp,         \* its queue pairs are ready and its receives posted
    handshake_ok,
    worker,       \* its handshake thread: where it is
    endpoints, stopping,                   \* FastServer::endpoints_, stopping_
    closer,       \* where Close() is
    closeIds      \* the endpoints Close() still has to fail

peerVars == <<tcp, toServer, toClient, client, clientUp>>
loopVars == <<edge, batch, dispatcher, listenReg, listener_recycled>>
lifeVars == <<life, refs, tcpReg, fd, endpoints>>
serverVars == <<stopping, closer, closeIds>>
connectVars == <<peerVars, loopVars, lifeVars, qpUp, handshake_ok, worker, serverVars>>

Idle == [pc |-> "wait", conn |-> "none", hup |-> FALSE, saw |-> FALSE]

ConnectTypeOK ==
    /\ tcp \in [Conns -> {"none", "backlog", "open", "reset"}]
    /\ client \in [Conns -> {"idle", "read", "ok", "gone"}]
    /\ clientUp \in [Conns -> BOOLEAN] /\ qpUp \in [Conns -> BOOLEAN]
    /\ edge \subseteq Conns \cup {"listener"} /\ batch \subseteq Conns \cup {"listener"}
    /\ dispatcher.pc \in {"wait", "accept", "added", "register", "callback"}
    /\ listenReg \in {"live", "failed"} /\ listener_recycled \in BOOLEAN
    /\ life \in [Conns -> {"none", "alive", "failed", "recycled"}]
    /\ refs \in [Conns -> SUBSET {"creator", "accept", "callback", "worker"}]
    /\ tcpReg \in [Conns -> {"none", "live", "gone"}]
    /\ fd \in [Conns -> {"none", "open", "closed"}]
    /\ handshake_ok \in [Conns -> BOOLEAN] /\ stopping \in BOOLEAN
    /\ worker \in [Conns -> {"none", "read", "up", "write", "ack", "good", "bad", "goodEnd", "badEnd", "end"}]
    /\ closer \in {"open", "unregister", "wait", "fail", "drain", "done"}

ConnectInit ==
    /\ tcp = [c \in Conns |-> "none"] /\ client = [c \in Conns |-> "idle"]
    /\ toServer = [c \in Conns |-> <<>>] /\ toClient = [c \in Conns |-> <<>>]
    /\ clientUp = [c \in Conns |-> FALSE] /\ qpUp = [c \in Conns |-> FALSE]
    /\ edge = {} /\ batch = {} /\ dispatcher = Idle
    /\ listenReg = "live" /\ listener_recycled = FALSE
    /\ life = [c \in Conns |-> "none"] /\ refs = [c \in Conns |-> {}]
    /\ tcpReg = [c \in Conns |-> "none"] /\ fd = [c \in Conns |-> "none"]
    /\ handshake_ok = [c \in Conns |-> FALSE] /\ worker = [c \in Conns |-> "none"]
    /\ endpoints = {} /\ stopping = FALSE /\ closer = "open" /\ closeIds = {}

-----------------------------------------------------------------------------
(* Endpoints *)

\* SetFailed (when fails) and the release of the references in drops.  The first
\* SetFailed runs OnFailed, which unregisters the TCP event, and gives the
\* creator's reference back; the last release runs BeforeRecycled, which closes
\* the descriptor and then tells the server (OnEndpointRecycled).
Settle(c, fails, drops) ==
    LET left == refs[c] \ (drops \cup IF fails THEN {"creator"} ELSE {})
        gone == left = {}
    IN  /\ life' = [life EXCEPT ![c] =
               CASE gone -> "recycled" [] fails /\ ~gone -> "failed" [] OTHER -> @]
        /\ refs' = [refs EXCEPT ![c] = left]
        /\ tcpReg' = [tcpReg EXCEPT ![c] = IF fails \/ gone THEN "gone" ELSE @]
        /\ fd' = [fd EXCEPT ![c] = IF gone THEN "closed" ELSE @]
        /\ endpoints' = IF gone THEN endpoints \ {c} ELSE endpoints

Failed(c) == life[c] = "failed"

-----------------------------------------------------------------------------
(* The peer of a connection (ProcessHandshakeAtClient), silent or gone at any time *)

PeerConnects(c) ==
    /\ tcp[c] = "none" /\ listenReg = "live"
    /\ tcp' = [tcp EXCEPT ![c] = "backlog"]
    /\ edge' = edge \cup {"listener"}
    /\ UNCHANGED <<toServer, toClient, client, clientUp, batch, dispatcher, listenReg,
                   listener_recycled, lifeVars, qpUp, handshake_ok, worker, serverVars>>

\* An edge for a registered descriptor.
Arrival(c) == IF tcpReg[c] = "live" THEN edge \cup {c} ELSE edge

\* The hello: HelloNegotiationValid accepts it or not.
PeerHello(c, hello) ==
    /\ tcp[c] \in {"backlog", "open"} /\ client[c] = "idle"
    /\ toServer' = [toServer EXCEPT ![c] = Append(@, hello)]
    /\ client' = [client EXCEPT ![c] = "read"]
    /\ edge' = Arrival(c)
    /\ UNCHANGED <<tcp, toClient, clientUp, batch, dispatcher, listenReg, listener_recycled,
                   lifeVars, qpUp, handshake_ok, worker, serverVars>>

\* The server's hello has arrived: the queue pairs are brought up, the ack sent.
PeerUp(c) ==
    /\ tcp[c] = "open" /\ client[c] = "read" /\ toClient[c] # <<>>
    /\ toClient' = [toClient EXCEPT ![c] = Tail(@)]
    /\ clientUp' = [clientUp EXCEPT ![c] = TRUE]
    /\ toServer' = [toServer EXCEPT ![c] = Append(@, "ack")]
    /\ client' = [client EXCEPT ![c] = "ok"]
    /\ edge' = Arrival(c)
    /\ UNCHANGED <<tcp, batch, dispatcher, listenReg, listener_recycled,
                   lifeVars, qpUp, handshake_ok, worker, serverVars>>

PeerGone(c) ==
    /\ tcp[c] \in {"backlog", "open"} /\ client[c] # "gone"
    /\ tcp' = [tcp EXCEPT ![c] = IF @ = "open" THEN "reset" ELSE @]
    /\ client' = [client EXCEPT ![c] = "gone"]
    /\ edge' = Arrival(c)
    /\ UNCHANGED <<toServer, toClient, clientUp, batch, dispatcher, listenReg, listener_recycled,
                   lifeVars, qpUp, handshake_ok, worker, serverVars>>

-----------------------------------------------------------------------------
(* The dispatcher thread: RunEpollLoop *)

EpollWait ==
    /\ dispatcher.pc = "wait" /\ batch = {} /\ edge # {}
    /\ batch' = edge /\ edge' = {}
    /\ UNCHANGED <<peerVars, dispatcher, listenReg, listener_recycled, lifeVars, qpUp,
                   handshake_ok, worker, serverVars>>

\* Dispatch of the listener's event: Address of its IOEventData fails once it is
\* unregistered.
DispatchListener ==
    /\ dispatcher.pc = "wait" /\ "listener" \in batch
    /\ batch' = batch \ {"listener"}
    /\ dispatcher' = IF listenReg = "live" THEN [Idle EXCEPT !.pc = "accept"] ELSE Idle
    /\ UNCHANGED <<peerVars, edge, listenReg, listener_recycled, lifeVars, qpUp,
                   handshake_ok, worker, serverVars>>

\* The accept callback returns and drops its reference to the IOEventData: the
\* last one runs on_recycled.
AcceptReturns ==
    /\ dispatcher' = Idle
    /\ listener_recycled' = (listener_recycled \/ listenReg = "failed")

\* OnServerAccept: accept4 finds nothing, and the callback returns.
AcceptNone ==
    /\ dispatcher.pc = "accept" /\ \A c \in Conns : tcp[c] # "backlog"
    /\ AcceptReturns
    /\ UNCHANGED <<peerVars, edge, batch, listenReg, lifeVars, qpUp, handshake_ok, worker, serverVars>>

\* accept4 returns a connection, and no endpoint can be created for it.
AcceptCreateFails(c) ==
    /\ dispatcher.pc = "accept" /\ tcp[c] = "backlog"
    /\ tcp' = [tcp EXCEPT ![c] = "reset"]
    /\ fd' = [fd EXCEPT ![c] = "closed"]
    /\ AcceptReturns
    /\ UNCHANGED <<toServer, toClient, client, clientUp, edge, batch, listenReg, life, refs, tcpReg,
                   endpoints, qpUp, handshake_ok, worker, serverVars>>

\* accept4, Create, Address and the locked part of AddEndpoint.
Accept(c) ==
    /\ dispatcher.pc = "accept" /\ tcp[c] = "backlog"
    /\ tcp' = [tcp EXCEPT ![c] = IF client[c] = "gone" THEN "reset" ELSE "open"]
    /\ fd' = [fd EXCEPT ![c] = "open"]
    /\ life' = [life EXCEPT ![c] = "alive"]
    /\ refs' = [refs EXCEPT ![c] = {"creator", "accept"}]
    /\ endpoints' = endpoints \cup {c}
    /\ dispatcher' = [Idle EXCEPT !.pc = "added", !.conn = c, !.saw = stopping]
    /\ UNCHANGED <<toServer, toClient, client, clientUp, edge, batch, listenReg, listener_recycled,
                   tcpReg, qpUp, handshake_ok, worker, serverVars>>

\* The rest of AddEndpoint: a server that is stopping fails the endpoint, and the
\* callback returns.
AcceptStopping ==
    /\ dispatcher.pc = "added" /\ (dispatcher.saw \/ Failed(dispatcher.conn))
    /\ Settle(dispatcher.conn, dispatcher.saw, {"accept"})
    /\ AcceptReturns
    /\ UNCHANGED <<peerVars, edge, batch, listenReg, qpUp, handshake_ok, worker, serverVars>>

AcceptAlive ==
    /\ dispatcher.pc = "added" /\ ~dispatcher.saw /\ ~Failed(dispatcher.conn)
    /\ dispatcher' = [dispatcher EXCEPT !.pc = "register"]
    /\ UNCHANGED <<peerVars, edge, batch, listenReg, listener_recycled, lifeVars, qpUp,
                   handshake_ok, worker, serverVars>>

\* RegisterTcpEvent, under connection_mutex_: refused when the endpoint has failed,
\* and epoll may refuse.  The loop goes on with the next connection.
AcceptRegister(registers) ==
    LET c == dispatcher.conn
    IN  /\ dispatcher.pc = "register"
        /\ dispatcher' = [Idle EXCEPT !.pc = "accept"]
        /\ IF registers /\ ~Failed(c)
           THEN /\ tcpReg' = [tcpReg EXCEPT ![c] = "live"]
                /\ edge' = IF toServer[c] # <<>> \/ tcp[c] = "reset" THEN edge \cup {c} ELSE edge
                /\ refs' = [refs EXCEPT ![c] = @ \ {"accept"}]
                /\ UNCHANGED <<life, fd, endpoints>>
           ELSE Settle(c, TRUE, {"accept"}) /\ UNCHANGED edge
        /\ UNCHANGED <<peerVars, batch, listenReg, listener_recycled, qpUp, handshake_ok,
                       worker, serverVars>>

\* Dispatch of a connection's event, and the start of OnServerHandshake: both
\* Address calls, and UnregisterTcpEvent.
DispatchConn(c, hup) ==
    /\ dispatcher.pc = "wait" /\ c \in batch
    /\ hup => tcp[c] = "reset"
    /\ batch' = batch \ {c}
    /\ IF tcpReg[c] = "live" /\ life[c] = "alive"
       THEN /\ dispatcher' = [Idle EXCEPT !.pc = "callback", !.conn = c, !.hup = hup]
            /\ refs' = [refs EXCEPT ![c] = @ \cup {"callback"}]
            /\ tcpReg' = [tcpReg EXCEPT ![c] = "gone"]
       ELSE UNCHANGED <<dispatcher, refs, tcpReg>>
    /\ UNCHANGED <<peerVars, edge, listenReg, listener_recycled, life, fd, endpoints, qpUp,
                   handshake_ok, worker, serverVars>>

\* Mutant: the handshake thread is started without a reference of its own.
WorkerRefMutant == {}

\* ep->ReAddress(&worker_ref)
WorkerRef == {"worker"}

\* The rest of OnServerHandshake: an error event fails the endpoint, and so does
\* a thread that cannot be started; else the handshake thread runs.
OnServerHandshake(starts) ==
    LET c == dispatcher.conn
        fails == dispatcher.hup \/ ~starts
    IN  /\ dispatcher.pc = "callback"
        /\ IF fails
           THEN Settle(c, TRUE, {"callback"}) /\ UNCHANGED worker
           ELSE /\ worker' = [worker EXCEPT ![c] = "read"]
                /\ refs' = [refs EXCEPT ![c] = (@ \cup WorkerRef) \ {"callback"}]
                /\ UNCHANGED <<life, tcpReg, fd, endpoints>>
        /\ dispatcher' = Idle
        /\ UNCHANGED <<peerVars, edge, batch, listenReg, listener_recycled, qpUp, handshake_ok, serverVars>>

-----------------------------------------------------------------------------
(* The handshake thread: ProcessHandshakeAtServer *)

Work(c, from, to) ==
    /\ worker[c] = from
    /\ worker' = [worker EXCEPT ![c] = to]
    /\ UNCHANGED <<tcp, client, clientUp, loopVars, lifeVars, handshake_ok, serverVars>>

\* Mutant: the read loop does not look at Failed().
ReadGivesUpMutant(c) == toServer[c] = <<>> /\ tcp[c] = "reset"

\* ReadFromFd gives up when the endpoint has failed or the peer has closed.
ReadGivesUp(c) == Failed(c) \/ (toServer[c] = <<>> /\ tcp[c] = "reset")

HsReadFails(c) ==
    /\ ReadGivesUp(c)
    /\ Work(c, "read", "bad") \/ Work(c, "ack", "bad")
    /\ UNCHANGED <<toServer, toClient, qpUp>>

HsReadHello(c) ==
    /\ ~Failed(c) /\ toServer[c] # <<>>
    /\ toServer' = [toServer EXCEPT ![c] = Tail(@)]
    /\ Work(c, "read", IF Head(toServer[c]) = "hello" THEN "up" ELSE "bad")
    /\ UNCHANGED <<toClient, qpUp>>

\* Mutant: the server says hello before its queue pairs are up.
HsUpMutant(c, ok) ==
    /\ Work(c, "up", IF ok THEN "write" ELSE "bad")
    /\ UNCHANGED <<qpUp, toServer, toClient>>

\* AllocateResources, BringUpQp with its receives, BringUpDataQp.
HsUp(c, ok) ==
    /\ Work(c, "up", IF ok THEN "write" ELSE "bad")
    /\ qpUp' = [qpUp EXCEPT ![c] = ok]
    /\ UNCHANGED <<toServer, toClient>>

\* WriteToFd fails on a failed endpoint or a reset connection.
HsWriteHello(c) ==
    LET ok == ~Failed(c) /\ tcp[c] = "open"
    IN  /\ toClient' = [toClient EXCEPT ![c] = IF ok THEN Append(@, "hello") ELSE @]
        /\ Work(c, "write", IF ok THEN "ack" ELSE "bad")
        /\ UNCHANGED <<toServer, qpUp>>

HsReadAck(c) ==
    /\ ~Failed(c) /\ toServer[c] # <<>>
    /\ toServer' = [toServer EXCEPT ![c] = Tail(@)]
    /\ Work(c, "ack", "good")
    /\ UNCHANGED <<toClient, qpUp>>

\* CloseTcpFd.
HsClose(c) ==
    /\ worker[c] \in {"good", "bad"}
    /\ worker' = [worker EXCEPT ![c] = IF @ = "good" THEN "goodEnd" ELSE "badEnd"]
    /\ fd' = [fd EXCEPT ![c] = "closed"]
    /\ UNCHANGED <<peerVars, loopVars, life, refs, tcpReg, endpoints, qpUp, handshake_ok, serverVars>>

\* The outcome, and the release of the thread's reference.
HsEnd(c) ==
    LET ok == worker[c] = "goodEnd" /\ ~Failed(c)
    IN  /\ worker[c] \in {"goodEnd", "badEnd"}
        /\ worker' = [worker EXCEPT ![c] = "end"]
        /\ handshake_ok' = [handshake_ok EXCEPT ![c] = ok]
        /\ Settle(c, ~ok, {"worker"})
        /\ UNCHANGED <<peerVars, loopVars, qpUp, serverVars>>

\* An established endpoint fails when its peer is gone (its poller, module CqPoller).
PeerLost(c) ==
    /\ handshake_ok[c] /\ life[c] = "alive" /\ client[c] = "gone"
    /\ Settle(c, TRUE, {})
    /\ UNCHANGED <<peerVars, loopVars, qpUp, handshake_ok, worker, serverVars>>

-----------------------------------------------------------------------------
(* FastServer::Close *)

CloseStop ==
    /\ closer = "open"
    /\ stopping' = TRUE /\ closer' = "unregister"
    /\ UNCHANGED <<peerVars, loopVars, lifeVars, qpUp, handshake_ok, worker, closeIds>>

\* UnregisterEvent of the listener: its IOEventData fails, and is recycled at once
\* unless the accept callback is running.
CloseUnregister ==
    /\ closer = "unregister"
    /\ listenReg' = "failed" /\ edge' = edge \ {"listener"}
    /\ listener_recycled' = (dispatcher.pc \notin {"accept", "added", "register"})
    /\ closer' = "wait"
    /\ UNCHANGED <<peerVars, batch, dispatcher, lifeVars, qpUp, handshake_ok, worker, stopping, closeIds>>

\* Mutant: Close() does not wait for the accept callback.
ListenerDoneMutant == TRUE

\* recycled_cv_.wait(... listener_recycled_)
ListenerDone == listener_recycled

\* The listening socket is closed; the endpoints to fail are copied.
CloseListener ==
    /\ closer = "wait" /\ ListenerDone
    /\ closeIds' = endpoints /\ closer' = "fail"
    /\ tcp' = [c \in Conns |-> IF tcp[c] = "backlog" THEN "reset" ELSE tcp[c]]
    /\ UNCHANGED <<toServer, toClient, client, clientUp, loopVars, lifeVars, qpUp, handshake_ok,
                   worker, stopping>>

\* SetFailedById, which finds nothing to do on an endpoint that is failed or recycled.
CloseFail(c) ==
    /\ closer = "fail" /\ c \in closeIds
    /\ closeIds' = closeIds \ {c}
    /\ IF life[c] = "alive" THEN Settle(c, TRUE, {}) ELSE UNCHANGED lifeVars
    /\ UNCHANGED <<peerVars, loopVars, qpUp, handshake_ok, worker, stopping, closer>>

CloseFailed ==
    /\ closer = "fail" /\ closeIds = {}
    /\ closer' = "drain"
    /\ UNCHANGED <<peerVars, loopVars, lifeVars, qpUp, handshake_ok, worker, stopping, closeIds>>

\* recycled_cv_.wait(... endpoints_.empty())
CloseDone ==
    /\ closer = "drain" /\ endpoints = {}
    /\ closer' = "done"
    /\ UNCHANGED <<peerVars, loopVars, lifeVars, qpUp, handshake_ok, worker, stopping, closeIds>>

-----------------------------------------------------------------------------
DispatcherStep ==
    \/ EpollWait \/ DispatchListener \/ AcceptNone \/ AcceptStopping \/ AcceptAlive
    \/ \E b \in BOOLEAN : AcceptRegister(b) \/ OnServerHandshake(b)
    \/ \E c \in Conns : Accept(c) \/ AcceptCreateFails(c) \/ \E b \in BOOLEAN : DispatchConn(c, b)

WorkerStep(c) ==
    \/ HsReadFails(c) \/ HsReadHello(c) \/ HsWriteHello(c) \/ HsReadAck(c) \/ HsClose(c) \/ HsEnd(c)
    \/ \E ok \in BOOLEAN : HsUp(c, ok)

CloserStep ==
    \/ CloseUnregister \/ CloseListener \/ CloseFailed \/ CloseDone
    \/ \E c \in Conns : CloseFail(c)

PeerStep(c) ==
    PeerConnects(c) \/ PeerUp(c) \/ PeerGone(c) \/ \E h \in {"hello", "bad"} : PeerHello(c, h)

ConnectNext ==
    \/ DispatcherStep \/ CloseStop \/ CloserStep
    \/ \E c \in Conns : PeerStep(c) \/ WorkerStep(c) \/ PeerLost(c)

\* The server's own threads run; peers may be silent for ever, and nothing forces
\* the owner to close the server.
ConnectFairness ==
    WF_connectVars(DispatcherStep) /\ WF_connectVars(CloserStep)
    /\ \A c \in Conns : WF_connectVars(WorkerStep(c))

ConnectSpec == ConnectInit /\ [][ConnectNext]_connectVars /\ ConnectFairness

-----------------------------------------------------------------------------
(* Properties *)

\* When Close() has returned, nothing of the server is in use any more: every
\* endpoint it accepted, finished handshake or not, is recycled, no handshake
\* thread runs and no callback holds the server's address.
CloseQuiescent ==
    closer = "done" =>
        /\ endpoints = {} /\ \A c \in Conns : life[c] \in {"none", "recycled"}
        /\ dispatcher.pc \notin {"accept", "added", "register"}
        /\ \A c \in Conns : worker[c] \in {"none", "end"}

\* A running handshake thread has its endpoint and, until it closes it itself
\* (CloseTcpFd), its descriptor: OnFailed and BeforeRecycled leave both alone.
HandshakeOwnsFd ==
    \A c \in Conns :
        /\ worker[c] \notin {"none", "end"} => life[c] \in {"alive", "failed"}
        /\ worker[c] \in {"read", "up", "write", "ack", "good", "bad"} => fd[c] = "open"

\* The order of the handshakes: an end that may send finds the queue pairs and
\* the receives of the other end ready.
ReadyBeforeSend ==
    \A c \in Conns : /\ client[c] = "ok" => qpUp[c]
                     /\ handshake_ok[c] => clientUp[c]

\* Close() returns, whatever the peers of the connections do, silence included.
CloseReturns == closer = "unregister" ~> closer = "done"
=============================================================================
