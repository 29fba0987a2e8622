---------------------------- MODULE ClientConnect ----------------------------
(***************************************************************************)
(* How a client's TCP connect leads to its handshake: StartAsyncConnect,   *)
(* RegisterTcpEvent and OnClientHandshake (src-endpoint/                   *)
(* fast_rdma_endpoint.cc) over EventDispatcher (event_dispatcher.cc) and   *)
(* IOEventData::Call (inc/event_dispatcher.h).                             *)
(***************************************************************************)
EXTENDS Integers, FiniteSets

VARIABLES
    sock,        \* "none", "connecting", "connected" or "refused"
    clientReg,   \* tcp_registration_: "none", "live" or "gone"
    ready,       \* the epoll events not yet reported (edge-triggered)
    fetched,     \* the events epoll_wait returned for the socket
    phase,       \* the loop: "wait", "input" or "output"
    outcome      \* "none", "handshake" (thread started) or "failed"

clientVars == <<sock, clientReg, ready, fetched, phase, outcome>>

\* RegisterTcpEvent(sock_fd, OnClientHandshake, EPOLLOUT | EPOLLET) passes its
\* callback as input_cb and nullptr as output_cb; RegisterEvent adds the errors.
Interest == {"EPOLLOUT", "EPOLLERR", "EPOLLHUP"}

ClientInit ==
    /\ sock = "none" /\ clientReg = "none" /\ ready = {} /\ fetched = {}
    /\ phase = "wait" /\ outcome = "none"

\* connect returns EINPROGRESS, and the event is registered.
StartAsyncConnect ==
    /\ sock = "none"
    /\ sock' = "connecting" /\ clientReg' = "live"
    /\ UNCHANGED <<ready, fetched, phase, outcome>>

\* The network decides: writable, or an error.
TcpConnected ==
    /\ sock = "connecting"
    /\ sock' = "connected" /\ ready' = ready \cup ({"EPOLLOUT"} \cap Interest)
    /\ UNCHANGED <<clientReg, fetched, phase, outcome>>

TcpRefused ==
    /\ sock = "connecting"
    /\ sock' = "refused" /\ ready' = ready \cup ({"EPOLLOUT", "EPOLLERR", "EPOLLHUP"} \cap Interest)
    /\ UNCHANGED <<clientReg, fetched, phase, outcome>>

EpollReturns ==
    /\ phase = "wait" /\ clientReg = "live" /\ ready # {}
    /\ fetched' = ready /\ ready' = {} /\ phase' = "input"
    /\ UNCHANGED <<sock, clientReg, outcome>>

\* OnClientHandshake: the event is unregistered; a socket error or an error event
\* fails the pending write, else the handshake thread is started.
OnClientHandshakeCalled ==
    /\ clientReg' = "gone"
    /\ outcome' = IF sock = "refused" \/ fetched \cap {"EPOLLERR", "EPOLLHUP"} # {}
                  THEN "failed" ELSE "handshake"

\* Dispatch(id, ev, false): input_cb is OnClientHandshake.
DispatchInput ==
    /\ phase = "input" /\ phase' = "output"
    /\ IF fetched \cap {"EPOLLIN", "EPOLLERR", "EPOLLHUP"} # {} /\ clientReg = "live"
       THEN OnClientHandshakeCalled
       ELSE UNCHANGED <<clientReg, outcome>>
    /\ UNCHANGED <<sock, ready, fetched>>

\* Dispatch(id, ev, true): output_cb is nullptr, so Call does nothing.
DispatchOutput ==
    /\ phase = "output" /\ phase' = "wait" /\ fetched' = {}
    /\ UNCHANGED <<sock, clientReg, ready, outcome>>

ClientNext ==
    StartAsyncConnect \/ TcpConnected \/ TcpRefused \/ EpollReturns \/ DispatchInput \/ DispatchOutput

\* The dispatcher thread runs, and the network answers the connect.
ClientConnectSpec ==
    /\ ClientInit /\ [][ClientNext]_clientVars
    /\ WF_clientVars(EpollReturns \/ DispatchInput \/ DispatchOutput)
    /\ WF_clientVars(TcpConnected \/ TcpRefused)

\* "TCP connect -> OnClientHandshake (EPOLLOUT) -> ProcessHandshakeAtClient"
\* (docs/works/spec/phase4-fastchannel.md:59): a connect that succeeds is followed
\* by the handshake.
ConnectedShakesHands == sock = "connected" ~> outcome = "handshake"
=============================================================================
