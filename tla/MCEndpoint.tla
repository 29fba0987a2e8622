----------------------------- MODULE MCEndpoint -----------------------------
(***************************************************************************)
(* The connection of endpoints with the close of a server, and the calls   *)
(* over a connected endpoint, on small instances.  A behaviour is one of   *)
(* Connect or one of Rpc, chosen in the initial state.                     *)
(***************************************************************************)
EXTENDS Connect, Rpc

CONSTANTS r1, r2

VARIABLE part

\* Which calls have a large request, which a large response.
McShapes == {<<{r1, r2}, {}>>, <<{}, {r1, r2}>>}

McInit ==
  /\ part \in {"connect", "rpc"}
  /\ ConnectInit
  /\ RpcInit /\ (part # "rpc" => reqLarge = {})

McVars == <<part, connectVars, rpcVars>>
Connecting(step) == part = "connect" /\ step /\ UNCHANGED <<part, rpcVars>>
Calling(step) == part = "rpc" /\ step /\ UNCHANGED <<part, connectVars>>

McNext == Connecting(ConnectNext) \/ Calling(RpcNext)

\* ConnectFairness and RpcFairness, thread by thread.
McFairness ==
  /\ \A x \in {r1, r2} : /\ WF_McVars(Connecting(WorkerStep(x)) \/ Calling(CallStep(x)))
                         /\ WF_McVars(Calling(ReplyStep(x)))
  /\ WF_McVars(Connecting(DispatcherStep) \/ Calling(FailStep))
  /\ WF_McVars(Connecting(CloserStep))

McSpec == McInit /\ [][McNext]_McVars /\ McFairness

-----------------------------------------------------------------------------

\* The type invariants of the connection and of the calls.
McTypeOK == ConnectTypeOK /\ RpcTypeOK

\* A server that has closed has nothing of it running any more, a file descriptor that a
\* handshake uses is the endpoint's own, and no side sends before its queue pair is up:
\* CloseQuiescent, HandshakeOwnsFd and ReadyBeforeSend of Connect
\* (src/src-endpoint/fast_server.cc, event_dispatcher.cc, fast_rdma_endpoint.cc).
ConnectSafe == CloseQuiescent /\ HandshakeOwnsFd /\ ReadyBeforeSend

\* What a handler or the hardware may still follow is alive, and transfers keep their
\* limit: PendingAlive and LargeTransfersSafe of Rpc (src/src-endpoint/fast_channel.cc,
\* fast_rdma_endpoint.cc).
RpcSafe == PendingAlive /\ LargeTransfersSafe

Ending == closer = "unregister" \/ ~up["channel"]
Ended == CASE part = "connect" -> closer = "done"
           [] part = "rpc" -> \A r \in Calls : call[r] \in {"start", "returned"}

\* What has begun to end ends: Close() returns once it has started (CloseReturns of
\* Connect), and the failure of a channel's endpoint ends its calls (FailureEndsCalls of
\* Rpc).  One formula, since only one part moves in a behaviour
\* (src/src-endpoint/fast_server.cc, fast_channel.cc).
EndingsEnd == Ending ~> Ended
=============================================================================
