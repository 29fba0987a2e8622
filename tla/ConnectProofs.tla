--------------------------- MODULE ConnectProofs ----------------------------
(***************************************************************************)
(* Proofs about Connect, for any set of connections: what the run of       *)
(* MCEndpoint checks of accepting, shaking hands, failing and closing.     *)
(***************************************************************************)
EXTENDS MCEndpoint, TLAPS

-----------------------------------------------------------------------------
(* Connect: the inductive invariant *)

Accepting == {"accept", "added", "register"}
Shaking == {"read", "up", "write", "ack", "good", "bad"}
InUse == {"alive", "failed"}

\* The dispatcher's record: it is about a connection in three of its places.
DispatcherOk(at) ==
    /\ at \in [pc : {"wait", "accept", "added", "register", "callback"},
               conn : Conns \cup {"none"}, hup : BOOLEAN, saw : BOOLEAN]
    /\ at.pc \in {"added", "register", "callback"} => at.conn \in Conns

\* The types, with the messages in flight and the dispatcher's record.
ConnectTypes ==
    /\ ConnectTypeOK
    /\ toServer \in [Conns -> Seq({"hello", "bad", "ack"})]
    /\ toClient \in [Conns -> Seq({"hello"})]
    /\ DispatcherOk(dispatcher)
    /\ endpoints \subseteq Conns /\ closeIds \subseteq Conns

\* Whose a reference is: the creator's until the endpoint fails, the accept
\* callback's, the handshake callback's, the handshake thread's.
RefsInv(c) ==
    /\ "creator" \in refs[c] <=> life[c] = "alive"
    /\ "accept" \in refs[c] <=> dispatcher.pc \in {"added", "register"} /\ dispatcher.conn = c
    /\ "callback" \in refs[c] <=> dispatcher.pc = "callback" /\ dispatcher.conn = c
    /\ "worker" \in refs[c] <=> worker[c] \notin {"none", "end"}

\* An endpoint is in use, and known to the server, while it has references.
LifeInv(c) ==
    /\ refs[c] # {} <=> life[c] \in InUse
    /\ c \in endpoints <=> life[c] \in InUse

\* A connection that was not accepted has no endpoint; the one handshake thread
\* starts after the event is unregistered; the descriptor is open until
\* that thread closes it.
StartInv(c) ==
    /\ tcp[c] \in {"none", "backlog"} => life[c] = "none"
    /\ life[c] = "none" => worker[c] = "none"
    /\ tcpReg[c] = "live" =>
          worker[c] = "none" /\ ~(dispatcher.pc = "callback" /\ dispatcher.conn = c)
    /\ dispatcher.pc \in {"added", "register", "callback"} /\ dispatcher.conn = c =>
          worker[c] = "none"
    /\ life[c] \in InUse /\ worker[c] \notin {"goodEnd", "badEnd", "end"} => fd[c] = "open"

\* What the messages in flight say of the two ends.
HelloInv(c) ==
    /\ toClient[c] # <<>> \/ client[c] = "ok" => qpUp[c] /\ worker[c] \notin {"none", "read", "up"}
    /\ worker[c] \in {"write", "ack", "good"} => qpUp[c]
    /\ worker[c] \in {"none", "read"} => Len(toServer[c]) <= 1
    /\ worker[c] \in {"none", "read"} /\ client[c] = "idle" => toServer[c] = <<>>
    /\ worker[c] \in {"up", "write", "ack"} =>
          client[c] # "idle" /\ (toServer[c] # <<>> => clientUp[c])
    /\ worker[c] \in {"good", "goodEnd"} => clientUp[c]
    /\ handshake_ok[c] => clientUp[c]

\* Close() goes on only when the accept callback cannot run any more, and leaves
\* no endpoint alive behind.
CloseInv ==
    /\ (listenReg = "live") <=> closer \in {"open", "unregister"}
    /\ listener_recycled => listenReg = "failed" /\ dispatcher.pc \notin Accepting
    /\ closer \in {"fail", "drain", "done"} => listener_recycled
    /\ closer = "fail" => \A c \in Conns : life[c] = "alive" => c \in closeIds
    /\ closer \in {"drain", "done"} => \A c \in Conns : life[c] # "alive"
    /\ closer = "done" => endpoints = {}

ConnectInv ==
    /\ ConnectTypes
    /\ \A c \in Conns : RefsInv(c) /\ LifeInv(c) /\ StartInv(c) /\ HelloInv(c)
    /\ CloseInv

-----------------------------------------------------------------------------
(* Connect: the steps *)

\* Nothing is in flight.
LEMMA NoMessage == Len(<<>>) <= 1
  OBVIOUS

\* What Settle leaves of the endpoints other than c, and makes of c.
SettledApart(c) ==
    \A d \in Conns \ {c} :
        /\ life'[d] = life[d] /\ refs'[d] = refs[d] /\ tcpReg'[d] = tcpReg[d] /\ fd'[d] = fd[d]
        /\ d \in endpoints' <=> d \in endpoints

Settled(c, fails, drops) ==
    /\ refs'[c] = refs[c] \ (drops \cup IF fails THEN {"creator"} ELSE {})
    /\ refs'[c] = {} => life'[c] = "recycled" /\ c \notin endpoints'
    /\ refs'[c] # {} => /\ life'[c] = IF fails THEN "failed" ELSE life[c]
                        /\ fd'[c] = fd[c]
                        /\ c \in endpoints' <=> c \in endpoints
    /\ tcpReg'[c] = "live" => tcpReg[c] = "live"

LifeTypes ==
    /\ life \in [Conns -> {"none", "alive", "failed", "recycled"}]
    /\ refs \in [Conns -> SUBSET {"creator", "accept", "callback", "worker"}]
    /\ tcpReg \in [Conns -> {"none", "live", "gone"}]
    /\ fd \in [Conns -> {"none", "open", "closed"}]
    /\ endpoints \subseteq Conns

\* What SetFailed and the release of references do to an endpoint in use.
LEMMA SettleEffect ==
  ASSUME ConnectTypes, NEW c \in Conns, NEW fails, NEW drops,
         Settle(c, fails, drops)
  PROVE  SettledApart(c) /\ Settled(c, fails, drops) /\ LifeTypes'
  <1> DEFINE left == refs[c] \ (drops \cup IF fails THEN {"creator"} ELSE {})
  <1>0. LifeTypes BY Zenon DEF ConnectTypes, ConnectTypeOK, LifeTypes
  <1>1. left \in SUBSET {"creator", "accept", "callback", "worker"}
    BY <1>0 DEF LifeTypes
  <1>2. refs' = [refs EXCEPT ![c] = left]
    BY Zenon DEF Settle
  <1>3. life' = [life EXCEPT ![c] = CASE left = {} -> "recycled" [] fails /\ left # {} -> "failed" [] OTHER -> @]
    BY Zenon DEF Settle
  <1>4. /\ tcpReg' = [tcpReg EXCEPT ![c] = IF fails \/ left = {} THEN "gone" ELSE @]
        /\ fd' = [fd EXCEPT ![c] = IF left = {} THEN "closed" ELSE @]
        /\ endpoints' = IF left = {} THEN endpoints \ {c} ELSE endpoints
    BY Zenon DEF Settle
  <1> HIDE DEF left
  <1>5. refs'[c] = left
    BY <1>0, <1>2 DEF LifeTypes
  <1>6. SettledApart(c)
    BY <1>0, <1>2, <1>3, <1>4 DEF LifeTypes, SettledApart
  <1>7. /\ refs'[c] = {} => life'[c] = "recycled" /\ c \notin endpoints'
        /\ refs'[c] # {} => /\ life'[c] = IF fails THEN "failed" ELSE life[c]
                            /\ fd'[c] = fd[c]
                            /\ c \in endpoints' <=> c \in endpoints
        /\ tcpReg'[c] = "live" => tcpReg[c] = "live"
    <2>1. /\ life'[c] = CASE left = {} -> "recycled" [] fails /\ left # {} -> "failed" [] OTHER -> life[c]
          /\ fd'[c] = IF left = {} THEN "closed" ELSE fd[c]
          /\ tcpReg'[c] = IF fails \/ left = {} THEN "gone" ELSE tcpReg[c]
      BY <1>0, <1>3, <1>4 DEF LifeTypes
    <2>2. CASE left = {}
      <3>1. life'[c] = "recycled" /\ tcpReg'[c] = "gone" BY <2>1, <2>2
      <3>2. c \notin endpoints' BY <2>2, <1>4
      <3>. QED BY <2>2, <1>5, <3>1, <3>2, Zenon
    <2>3. CASE left # {}
      BY <2>1, <2>3, <1>4, <1>5
    <2>. QED BY <2>2, <2>3, Zenon
  <1>8. LifeTypes'
    BY <1>0, <1>1, <1>2, <1>3, <1>4 DEF LifeTypes
  <1>9. Settled(c, fails, drops)
    BY <1>5, <1>7, Zenon DEF left, Settled
  <1>. QED BY <1>6, <1>8, <1>9, Zenon

\* An endpoint that has references is settled: the creator's reference and the
\* life agree, and it is recycled when, and only when, no reference is left.
LEMMA SettleKeeps ==
  ASSUME ConnectTypes, NEW c \in Conns, NEW fails, NEW drops,
         "creator" \notin drops, RefsInv(c), LifeInv(c), life[c] \in InUse,
         Settle(c, fails, drops)
  PROVE  /\ "creator" \in refs'[c] <=> life'[c] = "alive"
         /\ \A x \in {"accept", "callback", "worker"} :
               x \in refs'[c] <=> x \in refs[c] /\ x \notin drops
         /\ refs'[c] # {} <=> life'[c] \in InUse
         /\ c \in endpoints' <=> life'[c] \in InUse
         /\ life'[c] # "none"
         /\ fails => life'[c] # "alive"
         /\ life'[c] \in InUse => fd'[c] = fd[c]
  <1>0. Settled(c, fails, drops)
    BY SettleEffect, Zenon
  <1>1. refs'[c] = refs[c] \ (drops \cup IF fails THEN {"creator"} ELSE {})
    BY <1>0, Zenon DEF Settled
  <1>2. /\ refs'[c] = {} => life'[c] = "recycled" /\ c \notin endpoints'
        /\ refs'[c] # {} => /\ life'[c] = IF fails THEN "failed" ELSE life[c]
                            /\ fd'[c] = fd[c]
                            /\ c \in endpoints' <=> c \in endpoints
    BY <1>0, Zenon DEF Settled
  <1>3. \A x \in {"accept", "callback", "worker"} :
               x \in refs'[c] <=> x \in refs[c] /\ x \notin drops
    BY <1>1
  <1>4. "creator" \in refs'[c] <=> "creator" \in refs[c] /\ ~fails
    BY <1>1
  <1>. QED BY <1>2, <1>3, <1>4 DEF RefsInv, LifeInv, InUse

\* The records that the dispatcher's steps make.
LEMMA DispatcherRecords ==
  /\ DispatcherOk(Idle) /\ DispatcherOk([Idle EXCEPT !.pc = "accept"])
  /\ \A c \in Conns, b \in BOOLEAN :
        /\ DispatcherOk([Idle EXCEPT !.pc = "added", !.conn = c, !.saw = b])
        /\ DispatcherOk([Idle EXCEPT !.pc = "callback", !.conn = c, !.hup = b])
  /\ \A at : DispatcherOk(at) /\ at.pc = "added" => DispatcherOk([at EXCEPT !.pc = "register"])
  <1>1. DispatcherOk(Idle) /\ DispatcherOk([Idle EXCEPT !.pc = "accept"])
    BY DEF DispatcherOk, Idle
  <1>2. ASSUME NEW c \in Conns, NEW b \in BOOLEAN
        PROVE  /\ DispatcherOk([Idle EXCEPT !.pc = "added", !.conn = c, !.saw = b])
               /\ DispatcherOk([Idle EXCEPT !.pc = "callback", !.conn = c, !.hup = b])
    BY DEF DispatcherOk, Idle
  <1>3. ASSUME NEW at, DispatcherOk(at), at.pc = "added"
        PROVE  DispatcherOk([at EXCEPT !.pc = "register"])
    BY <1>3 DEF DispatcherOk
  <1>. QED BY <1>1, <1>2, <1>3, Zenon

\* Every step of Connect keeps the types.
LEMMA ConnectTypesStep ==
  ASSUME ConnectTypes, [ConnectNext]_connectVars
  PROVE  ConnectTypes'
  <1> USE DEF ConnectTypes, ConnectTypeOK, peerVars, loopVars, lifeVars, serverVars
  <1>a. \A at : DispatcherOk(at) =>
            /\ at.pc \in {"wait", "accept", "added", "register", "callback"}
            /\ at.hup \in BOOLEAN /\ at.saw \in BOOLEAN
            /\ at.pc \in {"added", "register", "callback"} => at.conn \in Conns
    BY DEF DispatcherOk
  <1>0. CASE UNCHANGED connectVars
    BY <1>0 DEF connectVars
  <1>1. CASE EpollWait BY <1>1 DEF EpollWait
  <1>2. CASE DispatchListener
    <2>1. DispatcherOk(dispatcher')
      BY <1>2, DispatcherRecords, Zenon DEF DispatchListener
    <2>. QED BY <1>2, <1>a, <2>1 DEF DispatchListener
  <1>3. CASE AcceptNone
    <2>1. DispatcherOk(dispatcher')
      BY <1>3, DispatcherRecords, Zenon DEF AcceptNone, AcceptReturns
    <2>. QED BY <1>3, <1>a, <2>1 DEF AcceptNone, AcceptReturns
  <1>4. CASE AcceptStopping
    <2>1. dispatcher.conn \in Conns /\ Settle(dispatcher.conn, dispatcher.saw, {"accept"})
      BY <1>4, <1>a DEF AcceptStopping
    <2>2. LifeTypes'
      BY <2>1, SettleEffect, Zenon
    <2>3. DispatcherOk(dispatcher')
      BY <1>4, DispatcherRecords, Zenon DEF AcceptStopping, AcceptReturns
    <2>. QED BY <1>4, <1>a, <2>2, <2>3 DEF AcceptStopping, AcceptReturns, LifeTypes
  <1>5. CASE AcceptAlive
    <2>1. DispatcherOk(dispatcher')
      BY <1>5, DispatcherRecords, Zenon DEF AcceptAlive
    <2>. QED BY <1>5, <1>a, <2>1 DEF AcceptAlive
  <1>6. ASSUME NEW b \in BOOLEAN, AcceptRegister(b) PROVE ConnectTypes'
    <2>1. dispatcher.conn \in Conns
      BY <1>6, <1>a DEF AcceptRegister
    <2>2. LifeTypes'
      <3>1. CASE b /\ ~Failed(dispatcher.conn)
        <4>1. /\ tcpReg' = [tcpReg EXCEPT ![dispatcher.conn] = "live"]
              /\ refs' = [refs EXCEPT ![dispatcher.conn] = @ \ {"accept"}]
              /\ UNCHANGED <<life, fd, endpoints>>
          BY <1>6, <3>1, Zenon DEF AcceptRegister
        <4>. QED BY <2>1, <4>1 DEF LifeTypes
      <3>2. CASE ~(b /\ ~Failed(dispatcher.conn))
        BY <1>6, <2>1, <3>2, SettleEffect, Zenon DEF AcceptRegister
      <3>. QED BY <3>1, <3>2, Zenon
    <2>3. DispatcherOk(dispatcher')
      BY <1>6, DispatcherRecords, Zenon DEF AcceptRegister
    <2>4. edge' \in {edge, edge \cup {dispatcher.conn}}
      BY <1>6, Zenon DEF AcceptRegister
    <2>5. UNCHANGED <<peerVars, batch, listenReg, listener_recycled, qpUp, handshake_ok, worker, serverVars>>
      BY <1>6, Zenon DEF AcceptRegister
    <2>. QED BY <1>a, <2>1, <2>2, <2>3, <2>4, <2>5 DEF LifeTypes
  <1>7. ASSUME NEW b \in BOOLEAN, OnServerHandshake(b) PROVE ConnectTypes'
    <2>1. dispatcher.conn \in Conns
      BY <1>7, <1>a DEF OnServerHandshake
    <2>2. LifeTypes'
      <3>1. CASE ~(dispatcher.hup \/ ~b)
        <4>1. /\ refs' = [refs EXCEPT ![dispatcher.conn] = (@ \cup {"worker"}) \ {"callback"}]
              /\ UNCHANGED <<life, tcpReg, fd, endpoints>>
          BY <1>7, <3>1, Zenon DEF OnServerHandshake, WorkerRef
        <4>. QED BY <2>1, <4>1 DEF LifeTypes
      <3>2. CASE dispatcher.hup \/ ~b
        BY <1>7, <2>1, <3>2, SettleEffect, Zenon DEF OnServerHandshake
      <3>. QED BY <3>1, <3>2, Zenon
    <2>3. DispatcherOk(dispatcher')
      BY <1>7, DispatcherRecords, Zenon DEF OnServerHandshake
    <2>4. worker' \in {worker, [worker EXCEPT ![dispatcher.conn] = "read"]}
      BY <1>7, Zenon DEF OnServerHandshake
    <2>5. UNCHANGED <<peerVars, edge, batch, listenReg, listener_recycled, qpUp, handshake_ok, serverVars>>
      BY <1>7, Zenon DEF OnServerHandshake
    <2>6. worker' \in [Conns -> {"none", "read", "up", "write", "ack", "good", "bad", "goodEnd", "badEnd", "end"}]
      BY <2>1, <2>4
    <2>. QED BY <1>a, <2>2, <2>3, <2>5, <2>6 DEF LifeTypes
  <1>8. ASSUME NEW c \in Conns, Accept(c) PROVE ConnectTypes'
    <2>1. DispatcherOk(dispatcher')
      BY <1>8, DispatcherRecords, Zenon DEF Accept
    <2>2. LifeTypes'
      BY <1>8 DEF Accept, LifeTypes
    <2>3. tcp' \in [Conns -> {"none", "backlog", "open", "reset"}]
      BY <1>8 DEF Accept
    <2>4. UNCHANGED <<toServer, toClient, client, clientUp, edge, batch, listenReg, listener_recycled,
                      qpUp, handshake_ok, worker, serverVars>>
      BY <1>8, Zenon DEF Accept
    <2>. QED BY <1>a, <2>1, <2>2, <2>3, <2>4 DEF LifeTypes
  <1>9. ASSUME NEW c \in Conns, AcceptCreateFails(c) PROVE ConnectTypes'
    <2>1. DispatcherOk(dispatcher')
      BY <1>9, DispatcherRecords, Zenon DEF AcceptCreateFails, AcceptReturns
    <2>. QED BY <1>9, <1>a, <2>1 DEF AcceptCreateFails, AcceptReturns
  <1>10. ASSUME NEW c \in Conns, NEW b \in BOOLEAN, DispatchConn(c, b) PROVE ConnectTypes'
    <2>1. DispatcherOk(dispatcher')
      <3>1. \/ dispatcher' = [Idle EXCEPT !.pc = "callback", !.conn = c, !.hup = b]
            \/ dispatcher' = dispatcher
        BY <1>10, Zenon DEF DispatchConn
      <3>2. DispatcherOk(dispatcher) OBVIOUS
      <3>3. DispatcherOk([Idle EXCEPT !.pc = "callback", !.conn = c, !.hup = b])
        <4> HIDE DEF ConnectTypes, ConnectTypeOK
        <4>. QED BY DispatcherRecords, Zenon
      <3> HIDE DEF ConnectTypes, ConnectTypeOK
      <3>. QED BY <3>1, <3>2, <3>3, Zenon
    <2>2. refs' \in {refs, [refs EXCEPT ![c] = @ \cup {"callback"}]}
          /\ tcpReg' \in {tcpReg, [tcpReg EXCEPT ![c] = "gone"]}
          /\ UNCHANGED <<life, fd, endpoints>>
      BY <1>10, Zenon DEF DispatchConn
    <2>4. refs' \in [Conns -> SUBSET {"creator", "accept", "callback", "worker"}]
          /\ tcpReg' \in [Conns -> {"none", "live", "gone"}]
      <3>1. [refs EXCEPT ![c] = @ \cup {"callback"}]
               \in [Conns -> SUBSET {"creator", "accept", "callback", "worker"}]
        OBVIOUS
      <3>2. [tcpReg EXCEPT ![c] = "gone"] \in [Conns -> {"none", "live", "gone"}]
        OBVIOUS
      <3>3. /\ refs \in [Conns -> SUBSET {"creator", "accept", "callback", "worker"}]
            /\ tcpReg \in [Conns -> {"none", "live", "gone"}]
        OBVIOUS
      <3> HIDE DEF ConnectTypes, ConnectTypeOK
      <3>. QED BY <2>2, <3>1, <3>2, <3>3
    <2>3. UNCHANGED <<peerVars, edge, listenReg, listener_recycled, qpUp, handshake_ok, worker, serverVars>>
          /\ batch' = batch \ {c}
      BY <1>10, Zenon DEF DispatchConn
    <2>. QED BY <1>a, <2>1, <2>2, <2>3, <2>4
  <1>11. ASSUME NEW c \in Conns, HsReadFails(c) PROVE ConnectTypes'
    <2>1. /\ worker' = [worker EXCEPT ![c] = "bad"]
          /\ UNCHANGED <<peerVars, loopVars, lifeVars, qpUp, handshake_ok, serverVars>>
      BY <1>11, Zenon DEF HsReadFails, Work
    <2>. QED BY <2>1
  <1>12. ASSUME NEW c \in Conns, HsReadHello(c) PROVE ConnectTypes'
    BY <1>12 DEF HsReadHello, Work
  <1>13. ASSUME NEW c \in Conns, HsWriteHello(c) PROVE ConnectTypes'
    BY <1>13 DEF HsWriteHello, Work
  <1>14. ASSUME NEW c \in Conns, HsReadAck(c) PROVE ConnectTypes'
    BY <1>14 DEF HsReadAck, Work
  <1>15. ASSUME NEW c \in Conns, HsClose(c) PROVE ConnectTypes'
    BY <1>15 DEF HsClose
  <1>16. ASSUME NEW c \in Conns, HsEnd(c) PROVE ConnectTypes'
    <2>1. PICK ok \in BOOLEAN : /\ handshake_ok' = [handshake_ok EXCEPT ![c] = ok]
                                /\ Settle(c, ~ok, {"worker"})
      BY <1>16, Zenon DEF HsEnd
    <2>2. LifeTypes' BY <2>1, SettleEffect, Zenon
    <2>3. /\ worker' = [worker EXCEPT ![c] = "end"]
          /\ UNCHANGED <<peerVars, loopVars, qpUp, serverVars>>
      BY <1>16, Zenon DEF HsEnd
    <2>. QED BY <2>1, <2>2, <2>3 DEF LifeTypes
  <1>17. ASSUME NEW c \in Conns, NEW b \in BOOLEAN, HsUp(c, b) PROVE ConnectTypes'
    BY <1>17 DEF HsUp, Work
  <1>18. CASE CloseStop BY <1>18 DEF CloseStop
  <1>19. CASE CloseUnregister BY <1>19 DEF CloseUnregister
  <1>20. CASE CloseListener BY <1>20 DEF CloseListener
  <1>21. CASE CloseFailed BY <1>21 DEF CloseFailed
  <1>22. CASE CloseDone BY <1>22 DEF CloseDone
  <1>23. ASSUME NEW c \in Conns, CloseFail(c) PROVE ConnectTypes'
    <2>1. LifeTypes'
      <3>1. CASE life[c] = "alive" BY <1>23, <3>1, SettleEffect, Zenon DEF CloseFail
      <3>2. CASE life[c] # "alive" BY <1>23, <3>2 DEF CloseFail, LifeTypes
      <3>. QED BY <3>1, <3>2, Zenon
    <2>. QED BY <1>23, <2>1 DEF CloseFail, LifeTypes
  <1>24. ASSUME NEW c \in Conns, PeerConnects(c) PROVE ConnectTypes'
    BY <1>24 DEF PeerConnects
  <1>25. ASSUME NEW c \in Conns, PeerUp(c) PROVE ConnectTypes'
    BY <1>25 DEF PeerUp, Arrival
  <1>26. ASSUME NEW c \in Conns, PeerGone(c) PROVE ConnectTypes'
    BY <1>26 DEF PeerGone, Arrival
  <1>27. ASSUME NEW c \in Conns, NEW h \in {"hello", "bad"}, PeerHello(c, h) PROVE ConnectTypes'
    BY <1>27 DEF PeerHello, Arrival
  <1>28. ASSUME NEW c \in Conns, PeerLost(c) PROVE ConnectTypes'
    <2>1. LifeTypes' BY <1>28, SettleEffect, Zenon DEF PeerLost
    <2>. QED BY <1>28, <2>1 DEF PeerLost, LifeTypes
  <1> HIDE DEF ConnectTypes
  <1>30. CASE DispatcherStep
    BY <1>30, <1>1, <1>2, <1>3, <1>4, <1>5, <1>6, <1>7, <1>8, <1>9, <1>10, Zenon DEF DispatcherStep
  <1>31. ASSUME NEW c \in Conns, WorkerStep(c) PROVE ConnectTypes'
    BY <1>31, <1>11, <1>12, <1>13, <1>14, <1>15, <1>16, <1>17, Zenon DEF WorkerStep
  <1>32. CASE CloserStep
    BY <1>32, <1>19, <1>20, <1>21, <1>22, <1>23, Zenon DEF CloserStep
  <1>33. ASSUME NEW c \in Conns, PeerStep(c) PROVE ConnectTypes'
    BY <1>33, <1>24, <1>25, <1>26, <1>27, Zenon DEF PeerStep
  <1>. QED BY <1>0, <1>18, <1>28, <1>30, <1>31, <1>32, <1>33, Zenon DEF ConnectNext

\* What is said of one endpoint.
EndpointInv(c) == RefsInv(c) /\ LifeInv(c) /\ StartInv(c)

\* Nothing that EndpointInv(d) speaks of changes, except where the dispatcher is.
Kept(d) ==
    /\ tcp'[d] = tcp[d] /\ life'[d] = life[d] /\ refs'[d] = refs[d] /\ tcpReg'[d] = tcpReg[d]
    /\ fd'[d] = fd[d] /\ worker'[d] = worker[d] /\ (d \in endpoints' <=> d \in endpoints)

\* An endpoint at which the dispatcher was not working and is not working now.
LEMMA KeptApart ==
  ASSUME NEW d \in Conns, EndpointInv(d), Kept(d),
         dispatcher.pc \in {"added", "register", "callback"} => dispatcher.conn # d,
         dispatcher'.pc \in {"added", "register", "callback"} => dispatcher'.conn # d
  PROVE  EndpointInv(d)'
  <1>1. RefsInv(d)' BY DEF EndpointInv, RefsInv, Kept
  <1>2. LifeInv(d)' BY Zenon DEF EndpointInv, LifeInv, Kept
  <1>3. StartInv(d)' BY DEF EndpointInv, StartInv, Kept
  <1>. QED BY <1>1, <1>2, <1>3, Zenon DEF EndpointInv

\* A step that changes nothing an endpoint's invariant is about keeps it.
LEMMA KeptSame ==
  ASSUME NEW d \in Conns, EndpointInv(d), Kept(d), UNCHANGED dispatcher
  PROVE  EndpointInv(d)'
  <1>1. RefsInv(d)' BY DEF EndpointInv, RefsInv, Kept
  <1>2. LifeInv(d)' BY Zenon DEF EndpointInv, LifeInv, Kept
  <1>3. StartInv(d)' BY DEF EndpointInv, StartInv, Kept
  <1>. QED BY <1>1, <1>2, <1>3, Zenon DEF EndpointInv

\* A step of the handshake thread before its last.
LEMMA WorkKeeps ==
  ASSUME ConnectTypes, NEW c \in Conns, NEW d \in Conns, EndpointInv(d),
         NEW from \in Shaking, NEW to \in Shaking, Work(c, from, to)
  PROVE  EndpointInv(d)'
  <1>1. CASE d # c
    <2>1. Kept(d) BY <1>1 DEF Work, Kept, lifeVars, ConnectTypes, ConnectTypeOK
    <2>. QED BY <2>1, KeptSame, Zenon DEF Work, loopVars
  <1>2. CASE d = c
    <2>1. /\ tcp' = tcp /\ life' = life /\ refs' = refs /\ tcpReg' = tcpReg /\ fd' = fd
          /\ endpoints' = endpoints /\ dispatcher' = dispatcher
      BY Zenon DEF Work, lifeVars, loopVars
    <2>2. worker[d] \in Shaking /\ worker'[d] \in Shaking
      BY <1>2 DEF Work, ConnectTypes, ConnectTypeOK
    <2>3. RefsInv(d)' BY <2>1, <2>2 DEF EndpointInv, RefsInv, Shaking
    <2>4. LifeInv(d)' BY <2>1, Zenon DEF EndpointInv, LifeInv
    <2>5. StartInv(d)' BY <2>1, <2>2 DEF EndpointInv, StartInv, Shaking
    <2>. QED BY <2>3, <2>4, <2>5, Zenon DEF EndpointInv
  <1>. QED BY <1>1, <1>2, Zenon

\* Every step of Connect keeps who refers to an endpoint, and its life.
LEMMA EndpointStep ==
  ASSUME ConnectTypes, ConnectTypes', \A c \in Conns : EndpointInv(c), [ConnectNext]_connectVars,
         NEW d \in Conns
  PROVE  EndpointInv(d)'
  <1> USE DEF peerVars, loopVars, lifeVars, serverVars
  <1> DEFINE x == dispatcher.conn
  <1>a. EndpointInv(d)
    BY Zenon
  <1>b. dispatcher.pc \in {"added", "register", "callback"} =>
           x \in Conns /\ EndpointInv(x) /\ worker[x] = "none" /\ life[x] \in InUse
    BY DEF ConnectTypes, DispatcherOk, EndpointInv, StartInv, RefsInv, LifeInv
  <1>0. CASE UNCHANGED <<tcp, life, refs, tcpReg, fd, worker, endpoints, dispatcher>>
    BY <1>0, <1>a, KeptSame, Zenon DEF Kept
  <1>1. CASE UNCHANGED <<tcp, life, refs, tcpReg, fd, worker, endpoints>>
             /\ dispatcher.pc \in {"wait", "accept"} /\ dispatcher'.pc \in {"wait", "accept"}
    <2>1. Kept(d) BY <1>1, Zenon DEF Kept
    <2>. QED BY <1>1, <1>a, <2>1, KeptApart
  <1>4. CASE AcceptStopping
    <2>1. Settle(x, dispatcher.saw, {"accept"}) /\ x \in Conns
      BY <1>4, <1>b DEF AcceptStopping, ConnectTypes, DispatcherOk
    <2>2. /\ dispatcher.pc = "added" /\ dispatcher'.pc = "wait"
          /\ UNCHANGED <<tcp, worker>>
      BY <1>4 DEF AcceptStopping, AcceptReturns, Idle
    <2>3. CASE d # x
      <3>1. Kept(d) BY <2>1, <2>2, <2>3, SettleEffect, Zenon DEF Kept, SettledApart
      <3>. QED BY <1>a, <2>2, <2>3, <3>1, KeptApart
    <2>4. CASE d = x
      <3>1. RefsInv(d) /\ LifeInv(d) /\ life[d] \in InUse /\ worker[d] = "none" /\ StartInv(d)
        BY <1>b, <2>2, <2>4 DEF EndpointInv
      <3>2. /\ "creator" \in refs'[d] <=> life'[d] = "alive"
            /\ \A y \in {"accept", "callback", "worker"} :
                  y \in refs'[d] <=> y \in refs[d] /\ y \notin {"accept"}
            /\ refs'[d] # {} <=> life'[d] \in InUse
            /\ d \in endpoints' <=> life'[d] \in InUse
            /\ life'[d] # "none"
            /\ life'[d] \in InUse => fd'[d] = fd[d]
        BY <2>1, <2>4, <3>1, SettleKeeps
      <3>3. tcpReg'[d] = "live" => tcpReg[d] = "live"
        <4>1. Settled(x, dispatcher.saw, {"accept"}) BY <2>1, SettleEffect, Zenon
        <4>. QED BY <2>4, <4>1, Zenon DEF Settled
      <3>4. RefsInv(d)' BY <2>2, <2>4, <3>1, <3>2 DEF RefsInv
      <3>5. LifeInv(d)' BY <3>2, Zenon DEF LifeInv
      <3>6. StartInv(d)' BY <2>2, <3>1, <3>2, <3>3 DEF StartInv, InUse
      <3>. QED BY <3>4, <3>5, <3>6, Zenon DEF EndpointInv
    <2>. QED BY <2>3, <2>4, Zenon
  <1>5. CASE AcceptAlive
    <2>1. /\ dispatcher.pc = "added" /\ dispatcher'.pc = "register" /\ dispatcher'.conn = x
      BY <1>5 DEF AcceptAlive, ConnectTypes, DispatcherOk
    <2>2. UNCHANGED <<tcp, life, refs, tcpReg, fd, worker, endpoints>>
      BY <1>5, Zenon DEF AcceptAlive
    <2>3. RefsInv(d)' BY <1>a, <2>1, <2>2 DEF EndpointInv, RefsInv
    <2>4. LifeInv(d)' BY <1>a, <2>2, Zenon DEF EndpointInv, LifeInv
    <2>5. StartInv(d)' BY <1>a, <2>1, <2>2 DEF EndpointInv, StartInv
    <2>. QED BY <2>3, <2>4, <2>5, Zenon DEF EndpointInv
  <1>6. ASSUME NEW b \in BOOLEAN, AcceptRegister(b) PROVE EndpointInv(d)'
    <2>1. dispatcher.pc = "register" /\ dispatcher'.pc = "accept" /\ x \in Conns
      BY <1>6, <1>b DEF AcceptRegister, Idle
    <2>2. UNCHANGED <<tcp, worker>>
      BY <1>6, Zenon DEF AcceptRegister
    <2>3. RefsInv(x) /\ LifeInv(x) /\ life[x] \in InUse /\ worker[x] = "none" /\ StartInv(x)
      BY <1>b, <2>1 DEF EndpointInv
    <2>4. CASE b /\ ~Failed(x)
      <3>1. /\ tcpReg' = [tcpReg EXCEPT ![x] = "live"]
            /\ refs' = [refs EXCEPT ![x] = @ \ {"accept"}]
            /\ UNCHANGED <<life, fd, endpoints>>
        BY <1>6, <2>4, Zenon DEF AcceptRegister
      <3>2. CASE d # x
        <4>1. Kept(d) BY <2>2, <3>1, <3>2 DEF Kept, ConnectTypes, ConnectTypeOK
        <4>. QED BY <1>a, <2>1, <3>2, <4>1, KeptApart
      <3>3. CASE d = x
        <4>1. life[d] = "alive" BY <2>3, <2>4, <3>3 DEF Failed, InUse
        <4>2. refs'[d] = refs[d] \ {"accept"}
          BY <3>1, <3>3 DEF ConnectTypes, ConnectTypeOK
        <4>3. RefsInv(d)' BY <2>1, <2>2, <2>3, <3>1, <3>3, <4>1, <4>2 DEF RefsInv
        <4>4. "creator" \in refs'[d] BY <2>3, <3>3, <4>1, <4>2 DEF RefsInv
        <4>5. LifeInv(d)' BY <2>3, <3>1, <3>3, <4>1, <4>4 DEF LifeInv, InUse
        <4>6. StartInv(d)' BY <2>1, <2>2, <2>3, <3>1, <3>3, <4>1 DEF StartInv
        <4>. QED BY <4>3, <4>5, <4>6, Zenon DEF EndpointInv
      <3>. QED BY <3>2, <3>3, Zenon
    <2>5. CASE ~(b /\ ~Failed(x))
      <3>1. Settle(x, TRUE, {"accept"})
        BY <1>6, <2>5, Zenon DEF AcceptRegister
      <3>2. CASE d # x
        <4>1. Kept(d) BY <2>1, <2>2, <3>1, <3>2, SettleEffect, Zenon DEF Kept, SettledApart
        <4>. QED BY <1>a, <2>1, <3>2, <4>1, KeptApart
      <3>3. CASE d = x
        <4>2. /\ "creator" \in refs'[d] <=> life'[d] = "alive"
              /\ \A y \in {"accept", "callback", "worker"} :
                    y \in refs'[d] <=> y \in refs[d] /\ y \notin {"accept"}
              /\ refs'[d] # {} <=> life'[d] \in InUse
              /\ d \in endpoints' <=> life'[d] \in InUse
              /\ life'[d] # "none"
              /\ life'[d] \in InUse => fd'[d] = fd[d]
          BY <2>1, <2>3, <3>1, <3>3, SettleKeeps
        <4>3. tcpReg'[d] = "live" => tcpReg[d] = "live"
          BY <2>1, <3>1, <3>3, SettleEffect, Zenon DEF Settled
        <4>4. RefsInv(d)' BY <2>1, <2>2, <2>3, <3>3, <4>2 DEF RefsInv
        <4>5. LifeInv(d)' BY <4>2, Zenon DEF LifeInv
        <4>6. StartInv(d)' BY <2>1, <2>2, <2>3, <3>3, <4>2, <4>3 DEF StartInv, InUse
        <4>. QED BY <4>4, <4>5, <4>6, Zenon DEF EndpointInv
      <3>. QED BY <3>2, <3>3, Zenon
    <2>. QED BY <2>4, <2>5, Zenon
  <1>7. ASSUME NEW b \in BOOLEAN, OnServerHandshake(b) PROVE EndpointInv(d)'
    <2>1. dispatcher.pc = "callback" /\ dispatcher'.pc = "wait" /\ x \in Conns
      BY <1>7, <1>b DEF OnServerHandshake, Idle
    <2>2. UNCHANGED tcp
      BY <1>7, Zenon DEF OnServerHandshake
    <2>3. RefsInv(x) /\ LifeInv(x) /\ life[x] \in InUse /\ worker[x] = "none" /\ StartInv(x)
      BY <1>b, <2>1 DEF EndpointInv
    <2>4. CASE ~(dispatcher.hup \/ ~b)
      <3>1. /\ worker' = [worker EXCEPT ![x] = "read"]
            /\ refs' = [refs EXCEPT ![x] = (@ \cup {"worker"}) \ {"callback"}]
            /\ UNCHANGED <<life, tcpReg, fd, endpoints>>
        BY <1>7, <2>4, Zenon DEF OnServerHandshake, WorkerRef
      <3>2. CASE d # x
        <4>1. Kept(d) BY <2>2, <3>1, <3>2 DEF Kept, ConnectTypes, ConnectTypeOK
        <4>. QED BY <1>a, <2>1, <3>2, <4>1, KeptApart
      <3>3. CASE d = x
        <4>1. worker'[d] = "read" /\ refs'[d] = (refs[d] \cup {"worker"}) \ {"callback"}
          BY <3>1, <3>3 DEF ConnectTypes, ConnectTypeOK
        <4>2. RefsInv(d)' BY <2>1, <2>3, <3>1, <3>3, <4>1 DEF RefsInv
        <4>3. LifeInv(d)' BY <2>3, <3>1, <3>3, <4>1 DEF LifeInv
        <4>4. tcpReg[d] # "live" BY <2>1, <2>3, <3>3, Zenon DEF StartInv
        <4>5. StartInv(d)' BY <2>1, <2>2, <2>3, <3>1, <3>3, <4>1, <4>4 DEF StartInv, InUse
        <4>. QED BY <4>2, <4>3, <4>5, Zenon DEF EndpointInv
      <3>. QED BY <3>2, <3>3, Zenon
    <2>5. CASE dispatcher.hup \/ ~b
      <3>1. Settle(x, TRUE, {"callback"}) /\ UNCHANGED worker
        BY <1>7, <2>5, Zenon DEF OnServerHandshake
      <3>2. CASE d # x
        <4>1. Kept(d) BY <2>1, <2>2, <3>1, <3>2, SettleEffect, Zenon DEF Kept, SettledApart
        <4>. QED BY <1>a, <2>1, <3>2, <4>1, KeptApart
      <3>3. CASE d = x
        <4>2. /\ "creator" \in refs'[d] <=> life'[d] = "alive"
              /\ \A y \in {"accept", "callback", "worker"} :
                    y \in refs'[d] <=> y \in refs[d] /\ y \notin {"callback"}
              /\ refs'[d] # {} <=> life'[d] \in InUse
              /\ d \in endpoints' <=> life'[d] \in InUse
              /\ life'[d] # "none"
              /\ life'[d] \in InUse => fd'[d] = fd[d]
          BY <2>1, <2>3, <3>1, <3>3, SettleKeeps
        <4>3. tcpReg'[d] = "live" => tcpReg[d] = "live"
          BY <2>1, <3>1, <3>3, SettleEffect, Zenon DEF Settled
        <4>4. RefsInv(d)' BY <2>1, <2>3, <3>1, <3>3, <4>2 DEF RefsInv
        <4>5. LifeInv(d)' BY <4>2, Zenon DEF LifeInv
        <4>6. StartInv(d)' BY <2>1, <2>2, <2>3, <3>1, <3>3, <4>2, <4>3 DEF StartInv, InUse
        <4>. QED BY <4>4, <4>5, <4>6, Zenon DEF EndpointInv
      <3>. QED BY <3>2, <3>3, Zenon
    <2>. QED BY <2>4, <2>5, Zenon
  <1>8. ASSUME NEW c \in Conns, Accept(c) PROVE EndpointInv(d)'
    <2>1. /\ dispatcher.pc = "accept" /\ dispatcher'.pc = "added" /\ dispatcher'.conn = c
          /\ tcp[c] = "backlog"
      BY <1>8 DEF Accept, Idle
    <2>2. /\ tcp' = [tcp EXCEPT ![c] = IF client[c] = "gone" THEN "reset" ELSE "open"]
          /\ fd' = [fd EXCEPT ![c] = "open"]
          /\ life' = [life EXCEPT ![c] = "alive"]
          /\ refs' = [refs EXCEPT ![c] = {"creator", "accept"}]
          /\ endpoints' = endpoints \cup {c}
          /\ UNCHANGED <<tcpReg, worker>>
      BY <1>8, Zenon DEF Accept
    <2>3. CASE d # c
      <3>1. Kept(d) BY <2>2, <2>3 DEF Kept, ConnectTypes, ConnectTypeOK
      <3>. QED BY <1>a, <2>1, <2>3, <3>1, KeptApart
    <2>4. CASE d = c
      <3>1. worker[d] = "none" BY <1>a, <2>1, <2>4 DEF EndpointInv, StartInv
      <3>2. /\ refs'[d] = {"creator", "accept"} /\ life'[d] = "alive" /\ fd'[d] = "open"
            /\ tcp'[d] \in {"open", "reset"} /\ worker'[d] = "none"
        BY <2>2, <2>4, <3>1 DEF ConnectTypes, ConnectTypeOK
      <3>3. RefsInv(d)' BY <2>1, <2>4, <3>2 DEF RefsInv
      <3>4. LifeInv(d)' BY <2>2, <2>4, <3>2 DEF LifeInv, InUse
      <3>5. StartInv(d)' BY <2>1, <2>4, <3>2 DEF StartInv
      <3>. QED BY <3>3, <3>4, <3>5, Zenon DEF EndpointInv
    <2>. QED BY <2>3, <2>4, Zenon
  <1>9. ASSUME NEW c \in Conns, AcceptCreateFails(c) PROVE EndpointInv(d)'
    <2>1. /\ dispatcher.pc = "accept" /\ dispatcher'.pc = "wait" /\ tcp[c] = "backlog"
      BY <1>9 DEF AcceptCreateFails, AcceptReturns, Idle
    <2>2. /\ tcp' = [tcp EXCEPT ![c] = "reset"]
          /\ fd' = [fd EXCEPT ![c] = "closed"]
          /\ UNCHANGED <<life, refs, tcpReg, endpoints, worker>>
      BY <1>9, Zenon DEF AcceptCreateFails
    <2>3. CASE d # c
      <3>1. Kept(d) BY <2>2, <2>3 DEF Kept, ConnectTypes, ConnectTypeOK
      <3>. QED BY <1>a, <2>1, <3>1, KeptApart
    <2>4. CASE d = c
      <3>1. life[d] = "none" BY <1>a, <2>1, <2>4 DEF EndpointInv, StartInv
      <3>2. RefsInv(d)' BY <1>a, <2>1, <2>2 DEF EndpointInv, RefsInv
      <3>3. LifeInv(d)' BY <1>a, <2>2, Zenon DEF EndpointInv, LifeInv
      <3>4. StartInv(d)' BY <1>a, <2>1, <2>2, <3>1 DEF EndpointInv, StartInv, InUse
      <3>. QED BY <3>2, <3>3, <3>4, Zenon DEF EndpointInv
    <2>. QED BY <2>3, <2>4, Zenon
  <1>10. ASSUME NEW c \in Conns, NEW b \in BOOLEAN, DispatchConn(c, b) PROVE EndpointInv(d)'
    <2>1. CASE ~(tcpReg[c] = "live" /\ life[c] = "alive")
      BY <1>0, <1>10, <2>1, Zenon DEF DispatchConn
    <2>2. CASE tcpReg[c] = "live" /\ life[c] = "alive"
      <3>1. /\ dispatcher.pc = "wait" /\ dispatcher'.pc = "callback" /\ dispatcher'.conn = c
            /\ refs' = [refs EXCEPT ![c] = @ \cup {"callback"}]
            /\ tcpReg' = [tcpReg EXCEPT ![c] = "gone"]
            /\ UNCHANGED <<tcp, life, fd, endpoints, worker>>
        BY <1>10, <2>2 DEF DispatchConn, Idle
      <3>2. CASE d # c
        <4>1. Kept(d) BY <3>1, <3>2 DEF Kept, ConnectTypes, ConnectTypeOK
        <4>. QED BY <1>a, <3>1, <3>2, <4>1, KeptApart
      <3>3. CASE d = c
        <4>1. worker[d] = "none" BY <1>a, <2>2, <3>3 DEF EndpointInv, StartInv
        <4>2. refs'[d] = refs[d] \cup {"callback"} /\ tcpReg'[d] = "gone"
          BY <3>1, <3>3 DEF ConnectTypes, ConnectTypeOK
        <4>3. RefsInv(d)' BY <1>a, <3>1, <3>3, <4>2 DEF EndpointInv, RefsInv
        <4>4. LifeInv(d)' BY <1>a, <2>2, <3>1, <3>3, <4>2 DEF EndpointInv, LifeInv, InUse
        <4>5. StartInv(d)' BY <1>a, <3>1, <4>1, <4>2 DEF EndpointInv, StartInv
        <4>. QED BY <4>3, <4>4, <4>5, Zenon DEF EndpointInv
      <3>. QED BY <3>2, <3>3, Zenon
    <2>. QED BY <2>1, <2>2, Zenon
  <1>11. ASSUME NEW c \in Conns, NEW from \in Shaking, NEW to \in Shaking, Work(c, from, to)
         PROVE  EndpointInv(d)'
    BY <1>11, <1>a, WorkKeeps, Zenon
  <1>15. ASSUME NEW c \in Conns, HsClose(c) PROVE EndpointInv(d)'
    <2>1. /\ worker[c] \in {"good", "bad"}
          /\ worker' = [worker EXCEPT ![c] = IF @ = "good" THEN "goodEnd" ELSE "badEnd"]
          /\ fd' = [fd EXCEPT ![c] = "closed"]
          /\ UNCHANGED <<tcp, life, refs, tcpReg, endpoints, dispatcher>>
      BY <1>15, Zenon DEF HsClose
    <2>2. CASE d # c
      <3>1. Kept(d) BY <2>1, <2>2 DEF Kept, ConnectTypes, ConnectTypeOK
      <3>. QED BY <1>a, <2>1, <3>1, KeptSame, Zenon
    <2>3. CASE d = c
      <3>1. worker[d] \in {"good", "bad"} /\ worker'[d] \in {"goodEnd", "badEnd"}
        BY <2>1, <2>3 DEF ConnectTypes, ConnectTypeOK
      <3>2. RefsInv(d)' BY <1>a, <2>1, <3>1 DEF EndpointInv, RefsInv
      <3>3. LifeInv(d)' BY <1>a, <2>1, Zenon DEF EndpointInv, LifeInv
      <3>4. StartInv(d)' BY <1>a, <2>1, <3>1 DEF EndpointInv, StartInv
      <3>. QED BY <3>2, <3>3, <3>4, Zenon DEF EndpointInv
    <2>. QED BY <2>2, <2>3, Zenon
  <1>16. ASSUME NEW c \in Conns, HsEnd(c) PROVE EndpointInv(d)'
    <2>1. PICK ok \in BOOLEAN : Settle(c, ~ok, {"worker"})
      BY <1>16, Zenon DEF HsEnd
    <2>2. /\ worker[c] \in {"goodEnd", "badEnd"} /\ worker' = [worker EXCEPT ![c] = "end"]
          /\ UNCHANGED <<tcp, dispatcher>>
      BY <1>16, Zenon DEF HsEnd
    <2>3. CASE d # c
      <3>1. worker'[d] = worker[d] BY <2>2, <2>3 DEF ConnectTypes, ConnectTypeOK
      <3>2. Kept(d) BY <2>1, <2>2, <2>3, <3>1, SettleEffect, Zenon DEF Kept, SettledApart
      <3>. QED BY <1>a, <2>2, <3>2, KeptSame, Zenon
    <2>4. CASE d = c
      <3>1. worker'[d] = "end" /\ "worker" \in refs[d]
        BY <1>a, <2>2, <2>4 DEF EndpointInv, RefsInv, ConnectTypes, ConnectTypeOK
      <3>2. RefsInv(d) /\ LifeInv(d) /\ life[d] \in InUse /\ StartInv(d)
        BY <1>a, <3>1 DEF EndpointInv, LifeInv
      <3>3. /\ "creator" \in refs'[d] <=> life'[d] = "alive"
            /\ \A y \in {"accept", "callback", "worker"} :
                  y \in refs'[d] <=> y \in refs[d] /\ y \notin {"worker"}
            /\ refs'[d] # {} <=> life'[d] \in InUse
            /\ d \in endpoints' <=> life'[d] \in InUse
            /\ life'[d] # "none"
        BY <2>1, <2>4, <3>2, SettleKeeps
      <3>4. tcpReg'[d] = "live" => tcpReg[d] = "live"
        BY <2>1, <2>4, SettleEffect, Zenon DEF Settled
      <3>5. RefsInv(d)' BY <2>2, <3>1, <3>2, <3>3 DEF RefsInv
      <3>6. LifeInv(d)' BY <3>3, Zenon DEF LifeInv
      <3>7. StartInv(d)' BY <2>2, <2>4, <3>1, <3>2, <3>3, <3>4 DEF StartInv, InUse
      <3>. QED BY <3>5, <3>6, <3>7, Zenon DEF EndpointInv
    <2>. QED BY <2>3, <2>4, Zenon
  <1>17. ASSUME NEW c \in Conns, life[c] = "alive", Settle(c, TRUE, {}),
                UNCHANGED <<tcp, worker, dispatcher>>
         PROVE  EndpointInv(d)'
    <2>1. CASE d # c
      <3>1. Kept(d) BY <1>17, <2>1, SettleEffect, Zenon DEF Kept, SettledApart
      <3>. QED BY <1>a, <1>17, <3>1, KeptSame, Zenon
    <2>2. CASE d = c
      <3>1. RefsInv(d) /\ LifeInv(d) /\ life[d] \in InUse /\ StartInv(d)
        BY <1>a, <1>17, <2>2 DEF EndpointInv, InUse
      <3>2. /\ "creator" \in refs'[d] <=> life'[d] = "alive"
            /\ \A y \in {"accept", "callback", "worker"} :
                  y \in refs'[d] <=> y \in refs[d] /\ y \notin {}
            /\ refs'[d] # {} <=> life'[d] \in InUse
            /\ d \in endpoints' <=> life'[d] \in InUse
            /\ life'[d] # "none"
            /\ life'[d] \in InUse => fd'[d] = fd[d]
        BY <1>17, <2>2, <3>1, SettleKeeps
      <3>3. tcpReg'[d] = "live" => tcpReg[d] = "live"
        BY <1>17, <2>2, SettleEffect, Zenon DEF Settled
      <3>4. RefsInv(d)' BY <1>17, <3>1, <3>2 DEF RefsInv
      <3>5. LifeInv(d)' BY <3>2, Zenon DEF LifeInv
      <3>6. StartInv(d)' BY <1>17, <2>2, <3>1, <3>2, <3>3 DEF StartInv, InUse
      <3>. QED BY <3>4, <3>5, <3>6, Zenon DEF EndpointInv
    <2>. QED BY <2>1, <2>2, Zenon
  <1>19. ASSUME tcp'[d] \in {"none", "backlog"} => tcp[d] \in {"none", "backlog"},
                UNCHANGED <<life, refs, tcpReg, fd, worker, endpoints, dispatcher>>
         PROVE  EndpointInv(d)'
    <2>2. RefsInv(d)' BY <1>a, <1>19, Zenon DEF EndpointInv, RefsInv
    <2>3. LifeInv(d)' BY <1>a, <1>19, Zenon DEF EndpointInv, LifeInv
    <2>4. StartInv(d)' BY <1>a, <1>19, Zenon DEF EndpointInv, StartInv
    <2>. QED BY <2>2, <2>3, <2>4, Zenon DEF EndpointInv
  <1> HIDE DEF x
  <1>20. ASSUME DispatcherStep PROVE EndpointInv(d)'
    <2>1. CASE EpollWait BY <2>1, <1>0, Zenon DEF EpollWait
    <2>2. CASE DispatchListener BY <2>2, <1>1 DEF DispatchListener, Idle
    <2>3. CASE AcceptNone BY <2>3, <1>1 DEF AcceptNone, AcceptReturns, Idle
    <2>. QED
      BY <1>20, <1>4, <1>5, <1>6, <1>7, <1>8, <1>9, <1>10, <2>1, <2>2, <2>3, Zenon
         DEF DispatcherStep
  <1>21. ASSUME NEW c \in Conns, WorkerStep(c) PROVE EndpointInv(d)'
    <2>1. CASE HsReadFails(c) BY <2>1, <1>11, Zenon DEF HsReadFails, Shaking
    <2>2. CASE HsReadHello(c) BY <2>2, <1>11 DEF HsReadHello, Shaking
    <2>3. CASE HsWriteHello(c) BY <2>3, <1>11 DEF HsWriteHello, Shaking
    <2>4. CASE HsReadAck(c) BY <2>4, <1>11, Zenon DEF HsReadAck, Shaking
    <2>5. ASSUME NEW ok \in BOOLEAN, HsUp(c, ok) PROVE EndpointInv(d)'
      BY <2>5, <1>11 DEF HsUp, Shaking
    <2>. QED BY <1>21, <1>15, <1>16, <2>1, <2>2, <2>3, <2>4, <2>5, Zenon DEF WorkerStep
  <1>22. ASSUME CloseStop \/ CloserStep PROVE EndpointInv(d)'
    <2>1. CASE CloseStop BY <2>1, <1>0, Zenon DEF CloseStop
    <2>2. CASE CloseUnregister BY <2>2, <1>0, Zenon DEF CloseUnregister
    <2>3. CASE CloseListener
      <3>1. tcp'[d] \in {"none", "backlog"} => tcp[d] \in {"none", "backlog"}
        BY <2>3 DEF CloseListener
      <3>. QED BY <2>3, <3>1, <1>19, Zenon DEF CloseListener
    <2>4. CASE CloseFailed BY <2>4, <1>0, Zenon DEF CloseFailed
    <2>5. CASE CloseDone BY <2>5, <1>0, Zenon DEF CloseDone
    <2>6. ASSUME NEW c \in Conns, CloseFail(c) PROVE EndpointInv(d)'
      <3>1. CASE life[c] = "alive" BY <2>6, <3>1, <1>17, Zenon DEF CloseFail
      <3>2. CASE life[c] # "alive" BY <2>6, <3>2, <1>0, Zenon DEF CloseFail
      <3>. QED BY <3>1, <3>2, Zenon
    <2>. QED BY <1>22, <2>1, <2>2, <2>3, <2>4, <2>5, <2>6, Zenon DEF CloserStep
  <1>23. ASSUME NEW c \in Conns, PeerStep(c) PROVE EndpointInv(d)'
    <2>1. CASE PeerConnects(c)
      <3>1. tcp'[d] \in {"none", "backlog"} => tcp[d] \in {"none", "backlog"}
        BY <2>1 DEF PeerConnects, ConnectTypes, ConnectTypeOK
      <3>. QED BY <2>1, <3>1, <1>19, Zenon DEF PeerConnects
    <2>2. CASE PeerUp(c) BY <2>2, <1>0, Zenon DEF PeerUp
    <2>3. CASE PeerGone(c)
      <3>1. tcp'[d] \in {"none", "backlog"} => tcp[d] \in {"none", "backlog"}
        BY <2>3 DEF PeerGone, ConnectTypes, ConnectTypeOK
      <3>. QED BY <2>3, <3>1, <1>19, Zenon DEF PeerGone
    <2>4. ASSUME NEW h \in {"hello", "bad"}, PeerHello(c, h) PROVE EndpointInv(d)'
      BY <2>4, <1>0, Zenon DEF PeerHello
    <2>. QED BY <1>23, <2>1, <2>2, <2>3, <2>4, Zenon DEF PeerStep
  <1>24. ASSUME NEW c \in Conns, PeerLost(c) PROVE EndpointInv(d)'
    BY <1>24, <1>17, Zenon DEF PeerLost
  <1>25. CASE UNCHANGED connectVars
    BY <1>25, <1>0, Zenon DEF connectVars
  <1>. QED BY <1>20, <1>21, <1>22, <1>23, <1>24, <1>25, Zenon DEF ConnectNext

\* Nothing that HelloInv(d) speaks of changes.
HelloKept(d) ==
    /\ toServer'[d] = toServer[d] /\ toClient'[d] = toClient[d] /\ client'[d] = client[d]
    /\ clientUp'[d] = clientUp[d] /\ qpUp'[d] = qpUp[d] /\ worker'[d] = worker[d]
    /\ handshake_ok'[d] = handshake_ok[d]

\* Every step of Connect keeps what the messages in flight say.
LEMMA HelloStep ==
  ASSUME ConnectTypes, \A c \in Conns : EndpointInv(c) /\ HelloInv(c), [ConnectNext]_connectVars,
         NEW d \in Conns
  PROVE  HelloInv(d)'
  <1> USE DEF peerVars, loopVars, lifeVars, serverVars
  <1>a. HelloInv(d) BY Zenon
  <1>0. CASE UNCHANGED <<toServer, toClient, client, clientUp, qpUp, worker, handshake_ok>>
    BY <1>0, <1>a, Zenon DEF HelloInv
  <1>1. CASE HelloKept(d)
    BY <1>1, <1>a, Zenon DEF HelloInv, HelloKept
  <1> USE DEF ConnectTypes, ConnectTypeOK
  <1>7. ASSUME NEW b \in BOOLEAN, OnServerHandshake(b) PROVE HelloInv(d)'
    <2>1. CASE worker' = worker
      BY <1>7, <2>1, <1>0, Zenon DEF OnServerHandshake
    <2>2. CASE worker' # worker
      <3> DEFINE x == dispatcher.conn
      <3>1. worker' = [worker EXCEPT ![x] = "read"] /\ dispatcher.pc = "callback" /\ x \in Conns
        BY <1>7, <2>2 DEF OnServerHandshake, DispatcherOk
      <3>2. worker[x] = "none" BY <3>1 DEF EndpointInv, StartInv
      <3>3. UNCHANGED <<toServer, toClient, client, clientUp, qpUp, handshake_ok>>
        BY <1>7, Zenon DEF OnServerHandshake
      <3>4. CASE d # x
        <4>1. HelloKept(d) BY <3>1, <3>3, <3>4 DEF HelloKept
        <4>. QED BY <4>1, <1>1, Zenon
      <3>5. CASE d = x
        <4>1. worker'[d] = "read" /\ worker[d] = "none" BY <3>1, <3>2, <3>5
        <4>. QED BY <1>a, <3>3, <4>1, Zenon DEF HelloInv
      <3>. QED BY <3>4, <3>5, Zenon
    <2>. QED BY <2>1, <2>2, Zenon
  <1>11. ASSUME NEW c \in Conns, HsReadFails(c) PROVE HelloInv(d)'
    <2>1. CASE d # c
      <3>1. HelloKept(d) BY <1>11, <2>1 DEF HsReadFails, Work, HelloKept
      <3>. QED BY <3>1, <1>1, Zenon
    <2>2. CASE d = c
      <3>1. /\ worker[d] \in {"read", "ack"} /\ worker'[d] = "bad"
            /\ UNCHANGED <<toServer, toClient, client, clientUp, qpUp, handshake_ok>>
        BY <1>11, <2>2 DEF HsReadFails, Work
      <3>. QED BY <1>a, <3>1, Zenon DEF HelloInv
    <2>. QED BY <2>1, <2>2, Zenon
  <1>12. ASSUME NEW c \in Conns, HsReadHello(c) PROVE HelloInv(d)'
    <2>1. CASE d # c
      <3>1. HelloKept(d) BY <1>12, <2>1 DEF HsReadHello, Work, HelloKept
      <3>. QED BY <3>1, <1>1, Zenon
    <2>2. CASE d = c
      <3>1. /\ worker[d] = "read" /\ worker'[d] \in {"up", "bad"} /\ toServer[d] # <<>>
            /\ toServer'[d] = Tail(toServer[d])
            /\ UNCHANGED <<toClient, client, clientUp, qpUp, handshake_ok>>
        BY <1>12, <2>2 DEF HsReadHello, Work
      <3>2. client[d] # "idle" /\ client[d] # "ok" /\ toClient[d] = <<>> /\ Len(toServer[d]) <= 1
        BY <1>a, <3>1, Zenon DEF HelloInv
      <3>3. toServer[d] \in Seq({"hello", "bad", "ack"})
        OBVIOUS
      <3>4. toServer'[d] = <<>>
        BY <3>1, <3>2, <3>3
      <3>. QED BY <1>a, <3>1, <3>2, <3>4, Zenon DEF HelloInv
    <2>. QED BY <2>1, <2>2, Zenon
  <1>13. ASSUME NEW c \in Conns, HsWriteHello(c) PROVE HelloInv(d)'
    <2>1. CASE d # c
      <3>1. HelloKept(d) BY <1>13, <2>1 DEF HsWriteHello, Work, HelloKept
      <3>. QED BY <3>1, <1>1, Zenon
    <2>2. CASE d = c
      <3>1. /\ worker[d] = "write" /\ worker'[d] \in {"ack", "bad"}
            /\ UNCHANGED <<toServer, client, clientUp, qpUp, handshake_ok>>
        BY <1>13, <2>2 DEF HsWriteHello, Work
      <3>. QED BY <1>a, <3>1, Zenon DEF HelloInv
    <2>. QED BY <2>1, <2>2, Zenon
  <1>14. ASSUME NEW c \in Conns, HsReadAck(c) PROVE HelloInv(d)'
    <2>1. CASE d # c
      <3>1. HelloKept(d) BY <1>14, <2>1 DEF HsReadAck, Work, HelloKept
      <3>. QED BY <3>1, <1>1, Zenon
    <2>2. CASE d = c
      <3>1. /\ worker[d] = "ack" /\ worker'[d] = "good" /\ toServer[d] # <<>>
            /\ UNCHANGED <<toClient, client, clientUp, qpUp, handshake_ok>>
        BY <1>14, <2>2 DEF HsReadAck, Work
      <3>. QED BY <1>a, <3>1, Zenon DEF HelloInv
    <2>. QED BY <2>1, <2>2, Zenon
  <1>15. ASSUME NEW c \in Conns, HsClose(c) PROVE HelloInv(d)'
    <2>1. CASE d # c
      <3>1. HelloKept(d) BY <1>15, <2>1 DEF HsClose, HelloKept
      <3>. QED BY <3>1, <1>1, Zenon
    <2>2. CASE d = c
      <3>1. /\ worker[d] \in {"good", "bad"}
            /\ worker'[d] = IF worker[d] = "good" THEN "goodEnd" ELSE "badEnd"
            /\ UNCHANGED <<toServer, toClient, client, clientUp, qpUp, handshake_ok>>
        BY <1>15, <2>2 DEF HsClose
      <3>. QED BY <1>a, <3>1, Zenon DEF HelloInv
    <2>. QED BY <2>1, <2>2, Zenon
  <1>16. ASSUME NEW c \in Conns, HsEnd(c) PROVE HelloInv(d)'
    <2>1. CASE d # c
      <3>1. HelloKept(d) BY <1>16, <2>1 DEF HsEnd, HelloKept
      <3>. QED BY <3>1, <1>1, Zenon
    <2>2. CASE d = c
      <3>1. /\ worker[d] \in {"goodEnd", "badEnd"} /\ worker'[d] = "end"
            /\ handshake_ok'[d] => worker[d] = "goodEnd"
            /\ UNCHANGED <<toServer, toClient, client, clientUp, qpUp>>
        <4>1. PICK ok \in BOOLEAN : /\ handshake_ok' = [handshake_ok EXCEPT ![c] = ok]
                                    /\ ok => worker[c] = "goodEnd"
          BY <1>16, Zenon DEF HsEnd
        <4>. QED BY <1>16, <2>2, <4>1 DEF HsEnd
      <3>. QED BY <1>a, <3>1, Zenon DEF HelloInv
    <2>. QED BY <2>1, <2>2, Zenon
  <1>17. ASSUME NEW c \in Conns, NEW ok \in BOOLEAN, HsUp(c, ok) PROVE HelloInv(d)'
    <2>1. CASE d # c
      <3>1. HelloKept(d) BY <1>17, <2>1 DEF HsUp, Work, HelloKept
      <3>. QED BY <3>1, <1>1, Zenon
    <2>2. CASE d = c
      <3>1. /\ worker[d] = "up" /\ worker'[d] = (IF ok THEN "write" ELSE "bad") /\ qpUp'[d] = ok
            /\ UNCHANGED <<toServer, toClient, client, clientUp, handshake_ok>>
        BY <1>17, <2>2 DEF HsUp, Work
      <3>. QED BY <1>a, <3>1, Zenon DEF HelloInv
    <2>. QED BY <2>1, <2>2, Zenon
  <1>25. ASSUME NEW c \in Conns, PeerUp(c) PROVE HelloInv(d)'
    <2>1. CASE d # c
      <3>1. HelloKept(d) BY <1>25, <2>1 DEF PeerUp, HelloKept
      <3>. QED BY <3>1, <1>1, Zenon
    <2>2. CASE d = c
      <3>1. /\ toClient[d] # <<>> /\ clientUp'[d] = TRUE /\ client'[d] = "ok"
            /\ UNCHANGED <<qpUp, worker, handshake_ok>>
        BY <1>25, <2>2 DEF PeerUp
      <3>. QED BY <1>a, <3>1, Zenon DEF HelloInv
    <2>. QED BY <2>1, <2>2, Zenon
  <1>26. ASSUME NEW c \in Conns, PeerGone(c) PROVE HelloInv(d)'
    <2>1. CASE d # c
      <3>1. HelloKept(d) BY <1>26, <2>1 DEF PeerGone, HelloKept
      <3>. QED BY <3>1, <1>1, Zenon
    <2>2. CASE d = c
      <3>1. /\ client'[d] = "gone"
            /\ UNCHANGED <<toServer, toClient, clientUp, qpUp, worker, handshake_ok>>
        BY <1>26, <2>2 DEF PeerGone
      <3>. QED BY <1>a, <3>1, Zenon DEF HelloInv
    <2>. QED BY <2>1, <2>2, Zenon
  <1>27. ASSUME NEW c \in Conns, NEW h \in {"hello", "bad"}, PeerHello(c, h) PROVE HelloInv(d)'
    <2>1. CASE d # c
      <3>1. HelloKept(d) BY <1>27, <2>1 DEF PeerHello, HelloKept
      <3>. QED BY <3>1, <1>1, Zenon
    <2>2. CASE d = c
      <3>1. /\ client[d] = "idle" /\ client'[d] = "read"
            /\ toServer'[d] = Append(toServer[d], h)
            /\ UNCHANGED <<toClient, clientUp, qpUp, worker, handshake_ok>>
        BY <1>27, <2>2 DEF PeerHello
      <3>2. toServer[d] = <<>> => Len(toServer'[d]) <= 1
        BY <3>1
      <3>. QED BY <1>a, <3>1, <3>2, Zenon DEF HelloInv
    <2>. QED BY <2>1, <2>2, Zenon
  <1> HIDE DEF ConnectTypes, ConnectTypeOK
  <1>30. ASSUME DispatcherStep PROVE HelloInv(d)'
    BY <1>30, <1>0, <1>7, Zenon
       DEF DispatcherStep, EpollWait, DispatchListener, AcceptNone, AcceptStopping, AcceptAlive,
           AcceptRegister, Accept, AcceptCreateFails, DispatchConn
  <1>31. ASSUME CloseStop \/ CloserStep PROVE HelloInv(d)'
    BY <1>31, <1>0, Zenon
       DEF CloseStop, CloserStep, CloseUnregister, CloseListener, CloseFailed, CloseDone, CloseFail
  <1>32. ASSUME NEW c \in Conns, PeerStep(c) PROVE HelloInv(d)'
    <2>1. CASE PeerConnects(c) BY <2>1, <1>0, Zenon DEF PeerConnects
    <2>. QED BY <1>32, <2>1, <1>25, <1>26, <1>27, Zenon DEF PeerStep
  <1>33. ASSUME NEW c \in Conns, WorkerStep(c) PROVE HelloInv(d)'
    BY <1>33, <1>11, <1>12, <1>13, <1>14, <1>15, <1>16, <1>17, Zenon DEF WorkerStep
  <1>34. ASSUME NEW c \in Conns, PeerLost(c) PROVE HelloInv(d)'
    BY <1>34, <1>0, Zenon DEF PeerLost
  <1>35. CASE UNCHANGED connectVars
    BY <1>35, <1>0, Zenon DEF connectVars
  <1>. QED BY <1>30, <1>31, <1>32, <1>33, <1>34, <1>35, Zenon DEF ConnectNext

\* Every step of Connect keeps how far Close() has come.
LEMMA CloseStep ==
  ASSUME ConnectTypes, \A c \in Conns : EndpointInv(c), CloseInv, [ConnectNext]_connectVars
  PROVE  CloseInv'
  <1> USE DEF peerVars, loopVars, lifeVars, serverVars
  \* Only accept4 makes an endpoint.
  <1>a. ASSUME NEW c \in Conns, NEW fails \in BOOLEAN, NEW drops, Settle(c, fails, drops),
               life[c] \in InUse
        PROVE  /\ \A d \in Conns : life'[d] = "alive" => life[d] = "alive"
               /\ endpoints' \subseteq endpoints
               /\ fails => life'[c] # "alive"
    <2>1. /\ \A d \in Conns \ {c} : life'[d] = life[d] /\ (d \in endpoints' <=> d \in endpoints)
          /\ refs'[c] = {} => life'[c] = "recycled" /\ c \notin endpoints'
          /\ refs'[c] # {} => /\ life'[c] = IF fails THEN "failed" ELSE life[c]
                              /\ c \in endpoints' <=> c \in endpoints
          /\ endpoints' \subseteq Conns
      <3>1. SettledApart(c) /\ Settled(c, fails, drops) /\ LifeTypes'
        BY <1>a, SettleEffect, Zenon
      <3>. QED BY <3>1 DEF SettledApart, Settled, LifeTypes
    <2>. QED BY <2>1
  <1>b. dispatcher.pc \in {"added", "register", "callback"} =>
           dispatcher.conn \in Conns /\ life[dispatcher.conn] \in InUse
    BY DEF ConnectTypes, DispatcherOk, EndpointInv, RefsInv, LifeInv
  <1>1. CASE /\ UNCHANGED <<listenReg, listener_recycled, closer, closeIds>>
             /\ dispatcher'.pc \in Accepting => dispatcher.pc \in Accepting
             /\ \A d \in Conns : life'[d] = "alive" => life[d] = "alive"
             /\ endpoints' \subseteq endpoints
    BY <1>1 DEF CloseInv
  <1>2. CASE UNCHANGED <<listenReg, listener_recycled, closer, closeIds, dispatcher, life, endpoints>>
    BY <1>2, Zenon DEF CloseInv
  <1>3. CASE DispatchListener
    BY <1>3 DEF DispatchListener, CloseInv, Idle, Accepting
  <1>4. CASE AcceptNone
    BY <1>4 DEF AcceptNone, AcceptReturns, CloseInv, Idle, Accepting, ConnectTypes, ConnectTypeOK
  <1>5. CASE AcceptStopping
    <2>1. Settle(dispatcher.conn, dispatcher.saw, {"accept"}) /\ dispatcher.saw \in BOOLEAN
      BY <1>5 DEF AcceptStopping, ConnectTypes, DispatcherOk
    <2>2. /\ \A d \in Conns : life'[d] = "alive" => life[d] = "alive"
          /\ endpoints' \subseteq endpoints
      BY <1>5, <1>a, <1>b, <2>1 DEF AcceptStopping
    <2>. QED BY <1>5, <2>2
            DEF AcceptStopping, AcceptReturns, CloseInv, Idle, Accepting, ConnectTypes, ConnectTypeOK
  <1>6. CASE AcceptAlive
    <2>1. dispatcher.pc = "added" BY <1>6, Zenon DEF AcceptAlive
    <2>. QED BY <1>6, <2>1, <1>1 DEF AcceptAlive, Accepting
  <1>7. ASSUME NEW b \in BOOLEAN, AcceptRegister(b) PROVE CloseInv'
    <2>1. dispatcher.pc = "register" BY <1>7, Zenon DEF AcceptRegister
    <2>2. /\ \A d \in Conns : life'[d] = "alive" => life[d] = "alive"
          /\ endpoints' \subseteq endpoints
      BY <1>7, <1>a, <1>b, <2>1 DEF AcceptRegister
    <2>. QED BY <1>7, <2>1, <2>2, <1>1 DEF AcceptRegister, Accepting
  <1>8. ASSUME NEW b \in BOOLEAN, OnServerHandshake(b) PROVE CloseInv'
    <2>1. dispatcher.pc = "callback" /\ dispatcher'.pc = "wait" BY <1>8 DEF OnServerHandshake, Idle
    <2>2. /\ \A d \in Conns : life'[d] = "alive" => life[d] = "alive"
          /\ endpoints' \subseteq endpoints
      BY <1>8, <1>a, <1>b, <2>1 DEF OnServerHandshake
    <2>. QED BY <1>8, <2>1, <2>2, <1>1 DEF OnServerHandshake, Accepting
  <1>9. ASSUME NEW c \in Conns, Accept(c) PROVE CloseInv'
    <2>1. dispatcher.pc = "accept" /\ dispatcher'.pc = "added"
          /\ UNCHANGED <<listenReg, listener_recycled, closer>>
      BY <1>9 DEF Accept, Idle
    <2>2. closer \notin {"fail", "drain", "done"} /\ ~listener_recycled
      BY <2>1 DEF CloseInv, Accepting
    <2>. QED BY <2>1, <2>2 DEF CloseInv
  <1>10. ASSUME NEW c \in Conns, AcceptCreateFails(c) PROVE CloseInv'
    BY <1>10 DEF AcceptCreateFails, AcceptReturns, CloseInv, Idle, Accepting, ConnectTypes,
                 ConnectTypeOK
  <1>11. ASSUME NEW c \in Conns, NEW b \in BOOLEAN, DispatchConn(c, b) PROVE CloseInv'
    <2>1. dispatcher'.pc \in Accepting => dispatcher.pc \in Accepting
      BY <1>11 DEF DispatchConn, Idle, Accepting
    <2>. QED BY <1>11, <2>1, <1>1, Zenon DEF DispatchConn
  <1>12. ASSUME NEW c \in Conns, HsEnd(c) PROVE CloseInv'
    <2>1. PICK ok \in BOOLEAN : Settle(c, ~ok, {"worker"})
      BY <1>12, Zenon DEF HsEnd
    <2>2. life[c] \in InUse BY <1>12 DEF HsEnd, EndpointInv, RefsInv, LifeInv
    <2>3. /\ \A d \in Conns : life'[d] = "alive" => life[d] = "alive"
          /\ endpoints' \subseteq endpoints
      BY <1>a, <2>1, <2>2
    <2>. QED BY <1>12, <2>3, <1>1, Zenon DEF HsEnd
  <1>13. ASSUME NEW c \in Conns, PeerLost(c) PROVE CloseInv'
    <2>1. /\ \A d \in Conns : life'[d] = "alive" => life[d] = "alive"
          /\ endpoints' \subseteq endpoints
      BY <1>13, <1>a DEF PeerLost, InUse
    <2>. QED BY <1>13, <2>1, <1>1, Zenon DEF PeerLost
  <1>14. CASE CloseStop BY <1>14 DEF CloseStop, CloseInv
  <1>15. CASE CloseUnregister BY <1>15 DEF CloseUnregister, CloseInv, Accepting
  <1>16. CASE CloseListener
    <2>1. \A c \in Conns : life[c] = "alive" => c \in endpoints
      BY DEF EndpointInv, LifeInv, InUse
    <2>. QED BY <1>16, <2>1 DEF CloseListener, CloseInv, ListenerDone
  <1>17. CASE CloseFailed BY <1>17 DEF CloseFailed, CloseInv
  <1>18. CASE CloseDone BY <1>18 DEF CloseDone, CloseInv
  <1>19. ASSUME NEW c \in Conns, CloseFail(c) PROVE CloseInv'
    <2>1. /\ closer = "fail" /\ closeIds' = closeIds \ {c}
          /\ UNCHANGED <<listenReg, listener_recycled, closer, dispatcher>>
      BY <1>19, Zenon DEF CloseFail
    <2>2. CASE life[c] = "alive"
      <3>1. /\ \A d \in Conns : life'[d] = "alive" => life[d] = "alive"
            /\ life'[c] # "alive"
        BY <1>19, <1>a, <2>2 DEF CloseFail, InUse
      <3>. QED BY <2>1, <3>1 DEF CloseInv
    <2>3. CASE life[c] # "alive"
      BY <1>19, <2>1, <2>3 DEF CloseFail, CloseInv
    <2>. QED BY <2>2, <2>3, Zenon
  <1>20. ASSUME NEW c \in Conns, PeerStep(c) PROVE CloseInv'
    BY <1>20, <1>2, Zenon DEF PeerStep, PeerConnects, PeerUp, PeerGone, PeerHello
  <1>21. ASSUME NEW c \in Conns, WorkerStep(c) PROVE CloseInv'
    BY <1>21, <1>2, <1>12, Zenon DEF WorkerStep, HsReadFails, HsReadHello, HsWriteHello, HsReadAck,
       HsClose, HsUp, Work
  <1>22. CASE EpollWait BY <1>22, <1>2, Zenon DEF EpollWait
  <1>23. CASE UNCHANGED connectVars
    BY <1>23, <1>2, Zenon DEF connectVars
  <1>. QED
    BY <1>3, <1>4, <1>5, <1>6, <1>7, <1>8, <1>9, <1>10, <1>11, <1>13, <1>14, <1>15, <1>16, <1>17,
       <1>18, <1>19, <1>20, <1>21, <1>22, <1>23, Zenon
       DEF ConnectNext, DispatcherStep, CloserStep

\* The invariant is inductive, and stronger than what the run checks.
LEMMA ConnectInvInit == ConnectInit => ConnectInv
  <1> SUFFICES ASSUME ConnectInit PROVE ConnectInv
    BY Zenon
  <1>1. DispatcherOk(dispatcher) /\ dispatcher.pc = "wait"
    BY DispatcherRecords DEF ConnectInit, Idle
  <1>2. ConnectTypes
    <2>1. /\ tcp \in [Conns -> {"none", "backlog", "open", "reset"}]
          /\ client \in [Conns -> {"idle", "read", "ok", "gone"}]
          /\ clientUp \in [Conns -> BOOLEAN] /\ qpUp \in [Conns -> BOOLEAN]
      BY DEF ConnectInit
    <2>2. /\ toServer \in [Conns -> Seq({"hello", "bad", "ack"})]
          /\ toClient \in [Conns -> Seq({"hello"})]
      BY DEF ConnectInit
    <2>3. LifeTypes
      BY DEF ConnectInit, LifeTypes
    <2>4. /\ handshake_ok \in [Conns -> BOOLEAN] /\ stopping \in BOOLEAN
          /\ worker \in [Conns -> {"none", "read", "up", "write", "ack", "good", "bad", "goodEnd",
                                  "badEnd", "end"}]
          /\ closer \in {"open", "unregister", "wait", "fail", "drain", "done"}
          /\ edge \subseteq Conns \cup {"listener"} /\ batch \subseteq Conns \cup {"listener"}
          /\ listenReg \in {"live", "failed"} /\ listener_recycled \in BOOLEAN
          /\ closeIds \subseteq Conns
      BY DEF ConnectInit
    <2>. QED BY <1>1, <2>1, <2>2, <2>3, <2>4, Zenon DEF ConnectTypes, ConnectTypeOK, LifeTypes
  <1>3. CloseInv
    BY <1>1 DEF ConnectInit, CloseInv, Accepting
  <1>4. ASSUME NEW c \in Conns PROVE RefsInv(c) /\ LifeInv(c) /\ StartInv(c) /\ HelloInv(c)
    <2>1. /\ refs[c] = {} /\ life[c] = "none" /\ worker[c] = "none" /\ c \notin endpoints
          /\ tcpReg[c] = "none" /\ toClient[c] = <<>> /\ toServer[c] = <<>> /\ client[c] = "idle"
          /\ ~handshake_ok[c]
      BY DEF ConnectInit
    <2>2. RefsInv(c) /\ LifeInv(c) /\ StartInv(c)
      BY <1>1, <2>1 DEF RefsInv, LifeInv, StartInv, InUse
    <2>3. Len(toServer[c]) <= 1 BY <2>1, NoMessage, Zenon
    <2>4. HelloInv(c)
      BY <2>1, <2>3, Zenon DEF HelloInv
    <2>. QED BY <2>2, <2>4, Zenon
  <1>. QED BY <1>2, <1>3, <1>4, Zenon DEF ConnectInv

\* Every step keeps the invariant.
LEMMA ConnectInvNext == ConnectInv /\ [ConnectNext]_connectVars => ConnectInv'
  <1> SUFFICES ASSUME ConnectInv, [ConnectNext]_connectVars PROVE ConnectInv'
    BY Zenon
  <1>1. ConnectTypes /\ CloseInv /\ \A c \in Conns : EndpointInv(c) /\ HelloInv(c)
    BY Zenon DEF ConnectInv, EndpointInv
  <1>2. ConnectTypes' BY <1>1, ConnectTypesStep, Zenon
  <1>3. \A c \in Conns : EndpointInv(c)' BY <1>1, <1>2, EndpointStep, Zenon
  <1>4. \A c \in Conns : HelloInv(c)' BY <1>1, HelloStep, Zenon
  <1>5. CloseInv' BY <1>1, CloseStep, Zenon
  <1>. QED BY <1>2, <1>3, <1>4, <1>5, Zenon DEF ConnectInv, EndpointInv

\* What the run checks follows from the invariant.
LEMMA ConnectInvSafe == ConnectInv => ConnectTypeOK /\ ConnectSafe
  <1> SUFFICES ASSUME ConnectInv PROVE ConnectTypeOK /\ ConnectSafe
    BY Zenon
  <1>1. ConnectTypeOK BY Zenon DEF ConnectInv, ConnectTypes
  <1>2. ASSUME NEW c \in Conns, worker[c] \notin {"none", "end"} PROVE life[c] \in InUse
    BY <1>2, Zenon DEF ConnectInv, RefsInv, LifeInv
  <1>3. CloseQuiescent
    <2> SUFFICES ASSUME closer = "done" PROVE CloseQuiescent!2
      BY Zenon DEF CloseQuiescent
    <2>1. endpoints = {} /\ listener_recycled BY DEF ConnectInv, CloseInv
    <2>2. ASSUME NEW c \in Conns PROVE life[c] \in {"none", "recycled"} /\ worker[c] \in {"none", "end"}
      <3>1. life[c] \notin InUse BY <2>1, Zenon DEF ConnectInv, LifeInv
      <3>. QED BY <1>1, <1>2, <3>1 DEF ConnectTypeOK, InUse
    <2>3. dispatcher.pc \notin {"accept", "added", "register"}
      BY <2>1, Zenon DEF ConnectInv, CloseInv, Accepting
    <2>. QED BY <2>1, <2>2, <2>3, Zenon
  <1>4. HandshakeOwnsFd
    BY <1>2, Zenon DEF HandshakeOwnsFd, ConnectInv, StartInv, InUse
  <1>5. ReadyBeforeSend
    BY Zenon DEF ReadyBeforeSend, ConnectInv, HelloInv
  <1>. QED BY <1>1, <1>3, <1>4, <1>5, Zenon DEF ConnectSafe

-----------------------------------------------------------------------------
(* Connect: the theorems *)

\* A step of McNext is one of the connections' or leaves them alone.
LEMMA ConnectPart == McInit /\ [][McNext]_McVars => ConnectInit /\ [][ConnectNext]_connectVars
  <1>1. McInit => ConnectInit BY Zenon DEF McInit
  <1>2. [McNext]_McVars => [ConnectNext]_connectVars
    BY Zenon DEF McNext, Connecting, Calling, McVars
  <1>. QED BY <1>1, <1>2, PTL

\* In MCEndpoint the part of Rpc leaves the invariant alone.
LEMMA ConnectInvariant == McSpec => []ConnectInv
  <1>1. McSpec => ConnectInit /\ [][ConnectNext]_connectVars
    BY ConnectPart, PTL DEF McSpec
  <1>. QED BY <1>1, ConnectInvInit, ConnectInvNext, PTL

\* For any set of connections: a server whose Close() has returned has no endpoint,
\* handshake thread or callback left, a handshake thread has its endpoint and its
\* descriptor, and neither side sends before the other is ready
\* (src/src-endpoint/fast_server.cc, event_dispatcher.cc, fast_rdma_endpoint.cc).
THEOREM ConnectionsSafe == McSpec => []ConnectSafe
  BY ConnectInvariant, ConnectInvSafe, PTL

=============================================================================
